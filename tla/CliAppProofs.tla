------------------------------ MODULE CliAppProofs ------------------------------
(***************************************************************************)
(* Proofs about CliApp and SessionStores: sealing keys are used once, a    *)
(* tick is a comparison, replaced keys are reported and who was removed is *)
(* not written to, for any number of contacts, commands and crashes.       *)
(***************************************************************************)
EXTENDS CliApp, SequenceFacts

\* The kinds of operations, those that may meet a new key, and the places where
\* operations, commands and tasks may be.
Kinds == {"none", "establish", "encrypt", "decryptPreKey", "decrypt"}

Opening == {"establish", "decryptPreKey"}

Ats == {"none", "queued", "read", "identity", "done", "failed"}

Cmds == Resolving \cup {"aiRemove", "send", "view", "none"}

Pcs == {"idle", "fetch", "check", "session", "rekey", "wait", "list", "listed", "render", "mark",
        "show", "ensure", "encrypt", "sealing", "rest", "author", "finish", "deliver"}

\* Those at which a task holds the key of a bundle.
Keyed == {"check", "session", "rekey"}

MaybeKey == Nat \cup {Null}

\* A session, an operation and a list of sessions, with n chains started.
Session(n) == [key : Nat, chain : 0 .. n, n : Nat]
Op(n) == [kind : Kinds, peer : Contacts \cup {Null}, key : MaybeKey, at : Ats,
          rec : Session(n) \cup {Null}]
Sessions(n) == [Contacts -> Session(n) \cup {Null}]
Task == [cmd : Cmds, pc : Pcs, peer : Contacts \cup {Null}, key : MaybeKey,
         members : SUBSET Contacts, fps : [Contacts -> MaybeKey],
         todo : SUBSET Contacts, avoid : SUBSET Contacts]
Disk(n) == [known : [Contacts -> MaybeKey], sess : Sessions(n),
            dir : SUBSET Contacts, cached : SUBSET Contacts, held : Nat]

\* The types of the specification, and of what it leaves untyped.
StoreShape ==
    /\ chains \in Nat
    /\ known \in [Contacts -> MaybeKey] /\ sess \in Sessions(chains)
    /\ changes \subseteq Contacts
    /\ storeTail \in Seq(Tasks)
    /\ op \in [Tasks -> Op(chains)]
    /\ made \in Seq(Contacts \X (0 .. chains) \X Nat)

RosterShape ==
    /\ pub \in [Contacts -> Nat]
    /\ roster \subseteq Contacts /\ gone \subseteq Contacts

LogShape ==
    /\ authored \in Seq(SUBSET Contacts)
    /\ held \in 1 .. Len(authored) /\ stored \in 1 .. Len(authored)
    /\ disk.held \in 1 .. Len(authored)

TaskShape == task \in [Tasks -> Task]

AccountShape ==
    /\ dir \subseteq Contacts /\ cached \subseteq Contacts
    /\ verified \in [Contacts -> MaybeKey] /\ aiMember \in Contacts \cup {Null}
    /\ crashes \in Nat

DiskShape == disk \in Disk(chains)

Shape == StoreShape /\ RosterShape /\ LogShape /\ TaskShape /\ AccountShape /\ DiskShape

\* An operation o has what its kind and its progress call for.
OpFit(o, n) ==
    /\ o.at = "none" <=> o.kind = "none"
    /\ o.kind # "none" => o.peer \in Contacts
    /\ o.kind \in Opening => o.key \in Nat
    /\ o.at \in {"read", "identity"} => o.rec \in Session(n)

\* Task t at k waits exactly for its operation o, of the kind it asked for.
TaskFit(t, k, o) ==
    /\ k.pc \in {"wait", "sealing"} <=> o.at # "none"
    /\ k.pc = "sealing" => o.kind = "encrypt"
    /\ k.pc = "wait" => o.kind # "encrypt"
    /\ k.pc \in Keyed => k.key \in Nat
    /\ k.pc \in {"fetch", "rest", "author"} \cup Keyed => k.peer \in Contacts
    /\ k.pc = "wait" /\ t # Inbox => k.peer \in Contacts
    /\ k.cmd \in {"verify", "aiInvite"} => k.peer \in Contacts

\* So it is for every task.
Fitting == \A t \in Tasks : OpFit(op[t], chains) /\ TaskFit(t, task[t], op[t])

\* An operation that has begun, and one that has not ended.
Working == {"read", "identity"}

ToDo == Working \cup {"queued"}

\* The operations to do are queued, each once, and only the first has begun.
QueueInv ==
    /\ \A t \in Tasks :
          op[t].at \in ToDo <=> \E i \in DOMAIN storeTail : storeTail[i] = t
    /\ \A i, j \in DOMAIN storeTail : storeTail[i] = storeTail[j] => i = j
    /\ \A t \in Tasks : op[t].at \in Working => storeTail # <<>> /\ storeTail[1] = t

\* The keys used with a peer on a chain are up to position n.
UpTo(keys, c, chain, n) ==
    \A i \in DOMAIN keys : keys[i][1] = c /\ keys[i][2] = chain => keys[i][3] <= n

\* An operation o at work will not use a key again.
Fresh(keys, o) ==
    IF o.kind = "encrypt" THEN UpTo(keys, o.peer, o.rec.chain, o.rec.n - 1)
                          ELSE UpTo(keys, o.peer, o.rec.chain, o.rec.n)

\* No key is used twice.
RatchetInv ==
    /\ RatchetAdvances /\ IsFiniteSet(ToSet(made))
    /\ \A c \in Contacts : sess[c] # Null => UpTo(made, c, sess[c].chain, sess[c].n)
    /\ \A t \in Tasks : op[t].at \in Working => Fresh(made, op[t])

\* A session is bound to the key on file, but for the operation that has saved
\* the peer's key and not yet the session.
KeyInv ==
    /\ \A c \in Contacts :
          sess[c] # Null /\ (\A t \in Tasks : op[t].at = "identity" => op[t].peer # c)
            => known[c] = sess[c].key
    /\ \A t \in Tasks : op[t].at = "read" /\ op[t].kind \notin Opening =>
          sess[op[t].peer] # Null /\ op[t].rec.key = sess[op[t].peer].key
    /\ \A t \in Tasks : op[t].at = "identity" => known[op[t].peer] = op[t].rec.key

\* What a task avoids, now and wherever its request leads it.
Avoids(k, o, rost, log) ==
    /\ k.avoid \cap rost \cap log = {}
    /\ IF k.pc = "listed" THEN k.avoid \cap k.members \cap log = {}
                          ELSE k.avoid \cap k.members = {}
    /\ k.avoid \cap k.todo = {}
    /\ o.kind = "encrypt" => o.peer \notin k.avoid

\* Nobody is removed at the relay and on its roster.
AvoidInv ==
    /\ gone \cap roster = {}
    /\ \A t \in Tasks : Avoids(task[t], op[t], roster, fold)

\* What counts as verified was put up for comparison, or is yet to be.
VerifiedShown == \A c \in Contacts : verified[c] # Null => <<c, verified[c]>> \in shown \cup unseen

\* What the code keeps.
IInv ==
    /\ Shape /\ Fitting /\ QueueInv /\ RatchetInv
    /\ crashes = 0 => KeyInv
    /\ ChangeIsReported /\ AvoidInv /\ VerifiedShown /\ TickMeansCompared

---------------------------------------------------------------------------
(***************************************************************************)
(* Types, and what each operation on the stores does                       *)
(***************************************************************************)

\* What is typed with n chains started is typed with more.
LEMMA Grows ==
    ASSUME NEW n \in Nat, NEW m \in Nat, n <= m
    PROVE  /\ Session(n) \subseteq Session(m) /\ Op(n) \subseteq Op(m)
           /\ Sessions(n) \subseteq Sessions(m) /\ Disk(n) \subseteq Disk(m)
<1>1. Session(n) \subseteq Session(m)  BY DEF Session
<1>2. Op(n) \subseteq Op(m)  BY <1>1 DEF Op
<1>3. Sessions(n) \subseteq Sessions(m)  BY <1>1 DEF Sessions
<1>4. Disk(n) \subseteq Disk(m)  BY <1>3 DEF Disk
<1> QED  BY <1>1, <1>2, <1>3, <1>4

\* A task without an operation.
LEMMA NoOpTyped == ASSUME NEW n \in Nat PROVE NoOp \in Op(n) /\ OpFit(NoOp, n)
<1>1. NoOp \in Op(n)  BY DEF NoOp, Op, Kinds, Ats, MaybeKey
<1>2. OpFit(NoOp, n)  BY DEF NoOp, OpFit, Opening
<1> QED  BY <1>1, <1>2

\* The operation of one task changes.
LEMMA OpSet ==
    ASSUME NEW S, op \in [Tasks -> S], NEW t \in Tasks, NEW o \in S, op' = [op EXCEPT ![t] = o]
    PROVE  /\ op' \in [Tasks -> S] /\ op'[t] = o
           /\ \A s \in Tasks : s # t => op'[s] = op[s]
OBVIOUS

\* The fields of an operation under way.
LEMMA OpGives ==
    ASSUME StoreShape, NEW t \in Tasks, OpFit(op[t], chains)
    PROVE  /\ op[t] \in Op(chains)
           /\ op[t].at # "none" => op[t].peer \in Contacts
           /\ op[t].kind \in Opening => op[t].key \in Nat
           /\ op[t].at \in Working =>
                 /\ op[t].rec \in Session(chains) /\ op[t].rec.key \in Nat
                 /\ op[t].rec.chain \in 0 .. chains /\ op[t].rec.n \in Nat
<1>1. op[t] \in Op(chains)  BY DEF StoreShape
<1>2. op[t].at \in Working => op[t].rec \in Session(chains)  BY DEF OpFit, Working
<1>3. \A r \in Session(chains) : r.key \in Nat /\ r.chain \in 0 .. chains /\ r.n \in Nat
  BY DEF Session
<1> QED  BY <1>1, <1>2, <1>3 DEF OpFit

\* An operation is appended to the chain.
LEMMA ExclusiveEffect ==
    ASSUME StoreShape, NEW t \in Tasks, NEW kind \in Kinds, kind # "none",
           NEW c \in Contacts, NEW key \in MaybeKey, kind \in Opening => key \in Nat,
           RunExclusive(t, kind, c, key)
    PROVE  /\ StoreShape' /\ OpFit(op'[t], chains')
           /\ storeTail' = Append(storeTail, t) /\ storeTail \in Seq(Tasks)
           /\ op'[t].at = "queued" /\ op'[t].kind = kind /\ op'[t].peer = c
           /\ \A s \in Tasks : s # t => op'[s] = op[s]
           /\ UNCHANGED <<known, sess, changes, chains, made>>
<1> DEFINE o == [kind |-> kind, peer |-> c, key |-> key, at |-> "queued", rec |-> Null]
<1>1. o \in Op(chains)  BY DEF Op, Ats
<1>2. OpFit(o, chains) /\ o.at = "queued" /\ o.kind = kind /\ o.peer = c  BY DEF OpFit
<1>3. op' = [op EXCEPT ![t] = o]  BY DEF RunExclusive
<1> HIDE DEF o
<1>4. op' \in [Tasks -> Op(chains)] /\ op'[t] = o /\ \A s \in Tasks : s # t => op'[s] = op[s]
  BY <1>1, <1>3, OpSet DEF StoreShape
<1>5. /\ storeTail' = Append(storeTail, t) /\ storeTail \in Seq(Tasks)
      /\ UNCHANGED <<known, sess, changes, chains, made>>
  BY DEF RunExclusive, StoreShape
<1>6. storeTail' \in Seq(Tasks)  BY <1>5, AppendProperties
<1>7. StoreShape'  BY <1>4, <1>5, <1>6 DEF StoreShape
<1> QED  BY <1>2, <1>4, <1>5, <1>7

\* The caller of an operation takes its result.
LEMMA EndedEffect ==
    ASSUME StoreShape, NEW t \in Tasks, op' = [op EXCEPT ![t] = NoOp],
           changes' \in {{}, changes}, UNCHANGED <<known, sess, storeTail, chains, made>>
    PROVE  /\ StoreShape' /\ OpFit(op'[t], chains')
           /\ op'[t] = NoOp /\ op'[t].at = "none" /\ op'[t].kind = "none"
           /\ \A s \in Tasks : s # t => op'[s] = op[s]
<1>1. NoOp \in Op(chains) /\ OpFit(NoOp, chains)  BY NoOpTyped DEF StoreShape
<1>2. NoOp.at = "none" /\ NoOp.kind = "none"  BY DEF NoOp
<1>3. /\ op' \in [Tasks -> Op(chains)] /\ op'[t] = NoOp
      /\ \A s \in Tasks : s # t => op'[s] = op[s]
  BY <1>1, OpSet DEF StoreShape
<1>4. changes' \subseteq Contacts  BY DEF StoreShape
<1>5. StoreShape'  BY <1>3, <1>4 DEF StoreShape
<1> QED  BY <1>1, <1>2, <1>3, <1>5

\* An operation begins.
LEMMA ReadEffect ==
    ASSUME StoreShape, NEW t \in Tasks, OpFit(op[t], chains), OpRead(t)
    PROVE  /\ StoreShape' /\ OpFit(op'[t], chains')
           /\ op[t].at = "queued" /\ Head(storeTail) = t
           /\ op'[t].at = "read" /\ op'[t].kind = op[t].kind /\ op'[t].peer = op[t].peer
           /\ op[t].peer \in Contacts
           /\ \A s \in Tasks : s # t => op'[s] = op[s]
           /\ op[t].kind \in Opening => /\ chains' = chains + 1
                                        /\ op'[t].rec.chain = chains + 1 /\ op'[t].rec.n = 0
           /\ op[t].kind \notin Opening =>
                 /\ chains' = chains /\ sess[op[t].peer] # Null
                 /\ sess[op[t].peer] \in Session(chains)
                 /\ op'[t].rec.key = sess[op[t].peer].key
                 /\ op'[t].rec.chain = sess[op[t].peer].chain
                 /\ op'[t].rec.n = IF op[t].kind = "encrypt" THEN sess[op[t].peer].n + 1
                                                             ELSE sess[op[t].peer].n
           /\ UNCHANGED <<known, sess, changes, storeTail, made>>
<1> DEFINE c == op[t].peer
           r == CASE Opens(t) -> NewSession(op[t].key)
                  [] op[t].kind = "encrypt" -> [sess[c] EXCEPT !.n = @ + 1]
                  [] OTHER -> sess[c]
           o == [op[t] EXCEPT !.at = "read", !.rec = r]
<1>1. op[t].at = "queued" /\ Head(storeTail) = t  BY DEF OpRead, Starts
<1>2. op[t] \in Op(chains) /\ c \in Contacts /\ (op[t].kind \in Opening => op[t].key \in Nat)
  BY <1>1, OpGives
<1>3. Opens(t) <=> op[t].kind \in Opening  BY DEF Opens, Opening
<1>4. chains \in Nat /\ chains + 1 \in Nat /\ chains <= chains + 1 /\ chains <= chains
      /\ chains' = IF Opens(t) THEN chains + 1 ELSE chains
  BY DEF StoreShape, OpRead
<1>5. chains' \in Nat /\ chains <= chains'  BY <1>4
<1>6. ASSUME op[t].kind \in Opening
      PROVE  r \in Session(chains') /\ r.chain = chains + 1 /\ r.n = 0
  <2>1. r = NewSession(op[t].key)  BY <1>3, <1>6 DEF Opening
  <2>2. NewSession(op[t].key) = [key |-> op[t].key, chain |-> chains + 1, n |-> 0]
    BY DEF NewSession
  <2>3. r = [key |-> op[t].key, chain |-> chains + 1, n |-> 0]  BY <2>1, <2>2
  <2>4. chains + 1 \in 0 .. chains'  BY <1>3, <1>4, <1>6
  <2> HIDE DEF r
  <2> QED  BY <1>2, <1>6, <2>3, <2>4 DEF Session
<1>7. ASSUME op[t].kind \notin Opening
      PROVE  /\ chains' = chains /\ sess[c] # Null /\ sess[c] \in Session(chains)
             /\ r \in Session(chains') /\ r.key = sess[c].key /\ r.chain = sess[c].chain
             /\ r.n = IF op[t].kind = "encrypt" THEN sess[c].n + 1 ELSE sess[c].n
  <2>1. chains' = chains /\ sess[c] # Null  BY <1>3, <1>4, <1>7 DEF OpRead
  <2>2. sess[c] \in Session(chains)  BY <1>2, <2>1 DEF StoreShape, Sessions
  <2>3. CASE op[t].kind = "encrypt"
    <3>1. r = [sess[c] EXCEPT !.n = @ + 1]  BY <1>3, <1>7, <2>3
    <3> HIDE DEF r
    <3>2. r \in Session(chains) /\ r.key = sess[c].key /\ r.chain = sess[c].chain
          /\ r.n = sess[c].n + 1
      BY <2>2, <3>1 DEF Session
    <3> QED  BY <2>1, <2>2, <2>3, <3>2
  <2>4. CASE op[t].kind # "encrypt"
    <3>1. r = sess[c]  BY <1>3, <1>7, <2>4
    <3> HIDE DEF r
    <3> QED  BY <2>1, <2>2, <2>4, <3>1
  <2> QED  BY <2>3, <2>4
<1>8. r \in Session(chains')  BY <1>6, <1>7
<1>0. op' = [op EXCEPT ![t].at = "read", ![t].rec = r]  BY DEF OpRead
<1> HIDE DEF r
<1>9. op' = [op EXCEPT ![t] = o]  BY <1>0 DEF StoreShape
<1>10. /\ o \in Op(chains') /\ o.at = "read" /\ o.kind = op[t].kind /\ o.peer = op[t].peer
       /\ o.rec = r /\ o.key = op[t].key
  <2>1. op[t] \in Op(chains')  BY <1>2, <1>4, <1>5, Grows
  <2> QED  BY <1>8, <2>1 DEF Op, Ats
<1>11. OpFit(o, chains')  BY <1>1, <1>2, <1>8, <1>10 DEF OpFit
<1> HIDE DEF o
<1>12. op \in [Tasks -> Op(chains')]
  <2>1. op \in [Tasks -> Op(chains)] /\ Op(chains) \subseteq Op(chains')
    BY <1>4, <1>5, Grows DEF StoreShape
  <2> QED  BY <2>1
<1>13. op' \in [Tasks -> Op(chains')] /\ op'[t] = o /\ \A s \in Tasks : s # t => op'[s] = op[s]
  BY <1>9, <1>10, <1>12, OpSet
<1>14. UNCHANGED <<known, sess, changes, storeTail, made>>  BY DEF OpRead
<1>15. sess \in Sessions(chains')  BY <1>4, <1>5, Grows DEF StoreShape
<1>16. made \in Seq(Contacts \X (0 .. chains') \X Nat)
  <2>1. 0 .. chains \subseteq 0 .. chains'  BY <1>4, <1>5
  <2>2. Contacts \X (0 .. chains) \X Nat \subseteq Contacts \X (0 .. chains') \X Nat  BY <2>1
  <2> QED  BY <2>2, SeqMonotonic DEF StoreShape
<1>17. StoreShape'  BY <1>5, <1>13, <1>14, <1>15, <1>16 DEF StoreShape
<1>18. chains' = IF op[t].kind \in Opening THEN chains + 1 ELSE chains  BY <1>3, <1>4
<1> QED
  BY <1>1, <1>2, <1>6, <1>7, <1>10, <1>11, <1>13, <1>14, <1>17, <1>18

\* An operation fails, or there is nothing to encrypt with; then the next begins.
LEMMA ThrowEffect ==
    ASSUME StoreShape, NEW t \in Tasks, OpFit(op[t], chains), OpThrows(t), storeTail # <<>>
    PROVE  /\ StoreShape' /\ OpFit(op'[t], chains')
           /\ op[t].at = "queued" /\ Head(storeTail) = t
           /\ op'[t].at = "failed" /\ op'[t].kind = op[t].kind /\ op'[t].peer = op[t].peer
           /\ \A s \in Tasks : s # t => op'[s] = op[s]
           /\ storeTail' = Tail(storeTail) /\ storeTail \in Seq(Tasks)
           /\ UNCHANGED <<known, sess, changes, chains, made>>
<1> DEFINE o == [op[t] EXCEPT !.at = "failed"]
<1>1. op[t].at = "queued" /\ Head(storeTail) = t  BY DEF OpThrows, Starts
<1>2. op[t] \in Op(chains)  BY OpGives
<1>3. /\ o \in Op(chains) /\ o.at = "failed" /\ o.kind = op[t].kind /\ o.peer = op[t].peer
      /\ o.key = op[t].key
  BY <1>2 DEF Op, Ats
<1>4. OpFit(o, chains)  BY <1>1, <1>3 DEF OpFit
<1>5. op' = [op EXCEPT ![t] = o]  BY DEF OpThrows, StoreShape
<1> HIDE DEF o
<1>6. op' \in [Tasks -> Op(chains)] /\ op'[t] = o /\ \A s \in Tasks : s # t => op'[s] = op[s]
  BY <1>3, <1>5, OpSet DEF StoreShape
<1>7. /\ storeTail' = Tail(storeTail) /\ storeTail \in Seq(Tasks)
      /\ UNCHANGED <<known, sess, changes, chains, made>>
  BY DEF OpThrows, StoreShape
<1>8. storeTail' \in Seq(Tasks)  BY <1>7, Shortened
<1>9. StoreShape'  BY <1>6, <1>7, <1>8 DEF StoreShape
<1> QED  BY <1>1, <1>3, <1>4, <1>6, <1>7, <1>9

\* An operation saves the peer's key; the change log notes one that replaces another.
LEMMA IdentityEffect ==
    ASSUME StoreShape, NEW t \in Tasks, OpFit(op[t], chains), SaveIdentity(t)
    PROVE  /\ StoreShape' /\ OpFit(op'[t], chains')
           /\ op[t].at = "read" /\ op[t].peer \in Contacts /\ op[t].rec \in Session(chains)
           /\ op'[t].at = "identity" /\ op'[t].kind = op[t].kind /\ op'[t].peer = op[t].peer
           /\ op'[t].rec = op[t].rec
           /\ \A s \in Tasks : s # t => op'[s] = op[s]
           /\ known'[op[t].peer] = op[t].rec.key
           /\ \A c \in Contacts : c # op[t].peer => known'[c] = known[c]
           /\ known[op[t].peer] = op[t].rec.key => changes' = changes
           /\ UNCHANGED <<sess, storeTail, chains, made>>
<1> DEFINE o == [op[t] EXCEPT !.at = "identity"]
           c == op[t].peer
           key == op[t].rec.key
<1>1. op[t].at = "read"  BY DEF SaveIdentity
<1>2. op[t] \in Op(chains) /\ c \in Contacts /\ op[t].rec \in Session(chains) /\ key \in Nat
  BY <1>1, OpGives DEF Working
<1>3. /\ o \in Op(chains) /\ o.at = "identity" /\ o.kind = op[t].kind /\ o.peer = op[t].peer
      /\ o.key = op[t].key /\ o.rec = op[t].rec
  BY <1>2 DEF Op, Ats
<1>4. OpFit(o, chains)  BY <1>1, <1>2, <1>3 DEF OpFit
<1>5. op' = [op EXCEPT ![t] = o]  BY DEF SaveIdentity, StoreShape
<1> HIDE DEF o
<1>6. op' \in [Tasks -> Op(chains)] /\ op'[t] = o /\ \A s \in Tasks : s # t => op'[s] = op[s]
  BY <1>3, <1>5, OpSet DEF StoreShape
<1>7. /\ known' = [known EXCEPT ![c] = key]
      /\ changes' = IF known[c] \notin {Null, key} THEN changes \cup {c} ELSE changes
      /\ UNCHANGED <<sess, storeTail, chains, made>>
  BY DEF SaveIdentity
<1> HIDE DEF c, key
<1>8. /\ known' \in [Contacts -> MaybeKey] /\ known'[c] = key
      /\ \A d \in Contacts : d # c => known'[d] = known[d]
  BY <1>2, <1>7 DEF StoreShape, MaybeKey
<1>9. changes' \subseteq Contacts /\ (known[c] = key => changes' = changes)
  BY <1>2, <1>7 DEF StoreShape
<1>10. StoreShape'  BY <1>6, <1>7, <1>8, <1>9 DEF StoreShape
<1> QED  BY <1>1, <1>2, <1>3, <1>4, <1>6, <1>7, <1>8, <1>9, <1>10 DEF c, key

\* An operation saves the session and ends; then the next begins.
LEMMA SaveEffect ==
    ASSUME StoreShape, NEW t \in Tasks, OpFit(op[t], chains), SaveSession(t), storeTail # <<>>
    PROVE  /\ StoreShape' /\ OpFit(op'[t], chains')
           /\ op[t].at = "identity" /\ op[t].peer \in Contacts /\ op[t].rec \in Session(chains)
           /\ op'[t].at = "done" /\ op'[t].kind = op[t].kind /\ op'[t].peer = op[t].peer
           /\ \A s \in Tasks : s # t => op'[s] = op[s]
           /\ sess'[op[t].peer] = op[t].rec
           /\ \A c \in Contacts : c # op[t].peer => sess'[c] = sess[c]
           /\ made' = IF op[t].kind = "encrypt"
                      THEN Append(made, <<op[t].peer, op[t].rec.chain, op[t].rec.n>>) ELSE made
           /\ storeTail' = Tail(storeTail) /\ storeTail \in Seq(Tasks)
           /\ UNCHANGED <<known, changes, chains>>
<1> DEFINE o == [op[t] EXCEPT !.at = "done"]
           c == op[t].peer
           r == op[t].rec
           e == <<c, r.chain, r.n>>
           S == Contacts \X (0 .. chains) \X Nat
<1>1. op[t].at = "identity"  BY DEF SaveSession
<1>2. op[t] \in Op(chains) /\ c \in Contacts /\ r \in Session(chains)
      /\ r.chain \in 0 .. chains /\ r.n \in Nat
  BY <1>1, OpGives DEF Working
<1>3. /\ o \in Op(chains) /\ o.at = "done" /\ o.kind = op[t].kind /\ o.peer = op[t].peer
      /\ o.key = op[t].key
  BY <1>2 DEF Op, Ats
<1>4. OpFit(o, chains)  BY <1>1, <1>3 DEF OpFit
<1>5. op' = [op EXCEPT ![t] = o]  BY DEF SaveSession, StoreShape
<1> HIDE DEF o
<1>6. op' \in [Tasks -> Op(chains)] /\ op'[t] = o /\ \A s \in Tasks : s # t => op'[s] = op[s]
  BY <1>3, <1>5, OpSet DEF StoreShape
<1>7. /\ sess' = [sess EXCEPT ![c] = r]
      /\ made' = IF op[t].kind = "encrypt" THEN Append(made, e) ELSE made
      /\ storeTail' = Tail(storeTail) /\ storeTail \in Seq(Tasks)
      /\ UNCHANGED <<known, changes, chains>>
  BY DEF SaveSession, StoreShape
<1>8. e \in S  BY <1>2
<1> HIDE DEF c, r, e, S
<1>9. /\ sess' \in Sessions(chains) /\ sess'[c] = r
      /\ \A d \in Contacts : d # c => sess'[d] = sess[d]
  BY <1>2, <1>7 DEF StoreShape, Sessions
<1>10. made' \in Seq(S)
  <2>1. made \in Seq(S)  BY DEF StoreShape, S
  <2> QED  BY <1>7, <1>8, <2>1, AppendProperties
<1>11. storeTail' \in Seq(Tasks)  BY <1>7, Shortened
<1>12. StoreShape'  BY <1>6, <1>7, <1>9, <1>10, <1>11 DEF StoreShape, S
<1> QED  BY <1>1, <1>2, <1>3, <1>4, <1>6, <1>7, <1>9, <1>12 DEF c, r, e

---------------------------------------------------------------------------
(***************************************************************************)
(* The stores: every step that changes them                                *)
(***************************************************************************)

\* A task without an operation asks for one.
Asks(t, kind, c, key) ==
    /\ op[t].at = "none" /\ kind # "none"
    /\ kind \in Opening => key \in Nat
    /\ RunExclusive(t, kind, c, key)

\* A task takes the result of its operation, and looks at the changes unless
\* the operation brings none.
Takes(t) ==
    /\ op[t].at \in {"done", "failed"}
    /\ op' = [op EXCEPT ![t] = NoOp]
    /\ UNCHANGED <<known, sess, storeTail, chains, made>>
    /\ \/ changes' = {}
       \/ changes' = changes /\ (op[t].at = "failed" \/ op[t].kind = "encrypt")

\* What a command, and what the inbox does to the stores.
LEMMA CommandStores ==
    ASSUME Shape, Fitting, NEW t \in Slots, Command(t)
    PROVE  /\ UNCHANGED crashes
           /\ \/ UNCHANGED storeVars
              \/ \E kind \in Kinds, c \in Contacts, key \in MaybeKey : Asks(t, kind, c, key)
              \/ Takes(t)
<1>0. /\ t \in Tasks /\ task[t] \in Task /\ TaskFit(t, task[t], op[t]) /\ OpFit(op[t], chains)
      /\ t # Inbox
  BY SessionAssumption DEF Tasks, Fitting, Shape, TaskShape
<1>1. CASE HasSession(t)
  <2>1. /\ UNCHANGED crashes
        /\ UNCHANGED storeVars \/ RunExclusive(t, "establish", task[t].peer, task[t].key)
    BY <1>1 DEF HasSession
  <2>2. task[t].peer \in Contacts /\ task[t].key \in Nat /\ op[t].at = "none"
    <3>1. task[t].pc \in {"session", "rekey"}  BY <1>1 DEF HasSession
    <3> QED  BY <1>0, <3>1 DEF TaskFit, Keyed
  <2>3. "establish" \in Kinds /\ task[t].key \in MaybeKey  BY <2>2 DEF Kinds, MaybeKey
  <2> QED  BY <2>1, <2>2, <2>3 DEF Asks
<1>2. CASE Encrypt(t)
  <2>1. PICK c \in task[t].todo : RunExclusive(t, "encrypt", c, Null)  BY <1>2 DEF Encrypt
  <2>2. c \in Contacts  BY <1>0 DEF Task
  <2>3. op[t].at = "none"  BY <1>0, <1>2 DEF Encrypt, At, TaskFit
  <2>4. "encrypt" \in Kinds /\ Null \in MaybeKey /\ "encrypt" \notin Opening
    BY DEF Kinds, MaybeKey, Opening
  <2>5. UNCHANGED crashes  BY <1>2 DEF Encrypt
  <2> QED  BY <2>1, <2>2, <2>3, <2>4, <2>5 DEF Asks
<1>3. CASE Established(t)
  <2>1. op[t].at \in {"done", "failed"} /\ UNCHANGED crashes  BY <1>3 DEF Established
  <2>2. changes' = {} \/ (changes' = changes /\ op[t].at = "failed")
    BY <1>3, <2>1 DEF Established, Drain
  <2> QED  BY <1>3, <2>1, <2>2 DEF Established, Takes
<1>4. CASE Sealed(t)
  <2>1. op[t].kind = "encrypt"  BY <1>0, <1>4 DEF Sealed, At, TaskFit
  <2> QED  BY <1>4, <2>1 DEF Sealed, Takes
<1>5. CASE \/ \E c \in Contacts, cmd \in Resolving \cup {"aiRemove"} : Start(t, cmd, c)
           \/ \E cmd \in {"send", "view"} : Start(t, cmd, Null)
           \/ Fetch(t) \/ Check(t) \/ List(t) \/ Listed(t) \/ Render(t) \/ SetVerified(t)
           \/ Show(t)
  BY <1>5 DEF Start, Fetch, Check, List, Listed, Render, SetVerified, Show
<1>6. CASE Ensure(t) \/ Transmit(t) \/ Rest(t) \/ Author(t) \/ Finish(t) \/ RequestFails(t)
  BY <1>6 DEF Ensure, Transmit, Rest, Author, Finish, RequestFails
<1> QED  BY <1>1, <1>2, <1>3, <1>4, <1>5, <1>6 DEF Command

\* All of them.
LEMMA StoreSteps ==
    ASSUME Shape, Fitting, [Next]_vars
    PROVE  \/ Crash
           \/ /\ UNCHANGED crashes
              /\ \/ UNCHANGED storeVars
                 \/ \E t \in Tasks, kind \in Kinds, c \in Contacts, key \in MaybeKey :
                       Asks(t, kind, c, key)
                 \/ \E t \in Tasks : Takes(t)
                 \/ \E t \in Tasks : StoreStep(t)
<1>0. Inbox \in Tasks /\ Slots \subseteq Tasks  BY DEF Tasks
<1>1. CASE \E t \in Slots : Command(t)  BY <1>0, <1>1, CommandStores
<1>2. CASE \E t \in Tasks : StoreStep(t) /\ UNCHANGED cliVars  BY <1>2 DEF cliVars
<1>3. CASE \E c \in Contacts : Receive(c)
  <2>1. PICK c \in Contacts : Receive(c)  BY <1>3
  <2>2. op[Inbox].at = "none"
    <3>1. TaskFit(Inbox, task[Inbox], op[Inbox])  BY <1>0 DEF Fitting
    <3> QED  BY <2>1, <3>1 DEF Receive, At, TaskFit
  <2>3. \A key \in 1 .. pub[c] : key \in Nat  BY DEF Shape, RosterShape
  <2>4. \/ \E key \in 1 .. pub[c] : RunExclusive(Inbox, "decryptPreKey", c, key)
        \/ RunExclusive(Inbox, "decrypt", c, Null)
    BY <2>1 DEF Receive
  <2>5. /\ {"decryptPreKey", "decrypt"} \subseteq Kinds /\ Null \in MaybeKey
        /\ Nat \subseteq MaybeKey /\ "decrypt" \notin Opening
    BY DEF Kinds, MaybeKey, Opening
  <2>6. UNCHANGED crashes  BY <2>1 DEF Receive
  <2> QED  BY <1>0, <2>2, <2>3, <2>4, <2>5, <2>6 DEF Asks
<1>4. CASE Decrypted
  <2>1. op[Inbox].at \in {"done", "failed"}  BY <1>4 DEF Decrypted
  <2>2. changes' = {} \/ (changes' = changes /\ op[Inbox].at = "failed")
    BY <1>4, <2>1 DEF Decrypted, Drain
  <2>3. Takes(Inbox) /\ UNCHANGED crashes  BY <1>4, <2>1, <2>2 DEF Decrypted, Takes
  <2> QED  BY <1>0, <2>3
<1>5. CASE (\E c \in Contacts : Rotate(c)) \/ Deliver \/ OpArrives \/ UNCHANGED vars
  BY <1>5 DEF Rotate, Deliver, OpArrives, vars, cliVars
<1> QED  BY <1>1, <1>2, <1>3, <1>4, <1>5 DEF Next

\* The stores' types are kept, and the operations fit their progress.
LEMMA StoreShapeStep ==
    ASSUME Shape, Fitting, QueueInv, [Next]_vars
    PROVE  StoreShape' /\ \A t \in Tasks : OpFit(op[t], chains)'
<1>0. StoreShape /\ chains \in Nat /\ \A t \in Tasks : OpFit(op[t], chains)
  BY DEF Shape, StoreShape, Fitting
<1>1. CASE UNCHANGED storeVars  BY <1>0, <1>1 DEF storeVars, StoreShape
<1>2. CASE \E t \in Tasks, kind \in Kinds, c \in Contacts, key \in MaybeKey :
              Asks(t, kind, c, key)
  <2>1. PICK t \in Tasks, kind \in Kinds, c \in Contacts, key \in MaybeKey :
           Asks(t, kind, c, key)
    BY <1>2
  <2>2. /\ StoreShape' /\ OpFit(op'[t], chains') /\ chains' = chains
        /\ \A s \in Tasks : s # t => op'[s] = op[s]
    BY <1>0, <2>1, ExclusiveEffect DEF Asks
  <2> QED  BY <1>0, <2>2
<1>3. CASE \E t \in Tasks : Takes(t)
  <2>1. PICK t \in Tasks : Takes(t)  BY <1>3
  <2>2. /\ StoreShape' /\ OpFit(op'[t], chains') /\ chains' = chains
        /\ \A s \in Tasks : s # t => op'[s] = op[s]
    BY <1>0, <2>1, EndedEffect DEF Takes
  <2> QED  BY <1>0, <2>2
<1>4. CASE \E t \in Tasks : StoreStep(t)
  <2>1. PICK t \in Tasks : StoreStep(t)  BY <1>4
  <2>2. op[t].at \in ToDo => storeTail # <<>>
    <3>1. op[t].at \in ToDo => \E i \in DOMAIN storeTail : storeTail[i] = t  BY DEF QueueInv
    <3>2. DOMAIN <<>> = {}  OBVIOUS
    <3> QED  BY <3>1, <3>2
  <2>3. op[t].at \in ToDo
    BY <2>1 DEF StoreStep, OpRead, OpThrows, SaveIdentity, SaveSession, Starts, ToDo, Working
  <2>4. /\ StoreShape' /\ OpFit(op'[t], chains')
        /\ \A s \in Tasks : s # t => op'[s] = op[s]
        /\ chains' = chains \/ chains' = chains + 1
    BY <1>0, <2>1, <2>2, <2>3, ReadEffect, ThrowEffect, IdentityEffect, SaveEffect DEF StoreStep
  <2>5. \A o : OpFit(o, chains) => OpFit(o, chains')
    <3>1. chains' \in Nat /\ chains <= chains'  BY <1>0, <2>4
    <3>2. Session(chains) \subseteq Session(chains')  BY <1>0, <3>1, Grows
    <3> QED  BY <3>2 DEF OpFit
  <2> QED  BY <1>0, <2>4, <2>5
<1>5. CASE Crash
  <2>1. /\ known' = disk.known /\ sess' = disk.sess /\ changes' = {} /\ storeTail' = <<>>
        /\ op' = [t \in Tasks |-> NoOp] /\ made' = <<>> /\ chains' = chains
    BY <1>5 DEF Crash
  <2>2. disk.known \in [Contacts -> MaybeKey] /\ disk.sess \in Sessions(chains)
    BY DEF Shape, DiskShape, Disk
  <2>3. NoOp \in Op(chains) /\ OpFit(NoOp, chains)  BY <1>0, NoOpTyped
  <2>4. <<>> \in Seq(Tasks) /\ <<>> \in Seq(Contacts \X (0 .. chains) \X Nat)  OBVIOUS
  <2>5. StoreShape'  BY <1>0, <2>1, <2>2, <2>3, <2>4 DEF StoreShape
  <2> QED  BY <2>1, <2>3, <2>5
<1> QED  BY <1>1, <1>2, <1>3, <1>4, <1>5, StoreSteps

---------------------------------------------------------------------------
(***************************************************************************)
(* The chain of operations                                                 *)
(***************************************************************************)

\* Who works is the chain's first, and so the only one.
LEMMA WorksAlone ==
    ASSUME StoreShape, QueueInv, NEW t \in Tasks,
           op[t].at \in Working \/ (op[t].at = "queued" /\ Head(storeTail) = t)
    PROVE  /\ storeTail # <<>> /\ storeTail[1] = t
           /\ \A s \in Tasks : s # t => op[s].at \notin Working
<1>1. op[t].at \in ToDo  BY DEF ToDo
<1>2. \E i \in DOMAIN storeTail : storeTail[i] = t  BY <1>1 DEF QueueInv
<1>3. DOMAIN <<>> = {}  OBVIOUS
<1>4. storeTail # <<>>  BY <1>2, <1>3
<1>5. Head(storeTail) = storeTail[1]  BY <1>4, Shortened DEF StoreShape
<1>6. storeTail[1] = t  BY <1>5 DEF QueueInv
<1> QED  BY <1>4, <1>6 DEF QueueInv

\* The chain's first ends; the others stay in it.
LEMMA QueueAdvances ==
    ASSUME StoreShape, QueueInv, NEW t \in Tasks, storeTail # <<>>, storeTail[1] = t,
           storeTail' = Tail(storeTail), op'[t].at \notin ToDo,
           \A s \in Tasks : s # t => op'[s] = op[s] /\ op[s].at \notin Working
    PROVE  QueueInv'
<1>1. /\ 1 \in DOMAIN storeTail
      /\ \A i \in DOMAIN storeTail' : i + 1 \in DOMAIN storeTail /\ storeTail'[i] = storeTail[i + 1]
      /\ \A i \in DOMAIN storeTail : i # 1 => i - 1 \in DOMAIN storeTail'
                                              /\ storeTail'[i - 1] = storeTail[i]
      /\ DOMAIN storeTail' = 1 .. (Len(storeTail) - 1) /\ Len(storeTail) \in Nat
  BY Shortened DEF StoreShape
<1>2. \A i, j \in DOMAIN storeTail : storeTail[i] = storeTail[j] => i = j  BY DEF QueueInv
<1>3. \A i \in DOMAIN storeTail' : storeTail'[i] # t
  <2> SUFFICES ASSUME NEW i \in DOMAIN storeTail', storeTail'[i] = t PROVE FALSE  OBVIOUS
  <2>1. i + 1 = 1  BY <1>1, <1>2
  <2>2. i \in 1 .. (Len(storeTail) - 1)  BY <1>1
  <2> QED  BY <2>1, <2>2
<1>4. ASSUME NEW s \in Tasks
      PROVE  op'[s].at \in ToDo <=> \E i \in DOMAIN storeTail' : storeTail'[i] = s
  <2>1. CASE s = t  BY <1>3, <2>1
  <2>2. CASE s # t
    <3>1. op'[s].at \in ToDo <=> \E i \in DOMAIN storeTail : storeTail[i] = s
      BY <2>2 DEF QueueInv
    <3>2. (\E i \in DOMAIN storeTail : storeTail[i] = s)
            <=> \E i \in DOMAIN storeTail' : storeTail'[i] = s
      BY <1>1, <2>2
    <3> QED  BY <3>1, <3>2
  <2> QED  BY <2>1, <2>2
<1>5. ASSUME NEW i \in DOMAIN storeTail', NEW j \in DOMAIN storeTail',
             storeTail'[i] = storeTail'[j]
      PROVE  i = j
  <2>1. i + 1 = j + 1  BY <1>1, <1>2, <1>5
  <2> QED  BY <1>1, <2>1
<1>6. \A s \in Tasks : op'[s].at \notin Working  BY DEF ToDo
<1> QED  BY <1>4, <1>5, <1>6 DEF QueueInv

\* The order of operations is kept.
LEMMA QueueStep ==
    ASSUME Shape, Fitting, QueueInv, [Next]_vars
    PROVE  QueueInv'
<1>0. StoreShape /\ \A t \in Tasks : OpFit(op[t], chains)  BY DEF Shape, Fitting
<1>1. CASE UNCHANGED storeVars  BY <1>1 DEF storeVars, QueueInv
<1>2. CASE \E t \in Tasks, kind \in Kinds, c \in Contacts, key \in MaybeKey :
              Asks(t, kind, c, key)
  <2>1. PICK t \in Tasks, kind \in Kinds, c \in Contacts, key \in MaybeKey :
           Asks(t, kind, c, key)
    BY <1>2
  <2>2. /\ storeTail' = Append(storeTail, t) /\ storeTail \in Seq(Tasks)
        /\ op'[t].at = "queued" /\ op[t].at = "none"
        /\ \A s \in Tasks : s # t => op'[s] = op[s]
    BY <1>0, <2>1, ExclusiveEffect DEF Asks
  <2>3. /\ DOMAIN storeTail' = DOMAIN storeTail \cup {Len(storeTail) + 1}
        /\ Len(storeTail) + 1 \notin DOMAIN storeTail
        /\ \A i \in DOMAIN storeTail : storeTail'[i] = storeTail[i]
        /\ storeTail'[Len(storeTail) + 1] = t
    <3>1. /\ DOMAIN storeTail' = 1 .. (Len(storeTail) + 1) /\ DOMAIN storeTail = 1 .. Len(storeTail)
          /\ Len(storeTail) \in Nat
          /\ \A i \in DOMAIN storeTail : storeTail'[i] = storeTail[i]
          /\ storeTail'[Len(storeTail) + 1] = t
      BY <2>2, Appended
    <3> QED  BY <3>1
  <2>4. "none" \notin ToDo /\ "queued" \in ToDo /\ "queued" \notin Working
    BY DEF ToDo, Working
  <2>5. ~\E i \in DOMAIN storeTail : storeTail[i] = t  BY <2>2, <2>4 DEF QueueInv
  <2>6. \A s \in Tasks : op'[s].at \in ToDo <=> \E i \in DOMAIN storeTail' : storeTail'[i] = s
    BY <2>2, <2>3, <2>4 DEF QueueInv
  <2>7. \A i, j \in DOMAIN storeTail' : storeTail'[i] = storeTail'[j] => i = j
    BY <2>3, <2>5 DEF QueueInv
  <2>8. ASSUME NEW s \in Tasks, op'[s].at \in Working
        PROVE  storeTail' # <<>> /\ storeTail'[1] = s
    <3>1. s # t /\ op[s].at \in Working  BY <2>2, <2>4, <2>8
    <3>2. storeTail # <<>> /\ storeTail[1] = s  BY <3>1 DEF QueueInv
    <3>3. 1 \in DOMAIN storeTail  BY <2>2, <3>2, Shortened
    <3>4. DOMAIN <<>> = {}  OBVIOUS
    <3> QED  BY <2>3, <3>2, <3>3, <3>4
  <2> QED  BY <2>6, <2>7, <2>8 DEF QueueInv
<1>3. CASE \E t \in Tasks : Takes(t)
  <2>1. PICK t \in Tasks : Takes(t)  BY <1>3
  <2>2. /\ op'[t].at = "none" /\ op[t].at \in {"done", "failed"} /\ storeTail' = storeTail
        /\ \A s \in Tasks : s # t => op'[s] = op[s]
    BY <1>0, <2>1, EndedEffect DEF Takes
  <2>3. {"none", "done", "failed"} \cap ToDo = {} /\ Working \subseteq ToDo
    BY DEF ToDo, Working
  <2>4. \A s \in Tasks : (op'[s].at \in ToDo <=> op[s].at \in ToDo)
                         /\ (op'[s].at \in Working => op[s].at \in Working)
    BY <2>2, <2>3
  <2> QED  BY <2>2, <2>4 DEF QueueInv
<1>4. CASE \E t \in Tasks : StoreStep(t)
  <2>1. PICK t \in Tasks : StoreStep(t)  BY <1>4
  <2>2. /\ storeTail # <<>> /\ storeTail[1] = t /\ op[t].at \in ToDo
        /\ \A s \in Tasks : s # t => op[s].at \notin Working
    <3>1. op[t].at \in Working \/ (op[t].at = "queued" /\ Head(storeTail) = t)
      BY <2>1 DEF StoreStep, OpRead, OpThrows, SaveIdentity, SaveSession, Starts, Working
    <3> QED  BY <1>0, <3>1, WorksAlone DEF ToDo
  <2>3. CASE OpRead(t) \/ SaveIdentity(t)
    <3>1. /\ op'[t].at \in Working /\ storeTail' = storeTail
          /\ \A s \in Tasks : s # t => op'[s] = op[s]
      BY <1>0, <2>3, ReadEffect, IdentityEffect DEF Working
    <3>2. op'[t].at \in ToDo  BY <3>1 DEF ToDo
    <3>3. \A s \in Tasks : op'[s].at \in ToDo <=> op[s].at \in ToDo  BY <2>2, <3>1, <3>2
    <3>4. \A s \in Tasks : op'[s].at \in Working => s = t  BY <2>2, <3>1
    <3> QED  BY <2>2, <3>1, <3>3, <3>4 DEF QueueInv
  <2>4. CASE OpThrows(t) \/ SaveSession(t)
    <3>1. /\ op'[t].at \in {"failed", "done"} /\ storeTail' = Tail(storeTail)
          /\ \A s \in Tasks : s # t => op'[s] = op[s]
      BY <1>0, <2>2, <2>4, ThrowEffect, SaveEffect
    <3>2. op'[t].at \notin ToDo  BY <3>1 DEF ToDo, Working
    <3> QED  BY <1>0, <2>2, <3>1, <3>2, QueueAdvances
  <2> QED  BY <2>1, <2>3, <2>4 DEF StoreStep
<1>5. CASE Crash
  <2>1. storeTail' = <<>> /\ \A t \in Tasks : op'[t] = NoOp  BY <1>5 DEF Crash
  <2>2. NoOp.at = "none" /\ "none" \notin ToDo /\ "none" \notin Working
    BY DEF NoOp, ToDo, Working
  <2>3. DOMAIN storeTail' = {}  BY <2>1
  <2> QED  BY <2>1, <2>2, <2>3 DEF QueueInv
<1> QED  BY <1>1, <1>2, <1>3, <1>4, <1>5, StoreSteps

\* With that order, the chain moves on.
LEMMA QueueIsMoving == ASSUME StoreShape, QueueInv PROVE QueueMoves
<1>1. ASSUME storeTail # <<>>
      PROVE  op[Head(storeTail)].at \notin {"none", "done", "failed"}
  <2>1. Head(storeTail) \in Tasks /\ Head(storeTail) = storeTail[1] /\ 1 \in DOMAIN storeTail
    BY <1>1, Shortened DEF StoreShape
  <2>2. op[Head(storeTail)].at \in ToDo  BY <2>1 DEF QueueInv
  <2> QED  BY <2>2 DEF ToDo, Working
<1>2. ASSUME NEW t \in Tasks, op[t].at \in {"queued", "read", "identity"}
      PROVE  t \in ToSet(storeTail)
  <2>1. op[t].at \in ToDo  BY <1>2 DEF ToDo, Working
  <2>2. \E i \in DOMAIN storeTail : storeTail[i] = t  BY <2>1 DEF QueueInv
  <2> QED  BY <2>2 DEF ToSet
<1> QED  BY <1>1, <1>2 DEF QueueMoves

---------------------------------------------------------------------------
(***************************************************************************)
(* The keys that messages are sealed with                                  *)
(***************************************************************************)

\* One key more, not used before.
LEMMA KeyAdded ==
    ASSUME NEW S, NEW keys \in Seq(S), NEW e \in S, IsFiniteSet(ToSet(keys)),
           Cardinality(ToSet(keys)) = Len(keys), \A i \in DOMAIN keys : keys[i] # e
    PROVE  /\ IsFiniteSet(ToSet(Append(keys, e)))
           /\ Cardinality(ToSet(Append(keys, e))) = Len(Append(keys, e))
<1>1. /\ DOMAIN Append(keys, e) = 1 .. (Len(keys) + 1) /\ DOMAIN keys = 1 .. Len(keys)
      /\ Len(keys) \in Nat /\ Len(Append(keys, e)) = Len(keys) + 1
      /\ \A j \in DOMAIN keys : Append(keys, e)[j] = keys[j]
      /\ Append(keys, e)[Len(keys) + 1] = e
  BY Appended
<1>2. 1 .. (Len(keys) + 1) = (1 .. Len(keys)) \cup {Len(keys) + 1}  BY <1>1
<1>3. ToSet(Append(keys, e)) = ToSet(keys) \cup {e}
  <2> DEFINE k == Append(keys, e)
             n == Len(keys) + 1
  <2>1. DOMAIN k = DOMAIN keys \cup {n} /\ k[n] = e /\ \A j \in DOMAIN keys : k[j] = keys[j]
    BY <1>1, <1>2
  <2> HIDE DEF k, n
  <2>2. {k[i] : i \in DOMAIN k} = {keys[i] : i \in DOMAIN keys} \cup {e}  BY <2>1
  <2> QED  BY <2>2 DEF ToSet, k
<1>4. e \notin ToSet(keys)  BY DEF ToSet
<1>5. /\ IsFiniteSet(ToSet(keys) \cup {e})
      /\ Cardinality(ToSet(keys) \cup {e}) = Cardinality(ToSet(keys)) + 1
  BY <1>4, FS_AddElement
<1> QED  BY <1>1, <1>3, <1>5

\* Keys are used once.
LEMMA RatchetStep ==
    ASSUME Shape, Fitting, QueueInv, RatchetInv, [Next]_vars
    PROVE  RatchetInv'
<1>0. StoreShape /\ \A t \in Tasks : OpFit(op[t], chains)  BY DEF Shape, Fitting
<1>a. /\ {"none", "queued", "done", "failed"} \cap Working = {}
      /\ "read" \in Working /\ "identity" \in Working
  BY DEF Working
<1>b. \A i \in DOMAIN made : made[i] \in Contacts \X (0 .. chains) \X Nat
  BY <1>0, ElementOfSeq, LenProperties DEF StoreShape
<1>c. ASSUME UNCHANGED <<sess, made>>,
             \A s \in Tasks : op'[s].at \in Working => Fresh(made, op'[s])
      PROVE  RatchetInv'
  BY <1>c DEF RatchetInv, RatchetAdvances
<1>1. CASE UNCHANGED storeVars
  BY <1>1 DEF storeVars, RatchetInv, RatchetAdvances
<1>2. CASE \E t \in Tasks, kind \in Kinds, c \in Contacts, key \in MaybeKey :
              Asks(t, kind, c, key)
  <2>1. PICK t \in Tasks, kind \in Kinds, c \in Contacts, key \in MaybeKey :
           Asks(t, kind, c, key)
    BY <1>2
  <2>2. /\ UNCHANGED <<sess, made>> /\ op'[t].at = "queued"
        /\ \A s \in Tasks : s # t => op'[s] = op[s]
    BY <1>0, <2>1, ExclusiveEffect DEF Asks
  <2> QED  BY <1>a, <1>c, <2>2 DEF RatchetInv
<1>3. CASE \E t \in Tasks : Takes(t)
  <2>1. PICK t \in Tasks : Takes(t)  BY <1>3
  <2>2. /\ UNCHANGED <<sess, made>> /\ op'[t].at = "none"
        /\ \A s \in Tasks : s # t => op'[s] = op[s]
    BY <1>0, <2>1, EndedEffect DEF Takes
  <2> QED  BY <1>a, <1>c, <2>2 DEF RatchetInv
<1>4. CASE \E t \in Tasks : StoreStep(t)
  <2>1. PICK t \in Tasks : StoreStep(t)  BY <1>4
  <2> DEFINE c == op[t].peer
             o == op'[t]
  <2>2. /\ storeTail # <<>> /\ \A s \in Tasks : s # t => op[s].at \notin Working
    <3>1. op[t].at \in Working \/ (op[t].at = "queued" /\ Head(storeTail) = t)
      BY <2>1 DEF StoreStep, OpRead, OpThrows, SaveIdentity, SaveSession, Starts, Working
    <3> QED  BY <1>0, <3>1, WorksAlone
  <2>3. CASE OpRead(t)
    <3>1. /\ UNCHANGED <<sess, made>> /\ \A s \in Tasks : s # t => op'[s] = op[s]
          /\ o.kind = op[t].kind /\ o.peer = c /\ c \in Contacts
      BY <1>0, <2>3, ReadEffect
    <3>2. CASE op[t].kind \in Opening
      <4>1. o.rec.chain = chains + 1 /\ o.kind # "encrypt"
        BY <1>0, <2>3, <3>1, <3>2, ReadEffect DEF Opening
      <4>2. \A i \in DOMAIN made : made[i][2] \in 0 .. chains  BY <1>b
      <4>3. chains \in Nat  BY <1>0 DEF StoreShape
      <4>4. \A i \in DOMAIN made : made[i][2] # o.rec.chain  BY <4>1, <4>2, <4>3
      <4>5. Fresh(made, o)  BY <4>1, <4>4 DEF Fresh, UpTo
      <4> QED  BY <1>c, <2>2, <3>1, <4>5
    <3>3. CASE op[t].kind \notin Opening
      <4>1. /\ sess[c] # Null /\ sess[c] \in Session(chains)
            /\ o.rec.chain = sess[c].chain
            /\ o.rec.n = IF op[t].kind = "encrypt" THEN sess[c].n + 1 ELSE sess[c].n
        BY <1>0, <2>3, <3>3, ReadEffect
      <4>2. UpTo(made, c, sess[c].chain, sess[c].n)  BY <3>1, <4>1 DEF RatchetInv
      <4>3. sess[c].n \in Nat  BY <4>1 DEF Session
      <4>4. o.kind = "encrypt" => o.rec.n - 1 = sess[c].n  BY <3>1, <4>1, <4>3
      <4>5. o.kind # "encrypt" => o.rec.n = sess[c].n  BY <3>1, <4>1
      <4> HIDE DEF o, c
      <4>6. Fresh(made, o)  BY <3>1, <4>1, <4>2, <4>4, <4>5 DEF Fresh
      <4> QED  BY <1>c, <2>2, <3>1, <4>6 DEF o
    <3> QED  BY <3>2, <3>3
  <2>4. CASE OpThrows(t)
    <3>1. /\ UNCHANGED <<sess, made>> /\ op'[t].at = "failed"
          /\ \A s \in Tasks : s # t => op'[s] = op[s]
      BY <1>0, <2>2, <2>4, ThrowEffect
    <3> QED  BY <1>a, <1>c, <2>2, <3>1
  <2>5. CASE SaveIdentity(t)
    <3>1. /\ UNCHANGED <<sess, made>> /\ \A s \in Tasks : s # t => op'[s] = op[s]
          /\ o.kind = op[t].kind /\ o.peer = c /\ o.rec = op[t].rec /\ op[t].at = "read"
      BY <1>0, <2>5, IdentityEffect
    <3>2. Fresh(made, op[t])  BY <1>a, <3>1 DEF RatchetInv
    <3> HIDE DEF o
    <3>3. Fresh(made, o)  BY <3>1, <3>2 DEF Fresh
    <3> QED  BY <1>c, <2>2, <3>1, <3>3 DEF o
  <2>6. CASE SaveSession(t)
    <3> DEFINE r == op[t].rec
               e == <<c, r.chain, r.n>>
    <3>1. /\ op[t].at = "identity" /\ o.at = "done" /\ c \in Contacts /\ r \in Session(chains)
          /\ \A s \in Tasks : s # t => op'[s] = op[s]
          /\ sess'[c] = r /\ \A d \in Contacts : d # c => sess'[d] = sess[d]
          /\ made' = IF op[t].kind = "encrypt" THEN Append(made, e) ELSE made
      BY <1>0, <2>2, <2>6, SaveEffect
    <3>2. Fresh(made, op[t])  BY <1>a, <3>1 DEF RatchetInv
    <3>3. r.chain \in 0 .. chains /\ r.n \in Nat  BY <3>1 DEF Session
    <3>4. e \in Contacts \X (0 .. chains) \X Nat /\ e[1] = c /\ e[2] = r.chain /\ e[3] = r.n
      BY <3>1, <3>3
    <3>5. made \in Seq(Contacts \X (0 .. chains) \X Nat)  BY <1>0 DEF StoreShape
    <3> HIDE DEF c, r, e, o
    <3>6. \A s \in Tasks : op'[s].at \notin Working  BY <1>a, <2>2, <3>1 DEF o
    <3>7. CASE op[t].kind = "encrypt"
      <4>1. UpTo(made, c, r.chain, r.n - 1)  BY <3>2, <3>7 DEF Fresh, c, r
      <4>2. \A i \in DOMAIN made : made[i] # e  BY <3>3, <3>4, <4>1 DEF UpTo
      <4>3. IsFiniteSet(ToSet(made)) /\ Cardinality(ToSet(made)) = Len(made)
        BY DEF RatchetInv, RatchetAdvances
      <4>4. IsFiniteSet(ToSet(made')) /\ Cardinality(ToSet(made')) = Len(made')
        <5>1. /\ IsFiniteSet(ToSet(Append(made, e)))
              /\ Cardinality(ToSet(Append(made, e))) = Len(Append(made, e))
          BY <3>4, <3>5, <4>2, <4>3, KeyAdded
        <5> QED  BY <3>1, <3>7, <5>1
      <4>5. /\ DOMAIN made' = DOMAIN made \cup {Len(made) + 1}
            /\ made'[Len(made) + 1] = e /\ \A i \in DOMAIN made : made'[i] = made[i]
        <5>1. /\ DOMAIN made' = 1 .. (Len(made) + 1) /\ DOMAIN made = 1 .. Len(made)
              /\ Len(made) \in Nat
              /\ made'[Len(made) + 1] = e /\ \A i \in DOMAIN made : made'[i] = made[i]
          BY <3>1, <3>4, <3>5, <3>7, Appended
        <5> QED  BY <5>1
      <4>6. ASSUME NEW d \in Contacts, sess'[d] # Null
            PROVE  UpTo(made', d, sess'[d].chain, sess'[d].n)
        <5>1. CASE d = c
          <6>1. \A i \in DOMAIN made : made[i][3] \in Nat  BY <1>b
          <6>2. \A i \in DOMAIN made : made[i][1] = c /\ made[i][2] = r.chain => made[i][3] <= r.n
            BY <3>3, <4>1, <6>1 DEF UpTo
          <6>3. UpTo(made', c, r.chain, r.n)  BY <3>3, <3>4, <4>5, <6>2 DEF UpTo
          <6> QED  BY <3>1, <5>1, <6>3
        <5>2. CASE d # c
          <6>1. sess'[d] = sess[d] /\ UpTo(made, d, sess[d].chain, sess[d].n)
            BY <3>1, <4>6, <5>2 DEF RatchetInv
          <6>2. UpTo(made', d, sess[d].chain, sess[d].n)
            BY <3>4, <4>5, <5>2, <6>1 DEF UpTo
          <6> QED  BY <6>1, <6>2
        <5> QED  BY <5>1, <5>2
      <4> QED  BY <3>6, <4>4, <4>6 DEF RatchetInv, RatchetAdvances
    <3>8. CASE op[t].kind # "encrypt"
      <4>1. made' = made /\ UpTo(made, c, r.chain, r.n)  BY <3>1, <3>2, <3>8 DEF Fresh, c, r
      <4>2. \A d \in Contacts : sess'[d] # Null => UpTo(made', d, sess'[d].chain, sess'[d].n)
        BY <3>1, <4>1 DEF RatchetInv
      <4> QED  BY <3>6, <4>1, <4>2 DEF RatchetInv, RatchetAdvances
    <3> QED  BY <3>7, <3>8
  <2> QED  BY <2>1, <2>3, <2>4, <2>5, <2>6 DEF StoreStep
<1>5. CASE Crash
  <2>1. /\ made' = <<>> /\ sess' = disk.sess /\ \A t \in Tasks : op'[t] = NoOp
    BY <1>5 DEF Crash
  <2>2. ToSet(made') = {} /\ DOMAIN made' = {} /\ Len(made') = 0  BY <2>1 DEF ToSet
  <2>3. IsFiniteSet({}) /\ Cardinality({}) = 0  BY FS_EmptySet
  <2>4. NoOp.at \notin Working  BY <1>a DEF NoOp
  <2>5. \A c, chain, n : UpTo(made', c, chain, n)  BY <2>2 DEF UpTo
  <2> QED  BY <2>1, <2>2, <2>3, <2>4, <2>5 DEF RatchetInv, RatchetAdvances
<1> QED  BY <1>1, <1>2, <1>3, <1>4, <1>5, StoreSteps

---------------------------------------------------------------------------
(***************************************************************************)
(* Replaced identity keys                                                  *)
(***************************************************************************)

\* In the client's first life a session is bound to the key on file, and a key
\* that is replaced is one that a new session brings.
LEMMA KeyStep ==
    ASSUME Shape, Fitting, QueueInv, crashes = 0 => KeyInv, ChangeIsReported, [Next]_vars
    PROVE  (crashes' = 0 => KeyInv') /\ ChangeIsReported'
<1>0. StoreShape /\ \A t \in Tasks : OpFit(op[t], chains)  BY DEF Shape, Fitting
<1>1. CASE Crash
  <2>1. crashes' # 0  BY <1>1 DEF Crash, Shape, AccountShape
  <2> QED  BY <2>1 DEF ChangeIsReported
<1>2. CASE ~Crash
  <2>1. crashes' = crashes  BY <1>2, StoreSteps
  <2> SUFFICES ASSUME crashes = 0
               PROVE  KeyInv' /\ (changes' # {} => \E s \in Tasks : op'[s].kind \in Opening
                                                      /\ op'[s].at \in {"identity", "done"})
    BY <2>1 DEF ChangeIsReported, Opening
  <2>2. /\ KeyInv
        /\ changes # {} => \E s \in Tasks : op[s].kind \in Opening
                                            /\ op[s].at \in {"identity", "done"}
    BY DEF ChangeIsReported, Opening
  <2>3. CASE UNCHANGED storeVars  BY <2>2, <2>3 DEF storeVars, KeyInv
  <2>4. CASE \E t \in Tasks, kind \in Kinds, c \in Contacts, key \in MaybeKey :
                Asks(t, kind, c, key)
    <3>1. PICK t \in Tasks, kind \in Kinds, c \in Contacts, key \in MaybeKey :
             Asks(t, kind, c, key)
      BY <2>4
    <3>2. /\ UNCHANGED <<known, sess, changes>>
          /\ op[t].at = "none" /\ op'[t].at = "queued"
          /\ \A s \in Tasks : s # t => op'[s] = op[s]
      BY <1>0, <3>1, ExclusiveEffect DEF Asks
    <3>3. KeyInv'  BY <2>2, <3>2 DEF KeyInv
    <3> QED  BY <2>2, <3>2, <3>3
  <2>5. CASE \E t \in Tasks : Takes(t)
    <3>1. PICK t \in Tasks : Takes(t)  BY <2>5
    <3>2. /\ UNCHANGED <<known, sess>> /\ op[t].at \in {"done", "failed"} /\ op'[t].at = "none"
          /\ \A s \in Tasks : s # t => op'[s] = op[s]
          /\ \/ changes' = {}
             \/ changes' = changes /\ (op[t].at = "failed" \/ op[t].kind = "encrypt")
      BY <1>0, <3>1, EndedEffect DEF Takes
    <3>3. KeyInv'  BY <2>2, <3>2 DEF KeyInv
    <3>4. "encrypt" \notin Opening  BY DEF Opening
    <3> QED  BY <2>2, <3>2, <3>3, <3>4
  <2>6. CASE \E t \in Tasks : StoreStep(t)
    <3>1. PICK t \in Tasks : StoreStep(t)  BY <2>6
    <3> DEFINE c == op[t].peer
    <3>2. storeTail # <<>> /\ \A s \in Tasks : s # t => op[s].at \notin {"read", "identity"}
      <4>1. op[t].at \in Working \/ (op[t].at = "queued" /\ Head(storeTail) = t)
        BY <3>1 DEF StoreStep, OpRead, OpThrows, SaveIdentity, SaveSession, Starts, Working
      <4> QED  BY <1>0, <4>1, WorksAlone DEF Working
    <3>3. CASE OpRead(t)
      <4>1. /\ UNCHANGED <<known, sess, changes>>
            /\ op[t].at = "queued" /\ op'[t].at = "read"
            /\ op'[t].kind = op[t].kind /\ op'[t].peer = c
            /\ \A s \in Tasks : s # t => op'[s] = op[s]
            /\ op[t].kind \notin Opening => sess[c] # Null /\ op'[t].rec.key = sess[c].key
        BY <1>0, <3>3, ReadEffect
      <4> HIDE DEF c
      <4>2. KeyInv'  BY <2>2, <3>2, <4>1 DEF KeyInv
      <4> QED  BY <2>2, <4>1, <4>2
    <3>4. CASE OpThrows(t)
      <4>1. /\ UNCHANGED <<known, sess, changes>>
            /\ op[t].at = "queued" /\ op'[t].at = "failed"
            /\ \A s \in Tasks : s # t => op'[s] = op[s]
        BY <1>0, <3>2, <3>4, ThrowEffect
      <4>2. KeyInv'  BY <2>2, <4>1 DEF KeyInv
      <4> QED  BY <2>2, <4>1, <4>2
    <3>5. CASE SaveIdentity(t)
      <4>1. /\ sess' = sess /\ op[t].at = "read" /\ op'[t].at = "identity" /\ c \in Contacts
            /\ op'[t].kind = op[t].kind /\ op'[t].peer = c /\ op'[t].rec = op[t].rec
            /\ \A s \in Tasks : s # t => op'[s] = op[s]
            /\ known'[c] = op[t].rec.key /\ \A d \in Contacts : d # c => known'[d] = known[d]
            /\ known[c] = op[t].rec.key => changes' = changes
        BY <1>0, <3>5, IdentityEffect
      <4> HIDE DEF c
      <4>2. KeyInv'
        <5>1. ASSUME NEW d \in Contacts, sess'[d] # Null,
                     \A s \in Tasks : op'[s].at = "identity" => op'[s].peer # d
              PROVE  known'[d] = sess'[d].key
          <6>1. d # c  BY <4>1, <5>1
          <6>2. \A s \in Tasks : op[s].at # "identity"  BY <3>2, <4>1
          <6>3. known[d] = sess[d].key  BY <2>2, <4>1, <5>1, <6>2 DEF KeyInv
          <6> QED  BY <4>1, <6>1, <6>3
        <5>2. \A s \in Tasks : op'[s].at # "read"  BY <3>2, <4>1
        <5>3. ASSUME NEW s \in Tasks, op'[s].at = "identity"
              PROVE  known'[op'[s].peer] = op'[s].rec.key
          <6>1. s = t  BY <3>2, <4>1, <5>3
          <6> QED  BY <4>1, <6>1
        <5> QED  BY <5>1, <5>2, <5>3 DEF KeyInv
      <4>3. CASE op[t].kind \in Opening  BY <4>1, <4>2, <4>3
      <4>4. CASE op[t].kind \notin Opening
        <5>1. sess[c] # Null /\ op[t].rec.key = sess[c].key  BY <2>2, <4>1, <4>4 DEF KeyInv, c
        <5>2. known[c] = sess[c].key  BY <2>2, <3>2, <4>1, <5>1 DEF KeyInv
        <5> QED  BY <2>2, <4>1, <4>2, <5>1, <5>2
      <4> QED  BY <4>3, <4>4
    <3>6. CASE SaveSession(t)
      <4>1. /\ UNCHANGED <<known, changes>> /\ c \in Contacts
            /\ op[t].at = "identity" /\ op'[t].at = "done" /\ op'[t].kind = op[t].kind
            /\ \A s \in Tasks : s # t => op'[s] = op[s]
            /\ sess'[c] = op[t].rec /\ \A d \in Contacts : d # c => sess'[d] = sess[d]
        BY <1>0, <3>2, <3>6, SaveEffect
      <4>2. known[c] = op[t].rec.key  BY <2>2, <4>1 DEF KeyInv
      <4>3. \A d \in Contacts : d # c /\ sess[d] # Null => known[d] = sess[d].key
        <5>1. \A s \in Tasks : op[s].at = "identity" => op[s].peer = c  BY <3>2
        <5> QED  BY <2>2, <5>1 DEF KeyInv
      <4> HIDE DEF c
      <4>4. \A s \in Tasks : op'[s].at \notin {"read", "identity"}  BY <3>2, <4>1
      <4>5. \A d \in Contacts : sess'[d] # Null => known'[d] = sess'[d].key
        BY <4>1, <4>2, <4>3
      <4>6. KeyInv'  BY <4>4, <4>5 DEF KeyInv
      <4> QED  BY <2>2, <4>1, <4>6
    <3> QED  BY <3>1, <3>3, <3>4, <3>5, <3>6 DEF StoreStep
  <2> QED  BY <1>2, <2>3, <2>4, <2>5, <2>6, StoreSteps
<1> QED  BY <1>1, <1>2

---------------------------------------------------------------------------
(***************************************************************************)
(* The tasks                                                               *)
(***************************************************************************)

\* Task t at k is typed, waits for its operation o, and avoids whom it should.
Good(t, k, o, rost, log) == k \in Task /\ TaskFit(t, k, o) /\ Avoids(k, o, rost, log)

\* So are all of them.
TasksGood == \A t \in Tasks : Good(t, task[t], op[t], roster, fold)

\* One task goes on.
LEMMA TaskSet ==
    ASSUME TaskShape, TasksGood, NEW t \in Tasks, NEW k, task' = [task EXCEPT ![t] = k],
           Good(t, k, op'[t], roster, fold), \A s \in Tasks : s # t => op'[s] = op[s],
           UNCHANGED <<roster, fold>>
    PROVE  TaskShape' /\ TasksGood'
<1>1. /\ task' \in [Tasks -> Task] /\ task'[t] = k
      /\ \A s \in Tasks : s # t => task'[s] = task[s]
  BY DEF TaskShape, Good
<1>2. ASSUME NEW s \in Tasks PROVE Good(s, task'[s], op'[s], roster', fold')
  <2>1. CASE s = t  BY <1>1, <2>1
  <2>2. CASE s # t
    <3>1. Good(s, task[s], op[s], roster, fold)  BY DEF TasksGood
    <3> QED  BY <1>1, <2>2, <3>1
  <2> QED  BY <2>1, <2>2
<1> QED  BY <1>1, <1>2 DEF TaskShape, TasksGood

\* A task that ends, or has yet to begin.
LEMMA IdleIsGood ==
    ASSUME NEW t, NEW o, o.at = "none", o.kind = "none", NEW rost, NEW log
    PROVE  NoTask \in Task /\ Good(t, NoTask, o, rost, log)
<1>1. NoTask \in Task  BY DEF NoTask, Task, Cmds, Pcs, MaybeKey
<1>2. TaskFit(t, NoTask, o)  BY DEF NoTask, TaskFit, Keyed
<1>3. Avoids(NoTask, o, rost, log)  BY DEF NoTask, Avoids
<1> QED  BY <1>1, <1>2, <1>3 DEF Good

\* A task that only goes to another place.
LEMMA MovedIsGood ==
    ASSUME NEW t, NEW k, NEW o, NEW p, NEW rost, NEW log, Good(t, k, o, rost, log),
           NEW pc \in Pcs, k.pc # "listed", pc # "listed",
           pc \in {"wait", "sealing"} <=> p.at # "none",
           pc = "sealing" => p.kind = "encrypt", pc = "wait" => p.kind # "encrypt",
           pc \in Keyed => k.key \in Nat,
           pc \in {"fetch", "rest", "author"} \cup Keyed => k.peer \in Contacts,
           pc = "wait" /\ t # Inbox => k.peer \in Contacts,
           p.kind = "encrypt" => p.peer \notin k.avoid
    PROVE  Good(t, [k EXCEPT !.pc = pc], p, rost, log)
<1> DEFINE m == [k EXCEPT !.pc = pc]
<1>1. k \in Task  BY DEF Good
<1>2. /\ m \in Task /\ m.pc = pc /\ m.cmd = k.cmd /\ m.peer = k.peer /\ m.key = k.key
      /\ m.members = k.members /\ m.todo = k.todo /\ m.avoid = k.avoid
  BY <1>1 DEF Task
<1> HIDE DEF m
<1>3. TaskFit(t, m, p)  BY <1>2 DEF Good, TaskFit, Keyed
<1>4. Avoids(m, p, rost, log)  BY <1>2 DEF Good, Avoids
<1> QED  BY <1>2, <1>3, <1>4 DEF Good, m

\* A task whose place was only followed by others.
LEMMA MovesOn ==
    ASSUME TaskShape, TasksGood, NEW t \in Tasks, NEW pc \in Pcs, To(t, pc),
           task[t].pc # "listed", pc # "listed",
           pc \in {"wait", "sealing"} <=> op'[t].at # "none",
           pc = "sealing" => op'[t].kind = "encrypt", pc = "wait" => op'[t].kind # "encrypt",
           pc \in Keyed => task[t].key \in Nat,
           pc \in {"fetch", "rest", "author"} \cup Keyed => task[t].peer \in Contacts,
           pc = "wait" /\ t # Inbox => task[t].peer \in Contacts,
           op'[t].kind = "encrypt" => op'[t].peer \notin task[t].avoid,
           \A s \in Tasks : s # t => op'[s] = op[s], UNCHANGED <<roster, fold>>
    PROVE  TaskShape' /\ TasksGood'
<1> DEFINE k == [task[t] EXCEPT !.pc = pc]
<1>1. task' = [task EXCEPT ![t] = k]  BY DEF To, TaskShape
<1>2. Good(t, task[t], op[t], roster, fold)  BY DEF TasksGood
<1>3. Good(t, k, op'[t], roster, fold)  BY <1>2, MovedIsGood
<1> QED  BY <1>1, <1>3, TaskSet

\* A task ends.
LEMMA TaskEnds ==
    ASSUME TaskShape, TasksGood, NEW t \in Tasks, Ends(t),
           op'[t].at = "none", op'[t].kind = "none",
           \A s \in Tasks : s # t => op'[s] = op[s], UNCHANGED <<roster, fold>>
    PROVE  TaskShape' /\ TasksGood'
<1>1. task' = [task EXCEPT ![t] = NoTask]  BY DEF Ends
<1>2. Good(t, NoTask, op'[t], roster, fold)  BY IdleIsGood
<1> QED  BY <1>1, <1>2, TaskSet

\* What is known of a task that has no operation.
LEMMA FreeTask ==
    ASSUME Shape, Fitting, TasksGood, NEW t \in Tasks, task[t].pc \notin {"wait", "sealing"}
    PROVE  /\ op[t].at = "none" /\ op[t].kind = "none"
           /\ task[t] \in Task /\ Good(t, task[t], op[t], roster, fold)
<1>1. OpFit(op[t], chains) /\ TaskFit(t, task[t], op[t])  BY DEF Fitting
<1>2. op[t].at = "none"  BY <1>1 DEF TaskFit
<1>3. op[t].kind = "none"  BY <1>1, <1>2 DEF OpFit
<1> QED  BY <1>2, <1>3 DEF TasksGood, Good

\* A command ends without a word, or a request fails; the inbox is idle again.
LEMMA CommandEnds ==
    ASSUME Shape, Fitting, TasksGood, NEW t \in Tasks,
           \/ Render(t) \/ SetVerified(t) \/ Show(t) \/ Transmit(t) \/ Finish(t)
           \/ RequestFails(t)
           \/ t = Inbox /\ Deliver
    PROVE  TaskShape' /\ TasksGood'
<1>1. /\ UNCHANGED <<op, roster, fold>>
      /\ task[t].pc \in {"render", "mark", "show", "encrypt", "finish", "fetch", "list", "rest",
                         "deliver"}
      /\ Ends(t) \/ To(t, "finish") \/ To(t, "idle") \/ To(t, "show")
  <2>1. /\ UNCHANGED <<op, roster, fold>>
        /\ task[t].pc \in {"render", "mark", "show", "encrypt", "finish", "fetch", "list", "rest",
                           "deliver"}
    BY DEF Render, SetVerified, Show, Transmit, Finish, RequestFails, Deliver, At, storeVars,
           fold, logVars
  <2>2. Ends(t) \/ To(t, "finish") \/ To(t, "idle") \/ To(t, "show")
    BY DEF Render, SetVerified, Show, Transmit, Finish, RequestFails, Deliver
  <2> QED  BY <2>1, <2>2
<1>2. op[t].at = "none" /\ op[t].kind = "none" /\ TaskShape
  BY <1>1, FreeTask DEF Shape
<1>3. CASE Ends(t)  BY <1>1, <1>2, <1>3, TaskEnds
<1>4. CASE To(t, "finish") \/ To(t, "idle") \/ To(t, "show")
  <2>1. PICK pc \in {"finish", "idle", "show"} : To(t, pc)  BY <1>4
  <2>2. pc \in Pcs /\ pc \notin {"listed", "wait", "sealing", "fetch", "rest", "author"} \cup Keyed
    BY DEF Pcs, Keyed
  <2>3. task[t].pc # "listed"  BY <1>1
  <2> QED  BY <1>1, <1>2, <2>1, <2>2, <2>3, MovesOn
<1> QED  BY <1>1, <1>3, <1>4

\* A command begins.
LEMMA CommandBegins ==
    ASSUME Shape, Fitting, TasksGood, gone \cap roster = {}, NEW t \in Tasks,
           NEW cmd \in Cmds, NEW c \in Contacts \cup {Null},
           cmd \in Resolving \cup {"aiRemove"} => c \in Contacts, Start(t, cmd, c)
    PROVE  TaskShape' /\ TasksGood'
<1> DEFINE pc == CASE cmd \in Resolving -> "fetch" [] cmd = "aiRemove" -> "rest"
                   [] OTHER -> "list"
           k == [NoTask EXCEPT !.cmd = cmd, !.peer = c, !.avoid = gone \cup (Contacts \ fold),
                               !.pc = pc]
<1>1. task' = [task EXCEPT ![t] = k] /\ UNCHANGED <<op, roster, fold>> /\ task[t].pc = "idle"
  BY DEF Start, At, storeVars, fold, logVars
<1>2. op[t].at = "none" /\ op[t].kind = "none" /\ TaskShape
  BY <1>1, FreeTask DEF Shape
<1>3. /\ pc \in {"fetch", "rest", "list"}
      /\ pc \in {"fetch", "rest"} => cmd \in Resolving \cup {"aiRemove"}
  OBVIOUS
<1> HIDE DEF pc
<1>4. NoTask \in Task  BY IdleIsGood, <1>2
<1>5. gone \cup (Contacts \ fold) \in SUBSET Contacts  BY DEF Shape, RosterShape
<1>6. /\ k \in Task /\ k.cmd = cmd /\ k.peer = c /\ k.avoid = gone \cup (Contacts \ fold)
      /\ k.pc = pc /\ k.members = {} /\ k.todo = {}
  <2>1. pc \in Pcs  BY <1>3 DEF Pcs
  <2>2. NoTask.members = {} /\ NoTask.todo = {}  BY DEF NoTask
  <2> QED  BY <1>4, <1>5, <2>1, <2>2 DEF Task
<1> HIDE DEF k
<1>7. TaskFit(t, k, op[t])
  <2>1. cmd \in {"verify", "aiInvite"} => c \in Contacts  BY DEF Resolving
  <2>2. pc \in {"fetch", "rest"} => c \in Contacts  BY <1>3
  <2> QED  BY <1>2, <1>3, <1>6, <2>1, <2>2 DEF TaskFit, Keyed
<1>8. Avoids(k, op[t], roster, fold)
  <2>1. (gone \cup (Contacts \ fold)) \cap roster \cap fold = {}  OBVIOUS
  <2>2. k.pc # "listed"  BY <1>3, <1>6
  <2> QED  BY <1>2, <1>6, <2>1, <2>2 DEF Avoids
<1> QED  BY <1>1, <1>2, <1>6, <1>7, <1>8, TaskSet DEF Good

\* A bundle is fetched.
LEMMA BundleFetched ==
    ASSUME Shape, Fitting, TasksGood, NEW t \in Tasks, Fetch(t)
    PROVE  TaskShape' /\ TasksGood'
<1>1. /\ task' = [task EXCEPT ![t].key = pub[task[t].peer], ![t].pc = "check"]
      /\ UNCHANGED <<op, roster, fold>> /\ task[t].pc = "fetch"
  BY DEF Fetch, At, storeVars, fold, logVars
<1>2. /\ op[t].at = "none" /\ op[t].kind = "none" /\ TaskShape
      /\ task[t] \in Task /\ Good(t, task[t], op[t], roster, fold)
  BY <1>1, FreeTask DEF Shape
<1>3. task[t].peer \in Contacts  BY <1>1, <1>2 DEF Good, TaskFit
<1> DEFINE n == pub[task[t].peer]
           k == [task[t] EXCEPT !.key = n, !.pc = "check"]
<1>4. n \in Nat  BY <1>3 DEF Shape, RosterShape
<1> HIDE DEF n
<1>5. task' = [task EXCEPT ![t] = k]  BY <1>1, <1>2 DEF TaskShape, n
<1>6. /\ k \in Task /\ k.key \in Nat /\ k.pc = "check" /\ k.cmd = task[t].cmd
      /\ k.peer = task[t].peer /\ k.members = task[t].members /\ k.todo = task[t].todo
      /\ k.avoid = task[t].avoid
  BY <1>2, <1>4 DEF Task, Pcs, MaybeKey
<1> HIDE DEF k
<1>7. TaskFit(t, k, op[t])  BY <1>2, <1>3, <1>6 DEF TaskFit, Good, Keyed
<1>8. Avoids(k, op[t], roster, fold)  BY <1>1, <1>2, <1>6 DEF Avoids, Good
<1> QED  BY <1>1, <1>2, <1>5, <1>6, <1>7, <1>8, TaskSet DEF Good

\* Where a command goes on is a place that needs no operation.
LEMMA ResolvedPlace ==
    ASSUME NEW t
    PROVE  Resolved(t) \in {"ensure", "list", "rest"}
BY DEF Resolved

\* The key on file is compared with the bundle.
LEMMA BundleChecked ==
    ASSUME Shape, Fitting, TasksGood, NEW t \in Tasks, Check(t)
    PROVE  TaskShape' /\ TasksGood'
<1>1. /\ UNCHANGED <<op, roster, fold>> /\ task[t].pc = "check"
      /\ \E pc \in {"session", "rekey"} : To(t, pc)
  BY DEF Check, At, storeVars, fold, logVars
<1>2. PICK pc \in {"session", "rekey"} : To(t, pc)  BY <1>1
<1>3. /\ op[t].at = "none" /\ op[t].kind = "none" /\ TaskShape
      /\ task[t] \in Task /\ Good(t, task[t], op[t], roster, fold)
  BY <1>1, FreeTask DEF Shape
<1>4. task[t].peer \in Contacts /\ task[t].key \in Nat  BY <1>1, <1>3 DEF Good, TaskFit, Keyed
<1>5. pc \in Pcs /\ pc \notin {"listed", "wait", "sealing"}  BY DEF Pcs
<1>6. task[t].pc # "listed"  BY <1>1
<1> QED  BY <1>1, <1>2, <1>3, <1>4, <1>5, <1>6, MovesOn

\* A task goes on without the bundle's key.
LEMMA KeyLeft ==
    ASSUME TaskShape, TasksGood, NEW t \in Tasks, NEW pc \in {"ensure", "list", "rest", "wait"},
           Leaves(t, pc), task[t].pc # "listed", task[t].peer \in Contacts,
           pc = "wait" <=> op'[t].at # "none", op'[t].kind # "encrypt",
           \A s \in Tasks : s # t => op'[s] = op[s], UNCHANGED <<roster, fold>>
    PROVE  TaskShape' /\ TasksGood'
<1> DEFINE k == [task[t] EXCEPT !.pc = pc, !.key = Null]
<1>1. task' = [task EXCEPT ![t] = k]  BY DEF Leaves, TaskShape
<1>2. Good(t, task[t], op[t], roster, fold) /\ task[t] \in Task  BY DEF TasksGood, Good
<1>3. /\ k \in Task /\ k.pc = pc /\ k.cmd = task[t].cmd /\ k.peer = task[t].peer
      /\ k.members = task[t].members /\ k.todo = task[t].todo /\ k.avoid = task[t].avoid
  BY <1>2 DEF Task, Pcs, MaybeKey
<1> HIDE DEF k
<1>4. pc \notin Keyed /\ pc \notin {"sealing", "listed"}  BY DEF Keyed
<1>5. TaskFit(t, k, op'[t])  BY <1>2, <1>3, <1>4 DEF Good, TaskFit
<1>6. Avoids(k, op'[t], roster, fold)  BY <1>2, <1>3, <1>4 DEF Good, Avoids
<1> QED  BY <1>1, <1>3, <1>5, <1>6, TaskSet DEF Good

\* The session is looked up, and a new one asked for if need be.
LEMMA SessionLookedUp ==
    ASSUME Shape, Fitting, TasksGood, NEW t \in Tasks, HasSession(t)
    PROVE  TaskShape' /\ TasksGood'
<1>1. /\ UNCHANGED <<roster, fold>> /\ task[t].pc \in {"session", "rekey"}
      /\ \/ Leaves(t, Resolved(t)) /\ UNCHANGED storeVars
         \/ Leaves(t, "wait") /\ RunExclusive(t, "establish", task[t].peer, task[t].key)
  BY DEF HasSession, fold, logVars
<1>2. /\ op[t].at = "none" /\ op[t].kind = "none" /\ TaskShape /\ StoreShape
      /\ task[t] \in Task /\ Good(t, task[t], op[t], roster, fold)
  BY <1>1, FreeTask DEF Shape
<1>3. task[t].peer \in Contacts /\ task[t].key \in Nat /\ task[t].pc # "listed"
  BY <1>1, <1>2 DEF Good, TaskFit, Keyed
<1>4. CASE Leaves(t, Resolved(t)) /\ UNCHANGED storeVars
  <2>1. op' = op  BY <1>4 DEF storeVars
  <2>2. PICK pc \in {"ensure", "list", "rest"} : Leaves(t, pc)  BY <1>4, ResolvedPlace
  <2> QED  BY <1>1, <1>2, <1>3, <2>1, <2>2, KeyLeft
<1>5. CASE Leaves(t, "wait") /\ RunExclusive(t, "establish", task[t].peer, task[t].key)
  <2>1. "establish" \in Kinds /\ task[t].key \in MaybeKey /\ "establish" # "none"
    BY <1>3 DEF Kinds, MaybeKey
  <2>2. /\ op'[t].at = "queued" /\ op'[t].kind = "establish"
        /\ \A s \in Tasks : s # t => op'[s] = op[s]
    BY <1>2, <1>3, <1>5, <2>1, ExclusiveEffect
  <2> QED  BY <1>1, <1>2, <1>3, <1>5, <2>2, KeyLeft
<1> QED  BY <1>1, <1>4, <1>5

\* A task takes the result of its operation and goes on, or ends.
LEMMA ResultTaken ==
    ASSUME Shape, Fitting, TasksGood, NEW t \in Tasks,
           Established(t) \/ Sealed(t) \/ (t = Inbox /\ Decrypted)
    PROVE  TaskShape' /\ TasksGood'
<1>1. /\ UNCHANGED <<roster, fold>> /\ task[t].pc \in {"wait", "sealing"}
      /\ op' = [op EXCEPT ![t] = NoOp]
      /\ changes' \in {{}, changes} /\ UNCHANGED <<known, sess, storeTail, chains, made>>
  BY DEF Established, Sealed, Decrypted, At, Drain, fold, logVars
<1>2. TaskShape /\ StoreShape  BY DEF Shape
<1>3. /\ op'[t].at = "none" /\ op'[t].kind = "none"
      /\ \A s \in Tasks : s # t => op'[s] = op[s]
  BY <1>1, <1>2, EndedEffect
<1>4. \/ Ends(t)
      \/ \E pc \in {"ensure", "list", "rest", "encrypt", "deliver", "idle"} :
            To(t, pc) /\ (pc = "rest" => task[t].peer \in Contacts)
  <2>1. CASE Established(t)
    <3>1. (To(t, Resolved(t)) \/ Ends(t)) /\ t # Inbox /\ task[t].pc = "wait"
      BY <2>1 DEF Established, At
    <3>2. task[t].peer \in Contacts  BY <3>1 DEF TasksGood, Good, TaskFit
    <3> QED  BY <3>1, <3>2, ResolvedPlace
  <2>2. CASE Sealed(t)  BY <2>2 DEF Sealed
  <2>3. CASE t = Inbox /\ Decrypted  BY <2>3 DEF Decrypted
  <2> QED  BY <2>1, <2>2, <2>3
<1>5. CASE Ends(t)  BY <1>1, <1>2, <1>3, <1>5, TaskEnds
<1>6. ASSUME NEW pc \in {"ensure", "list", "rest", "encrypt", "deliver", "idle"}, To(t, pc),
             pc = "rest" => task[t].peer \in Contacts
      PROVE  TaskShape' /\ TasksGood'
  <2>1. /\ pc \in Pcs
        /\ pc \notin {"listed", "wait", "sealing", "fetch", "author"} \cup Keyed
    BY DEF Pcs, Keyed
  <2>2. task[t].pc # "listed"  BY <1>1
  <2> QED  BY <1>1, <1>2, <1>3, <1>6, <2>1, <2>2, MovesOn
<1> QED  BY <1>4, <1>5, <1>6

\* The relay answers with a roster: what a false one names is kept off by the log.
LEMMA RosterFetched ==
    ASSUME Shape, Fitting, TasksGood, NEW t \in Tasks, List(t)
    PROVE  TaskShape' /\ TasksGood'
<1>1. PICK raw \in {roster, Contacts} :
         task' = [task EXCEPT ![t].members = raw, ![t].pc = "listed",
                              ![t].avoid = IF raw = roster THEN @ ELSE @ \ fold]
  BY DEF List
<1>2. UNCHANGED <<op, roster, fold>> /\ task[t].pc = "list"
  BY DEF List, At, storeVars, fold, logVars
<1>3. /\ op[t].at = "none" /\ op[t].kind = "none" /\ TaskShape
      /\ task[t] \in Task /\ Good(t, task[t], op[t], roster, fold)
  BY <1>2, FreeTask DEF Shape
<1> DEFINE a == IF raw = roster THEN task[t].avoid ELSE task[t].avoid \ fold
           k == [task[t] EXCEPT !.members = raw, !.pc = "listed", !.avoid = a]
<1>4. task' = [task EXCEPT ![t] = k]  BY <1>1, <1>3 DEF TaskShape
<1>5. /\ a \subseteq task[t].avoid /\ a \cap raw \cap fold = {}
      /\ a \in SUBSET Contacts /\ raw \in SUBSET Contacts
  <2>1. task[t].avoid \cap roster \cap fold = {}  BY <1>3 DEF Good, Avoids
  <2>2. task[t].avoid \subseteq Contacts /\ roster \subseteq Contacts
    BY <1>3 DEF Task, Shape, RosterShape
  <2> QED  BY <2>1, <2>2
<1> HIDE DEF a
<1>6. /\ k \in Task /\ k.key = task[t].key /\ k.pc = "listed" /\ k.cmd = task[t].cmd
      /\ k.peer = task[t].peer /\ k.members = raw /\ k.todo = task[t].todo /\ k.avoid = a
  BY <1>3, <1>5 DEF Task, Pcs
<1> HIDE DEF k
<1>7. TaskFit(t, k, op[t])  BY <1>2, <1>3, <1>6 DEF TaskFit, Good, Keyed
<1>8. Avoids(k, op[t], roster, fold)
  <2>1. task[t].avoid \cap roster \cap fold = {} /\ task[t].avoid \cap task[t].todo = {}
    BY <1>3 DEF Good, Avoids
  <2> QED  BY <1>3, <1>5, <1>6, <2>1 DEF Avoids
<1> QED  BY <1>2, <1>3, <1>4, <1>6, <1>7, <1>8, TaskSet DEF Good

\* The log has the last word on who is a member.
LEMMA RosterFolded ==
    ASSUME Shape, Fitting, TasksGood, NEW t \in Tasks, Listed(t)
    PROVE  TaskShape' /\ TasksGood'
<1> DEFINE m == Authoritative(task[t].members)
           todo == IF task[t].cmd = "send" THEN m ELSE {}
           pc == CASE task[t].cmd = "send" -> "ensure" [] task[t].cmd = "view" -> "render"
                   [] task[t].cmd = "verify" -> "mark" [] OTHER -> "finish"
           fps == IF task[t].cmd \in {"view", "verify"} THEN known ELSE task[t].fps
           k == [task[t] EXCEPT !.members = m, !.fps = fps, !.todo = todo, !.pc = pc]
<1>0. /\ UNCHANGED <<op, roster, fold>> /\ task[t].pc = "listed"
  BY DEF Listed, At, storeVars, fold, logVars
<1>1. /\ task' = [task EXCEPT ![t].members = m, ![t].fps = fps, ![t].todo = todo,
                              ![t].pc = pc]
      /\ UNCHANGED <<op, roster, fold>> /\ task[t].pc = "listed"
  BY <1>0 DEF Listed
<1>2. /\ op[t].at = "none" /\ op[t].kind = "none" /\ TaskShape
      /\ task[t] \in Task /\ Good(t, task[t], op[t], roster, fold)
  BY <1>1, FreeTask DEF Shape
<1>3. m = task[t].members \cap fold  BY DEF Authoritative
<1>4. pc \in {"ensure", "render", "mark", "finish"}  OBVIOUS
<1>5. todo \subseteq m  OBVIOUS
<1>b. fps \in {known, task[t].fps}  OBVIOUS
<1> HIDE DEF m, pc, todo, fps
<1>6. task' = [task EXCEPT ![t] = k]  BY <1>1, <1>2 DEF TaskShape
<1>7. m \in SUBSET Contacts /\ todo \in SUBSET Contacts /\ fps \in [Contacts -> MaybeKey]
  BY <1>2, <1>3, <1>5, <1>b DEF Task, Shape, StoreShape
<1>8. /\ k \in Task /\ k.key = task[t].key /\ k.pc = pc /\ k.cmd = task[t].cmd
      /\ k.peer = task[t].peer /\ k.members = m /\ k.todo = todo /\ k.avoid = task[t].avoid
  BY <1>2, <1>4, <1>7 DEF Task, Pcs
<1> HIDE DEF k
<1>9. TaskFit(t, k, op[t])  BY <1>1, <1>2, <1>4, <1>8 DEF TaskFit, Good, Keyed
<1>10. Avoids(k, op[t], roster, fold)
  <2>1. /\ task[t].avoid \cap roster \cap fold = {}
        /\ task[t].avoid \cap task[t].members \cap fold = {}
    BY <1>1, <1>2 DEF Good, Avoids
  <2>2. k.avoid \cap k.members = {}  BY <1>3, <1>8, <2>1
  <2>3. k.avoid \cap k.todo = {}  BY <1>5, <1>8, <2>2
  <2>4. k.pc # "listed"  BY <1>4, <1>8
  <2> QED  BY <1>2, <1>8, <2>1, <2>2, <2>3, <2>4 DEF Avoids
<1> QED  BY <1>1, <1>2, <1>6, <1>8, <1>9, <1>10, TaskSet DEF Good

\* One target after the other has its session.
LEMMA TargetEnsured ==
    ASSUME Shape, Fitting, TasksGood, NEW t \in Tasks, Ensure(t)
    PROVE  TaskShape' /\ TasksGood'
<1>1. /\ UNCHANGED <<op, roster, fold>> /\ task[t].pc = "ensure"
      /\ \/ Ends(t)
         \/ task' = [task EXCEPT ![t].todo = task[t].members, ![t].pc = "encrypt"]
         \/ \E c \in task[t].todo :
               \/ task' = [task EXCEPT ![t].todo = @ \ {c}]
               \/ task' = [task EXCEPT ![t].peer = c, ![t].pc = "fetch"]
  BY DEF Ensure, At, storeVars, fold, logVars
<1>2. /\ op[t].at = "none" /\ op[t].kind = "none" /\ TaskShape
      /\ task[t] \in Task /\ Good(t, task[t], op[t], roster, fold)
  BY <1>1, FreeTask DEF Shape
<1>3. /\ task[t].avoid \cap roster \cap fold = {} /\ task[t].avoid \cap task[t].members = {}
      /\ task[t].avoid \cap task[t].todo = {}
      /\ task[t].cmd \in {"verify", "aiInvite"} => task[t].peer \in Contacts
  BY <1>1, <1>2 DEF Good, Avoids, TaskFit
<1>4. CASE Ends(t)  BY <1>1, <1>2, <1>4, TaskEnds
<1>5. CASE task' = [task EXCEPT ![t].todo = task[t].members, ![t].pc = "encrypt"]
  <2> DEFINE k == [task[t] EXCEPT !.todo = task[t].members, !.pc = "encrypt"]
  <2>1. task' = [task EXCEPT ![t] = k]  BY <1>2, <1>5 DEF TaskShape
  <2>2. /\ k \in Task /\ k.pc = "encrypt" /\ k.cmd = task[t].cmd /\ k.peer = task[t].peer
        /\ k.members = task[t].members /\ k.todo = task[t].members /\ k.avoid = task[t].avoid
    BY <1>2 DEF Task, Pcs
  <2> HIDE DEF k
  <2>3. TaskFit(t, k, op[t])  BY <1>2, <1>3, <2>2 DEF TaskFit, Keyed
  <2>4. Avoids(k, op[t], roster, fold)  BY <1>2, <1>3, <2>2 DEF Avoids
  <2> QED  BY <1>1, <1>2, <2>1, <2>2, <2>3, <2>4, TaskSet DEF Good
<1>6. ASSUME NEW c \in task[t].todo, task' = [task EXCEPT ![t].todo = @ \ {c}]
      PROVE  TaskShape' /\ TasksGood'
  <2> DEFINE k == [task[t] EXCEPT !.todo = @ \ {c}]
  <2>1. task' = [task EXCEPT ![t] = k]  BY <1>2, <1>6 DEF TaskShape
  <2>2. /\ k \in Task /\ k.pc = "ensure" /\ k.cmd = task[t].cmd /\ k.peer = task[t].peer
        /\ k.members = task[t].members /\ k.todo = task[t].todo \ {c}
        /\ k.avoid = task[t].avoid
    BY <1>1, <1>2 DEF Task
  <2> HIDE DEF k
  <2>3. TaskFit(t, k, op[t])  BY <1>2, <1>3, <2>2 DEF TaskFit, Keyed
  <2>4. Avoids(k, op[t], roster, fold)  BY <1>2, <1>3, <2>2 DEF Avoids
  <2> QED  BY <1>1, <1>2, <2>1, <2>2, <2>3, <2>4, TaskSet DEF Good
<1>7. ASSUME NEW c \in task[t].todo, task' = [task EXCEPT ![t].peer = c, ![t].pc = "fetch"]
      PROVE  TaskShape' /\ TasksGood'
  <2> DEFINE k == [task[t] EXCEPT !.peer = c, !.pc = "fetch"]
  <2>0. c \in Contacts  BY <1>2 DEF Task
  <2>1. task' = [task EXCEPT ![t] = k]  BY <1>2, <1>7 DEF TaskShape
  <2>2. /\ k \in Task /\ k.pc = "fetch" /\ k.cmd = task[t].cmd /\ k.peer = c
        /\ k.members = task[t].members /\ k.todo = task[t].todo /\ k.avoid = task[t].avoid
    BY <1>2, <2>0 DEF Task, Pcs
  <2> HIDE DEF k
  <2>3. TaskFit(t, k, op[t])  BY <1>2, <2>0, <2>2 DEF TaskFit, Keyed
  <2>4. Avoids(k, op[t], roster, fold)  BY <1>2, <1>3, <2>2 DEF Avoids
  <2> QED  BY <1>1, <1>2, <2>1, <2>2, <2>3, <2>4, TaskSet DEF Good
<1> QED  BY <1>1, <1>4, <1>5, <1>6, <1>7

\* Nobody the command avoids is encrypted to.
LEMMA EncryptionBegins ==
    ASSUME Shape, Fitting, TasksGood, NEW t \in Tasks, Encrypt(t)
    PROVE  TaskShape' /\ TasksGood'
<1>1. PICK c \in task[t].todo :
         /\ RunExclusive(t, "encrypt", c, Null)
         /\ task' = [task EXCEPT ![t].todo = @ \ {c}, ![t].pc = "sealing"]
  BY DEF Encrypt
<1>2. UNCHANGED <<roster, fold>> /\ task[t].pc = "encrypt"
  BY DEF Encrypt, At, fold, logVars
<1>3. /\ TaskShape /\ StoreShape
      /\ task[t] \in Task /\ Good(t, task[t], op[t], roster, fold)
  BY <1>2, FreeTask DEF Shape
<1>4. c \in Contacts /\ c \notin task[t].avoid
  <2>1. task[t].avoid \cap task[t].todo = {}  BY <1>3 DEF Good, Avoids
  <2> QED  BY <1>3, <2>1 DEF Task
<1>5. /\ op'[t].at = "queued" /\ op'[t].kind = "encrypt" /\ op'[t].peer = c
      /\ \A s \in Tasks : s # t => op'[s] = op[s]
  <2>1. /\ "encrypt" \in Kinds /\ Null \in MaybeKey /\ "encrypt" \notin Opening
        /\ "encrypt" # "none"
    BY DEF Kinds, MaybeKey, Opening
  <2> QED  BY <1>1, <1>3, <1>4, <2>1, ExclusiveEffect
<1> DEFINE k == [task[t] EXCEPT !.todo = @ \ {c}, !.pc = "sealing"]
<1>6. task' = [task EXCEPT ![t] = k]  BY <1>1, <1>3 DEF TaskShape
<1>7. /\ k \in Task /\ k.pc = "sealing" /\ k.cmd = task[t].cmd /\ k.peer = task[t].peer
      /\ k.members = task[t].members /\ k.todo = task[t].todo \ {c} /\ k.avoid = task[t].avoid
  BY <1>3 DEF Task, Pcs
<1> HIDE DEF k
<1>8. TaskFit(t, k, op'[t])  BY <1>3, <1>5, <1>7 DEF TaskFit, Good, Keyed
<1>9. Avoids(k, op'[t], roster, fold)
  <2>1. /\ task[t].avoid \cap roster \cap fold = {} /\ task[t].avoid \cap task[t].members = {}
        /\ task[t].avoid \cap task[t].todo = {}
    BY <1>2, <1>3 DEF Good, Avoids
  <2> QED  BY <1>4, <1>5, <1>7, <2>1 DEF Avoids
<1> QED  BY <1>2, <1>3, <1>5, <1>6, <1>7, <1>8, <1>9, TaskSet DEF Good

\* A member is invited or removed: every command under way forgets to avoid
\* those in F, among them whoever is new on the roster or in the log.
LEMMA TasksForget ==
    ASSUME Shape, Fitting, TasksGood, NEW t \in Tasks, NEW F, NEW pc,
           \/ pc \in {"author", "list"} /\ task[t].pc \in {"rest", "author"}
           \/ pc = task[t].pc,
           UNCHANGED op,
           task' = [s \in Tasks |-> [task[s] EXCEPT !.avoid = @ \ F,
                                                    !.pc = IF s = t THEN pc ELSE @]],
           roster' \ F \subseteq roster, fold' \ F \subseteq fold
    PROVE  TaskShape' /\ TasksGood'
<1>1. ASSUME NEW s \in Tasks PROVE Good(s, task'[s], op'[s], roster', fold')
  <2> DEFINE q == IF s = t THEN pc ELSE task[s].pc
             k == [task[s] EXCEPT !.avoid = @ \ F, !.pc = q]
  <2>1. task'[s] = k  OBVIOUS
  <2>2. Good(s, task[s], op[s], roster, fold) /\ task[s] \in Task  BY DEF TasksGood, Good
  <2>3. /\ q \in Pcs
        /\ \/ q = task[s].pc
           \/ q \in {"author", "list"} /\ task[s].pc \in {"rest", "author"}
    BY <2>2 DEF Pcs, Task
  <2> HIDE DEF q
  <2>4. /\ k \in Task /\ k.key = task[s].key /\ k.pc = q /\ k.cmd = task[s].cmd
        /\ k.peer = task[s].peer /\ k.members = task[s].members /\ k.todo = task[s].todo
        /\ k.avoid = task[s].avoid \ F
    BY <2>2, <2>3 DEF Task
  <2> HIDE DEF k
  <2>5. TaskFit(s, k, op[s])
    <3>1. CASE q = task[s].pc  BY <2>2, <2>4, <3>1 DEF TaskFit, Good
    <3>2. CASE q \in {"author", "list"} /\ task[s].pc \in {"rest", "author"}
      BY <2>2, <2>4, <3>2 DEF TaskFit, Good, Keyed
    <3> QED  BY <2>3, <3>1, <3>2
  <2>6. Avoids(k, op[s], roster', fold')
    <3>1. /\ task[s].avoid \cap roster \cap fold = {} /\ task[s].avoid \cap task[s].todo = {}
          /\ IF task[s].pc = "listed" THEN task[s].avoid \cap task[s].members \cap fold = {}
                                      ELSE task[s].avoid \cap task[s].members = {}
          /\ op[s].kind = "encrypt" => op[s].peer \notin task[s].avoid
      BY <2>2 DEF Good, Avoids
    <3>2. k.pc = "listed" <=> task[s].pc = "listed"  BY <2>3, <2>4
    <3>3. k.avoid \cap roster' \cap fold' = {} /\ k.avoid \cap k.todo = {}  BY <2>4, <3>1
    <3>4. IF k.pc = "listed" THEN k.avoid \cap k.members \cap fold' = {}
                             ELSE k.avoid \cap k.members = {}
      <4>1. CASE task[s].pc = "listed"  BY <2>4, <3>1, <3>2, <4>1
      <4>2. CASE task[s].pc # "listed"  BY <2>4, <3>1, <3>2, <4>2
      <4> QED  BY <4>1, <4>2
    <3> QED  BY <2>4, <3>1, <3>3, <3>4 DEF Avoids
  <2> QED  BY <2>1, <2>4, <2>5, <2>6 DEF Good
<1>2. task' \in [Tasks -> Task]
  <2>1. \A s \in Tasks : task'[s] \in Task  BY <1>1 DEF Good
  <2> QED  BY <2>1
<1> QED  BY <1>1, <1>2 DEF TaskShape, TasksGood

\* The relay's half of an invitation or a removal.
LEMMA RelayTold ==
    ASSUME Shape, Fitting, TasksGood, NEW t \in Tasks, Rest(t)
    PROVE  TaskShape' /\ TasksGood'
<1> DEFINE F == IF task[t].cmd \in Inviting THEN {task[t].peer} ELSE {}
<1>1. /\ task[t].pc = "rest" /\ UNCHANGED <<op, fold>>
      /\ roster' = IF task[t].cmd \in Inviting THEN roster \cup {task[t].peer}
                                               ELSE roster \ {task[t].peer}
      /\ task' = [s \in Tasks |-> [task[s] EXCEPT !.avoid = @ \ F,
                                                  !.pc = IF s = t THEN "author" ELSE @]]
  BY DEF Rest, At, storeVars, fold, logVars
<1>2. roster' \ F \subseteq roster  BY <1>1
<1> HIDE DEF F
<1>3. fold' \ F \subseteq fold  BY <1>1
<1> QED  BY <1>1, <1>2, <1>3, TasksForget

\* The operation is authored, in the log or not.
LEMMA OperationAuthored ==
    ASSUME Shape, Fitting, TasksGood, NEW t \in Tasks, Author(t)
    PROVE  TaskShape' /\ TasksGood'
<1> DEFINE F == fold' \ fold
<1>1. /\ task[t].pc = "author" /\ UNCHANGED <<op, roster>>
      /\ task' = [s \in Tasks |-> [task[s] EXCEPT !.avoid = @ \ F,
                                                  !.pc = IF s = t THEN "list" ELSE @]]
  BY DEF Author, Admits, At, storeVars
<1>2. fold' \ F \subseteq fold /\ roster' \ F \subseteq roster  BY <1>1
<1> HIDE DEF F
<1> QED  BY <1>1, <1>2, TasksForget

\* An operation arrives from the relay.
LEMMA OperationArrives ==
    ASSUME Shape, Fitting, TasksGood, OpArrives
    PROVE  TaskShape' /\ TasksGood'
<1> DEFINE F == fold' \ fold
           pc == task[Inbox].pc
<1>1. /\ UNCHANGED <<op, roster>> /\ Inbox \in Tasks
      /\ task' = [s \in Tasks |-> [task[s] EXCEPT !.avoid = @ \ F,
                                                  !.pc = IF s = Inbox THEN pc ELSE @]]
  BY DEF OpArrives, Admits, storeVars, Tasks
<1>2. fold' \ F \subseteq fold /\ roster' \ F \subseteq roster /\ pc = task[Inbox].pc  BY <1>1
<1> HIDE DEF F, pc
<1> QED  BY <1>1, <1>2, TasksForget

\* An envelope reaches the inbox.
LEMMA EnvelopeReceived ==
    ASSUME Shape, Fitting, TasksGood, NEW c \in Contacts, Receive(c)
    PROVE  TaskShape' /\ TasksGood'
<1>1. /\ task[Inbox].pc = "idle" /\ UNCHANGED <<roster, fold>> /\ To(Inbox, "wait")
      /\ \/ \E key \in 1 .. pub[c] : RunExclusive(Inbox, "decryptPreKey", c, key)
         \/ RunExclusive(Inbox, "decrypt", c, Null)
  BY DEF Receive, At, fold, logVars
<1>2. Inbox \in Tasks /\ TaskShape /\ StoreShape  BY DEF Tasks, Shape
<1>3. /\ op'[Inbox].at = "queued" /\ op'[Inbox].kind \in {"decryptPreKey", "decrypt"}
      /\ \A s \in Tasks : s # Inbox => op'[s] = op[s]
  <2>1. \A key \in 1 .. pub[c] : key \in Nat  BY DEF Shape, RosterShape
  <2>2. /\ {"decryptPreKey", "decrypt"} \subseteq Kinds /\ Null \in MaybeKey
        /\ Nat \subseteq MaybeKey /\ "decrypt" \notin Opening
    BY DEF Kinds, MaybeKey, Opening
  <2>3. CASE RunExclusive(Inbox, "decrypt", c, Null)
    BY <1>2, <2>2, <2>3, ExclusiveEffect
  <2>4. ASSUME NEW key \in 1 .. pub[c], RunExclusive(Inbox, "decryptPreKey", c, key)
        PROVE  /\ op'[Inbox].at = "queued" /\ op'[Inbox].kind \in {"decryptPreKey", "decrypt"}
               /\ \A s \in Tasks : s # Inbox => op'[s] = op[s]
    <3>1. key \in Nat /\ key \in MaybeKey  BY <2>1, <2>2
    <3>2. "decryptPreKey" \in Kinds /\ "decryptPreKey" # "none"  BY <2>2
    <3> QED  BY <1>2, <2>4, <3>1, <3>2, ExclusiveEffect
  <2> QED  BY <1>1, <2>3, <2>4
<1>4. "wait" \in Pcs /\ "wait" \notin Keyed /\ task[Inbox].pc # "listed"  BY <1>1 DEF Pcs, Keyed
<1> QED  BY <1>1, <1>2, <1>3, <1>4, MovesOn

\* An operation goes on for the task that asked for it.
LEMMA OperationGoesOn ==
    ASSUME Shape, Fitting, TasksGood, NEW t \in Tasks, StoreStep(t), UNCHANGED cliVars
    PROVE  TaskShape' /\ TasksGood'
<1>0. StoreShape /\ op \in [Tasks -> Op(chains)] /\ op[t] \in Op(chains)  BY DEF Shape, StoreShape
<1>1. UNCHANGED <<task, roster, fold>>  BY DEF cliVars, fold, logVars
<1>2. /\ op'[t].kind = op[t].kind /\ op'[t].peer = op[t].peer
      /\ op[t].at # "none" /\ op'[t].at # "none"
      /\ \A s \in Tasks : s # t => op'[s] = op[s]
  <2>1. CASE OpRead(t)
    <3>1. OpFit(op[t], chains)  BY DEF Fitting
    <3> QED  BY <1>0, <2>1, <3>1, ReadEffect
  <2>2. CASE OpThrows(t)  BY <1>0, <2>2 DEF OpThrows, Starts, Op
  <2>3. CASE SaveIdentity(t)  BY <1>0, <2>3 DEF SaveIdentity, Op
  <2>4. CASE SaveSession(t)  BY <1>0, <2>4 DEF SaveSession, Op
  <2> QED  BY <2>1, <2>2, <2>3, <2>4 DEF StoreStep
<1>3. ASSUME NEW s \in Tasks PROVE Good(s, task'[s], op'[s], roster', fold')
  <2>1. Good(s, task[s], op[s], roster, fold)  BY DEF TasksGood
  <2>2. CASE s # t  BY <1>1, <1>2, <2>1, <2>2
  <2>3. CASE s = t
    <3>1. TaskFit(t, task[t], op'[t])  BY <1>2, <2>1, <2>3 DEF Good, TaskFit
    <3>2. Avoids(task[t], op'[t], roster, fold)  BY <1>2, <2>1, <2>3 DEF Good, Avoids
    <3> QED  BY <1>1, <2>1, <2>3, <3>1, <3>2 DEF Good
  <2> QED  BY <2>2, <2>3
<1> QED  BY <1>1, <1>3 DEF TaskShape, TasksGood, Shape

\* A step of the process leaves every task typed, waiting for its own operation
\* and avoiding whom it should.
LEMMA TasksStep ==
    ASSUME Shape, Fitting, AvoidInv, [Next]_vars
    PROVE  TaskShape' /\ TasksGood'
<1>0. TasksGood
  BY DEF TasksGood, Good, Shape, TaskShape, Fitting, AvoidInv
<1>1. CASE \E t \in Slots : Command(t)
  <2>1. PICK t \in Slots : Command(t)  BY <1>1
  <2>2. t \in Tasks /\ gone \cap roster = {}  BY DEF Tasks, AvoidInv
  <2>3. CASE \/ \E c \in Contacts, cmd \in Resolving \cup {"aiRemove"} : Start(t, cmd, c)
             \/ \E cmd \in {"send", "view"} : Start(t, cmd, Null)
    <3>1. PICK cmd \in Cmds, c \in Contacts \cup {Null} :
             (cmd \in Resolving \cup {"aiRemove"} => c \in Contacts) /\ Start(t, cmd, c)
      <4>1. CASE \E c \in Contacts, cmd \in Resolving \cup {"aiRemove"} : Start(t, cmd, c)
        BY <4>1 DEF Cmds
      <4>2. CASE \E cmd \in {"send", "view"} : Start(t, cmd, Null)
        BY <4>2 DEF Cmds, Resolving
      <4> QED  BY <2>3, <4>1, <4>2
    <3> QED  BY <1>0, <2>2, <3>1, CommandBegins
  <2>4. CASE Fetch(t) \/ Check(t) \/ HasSession(t) \/ Established(t) \/ List(t) \/ Listed(t)
    BY <1>0, <2>2, <2>4, BundleFetched, BundleChecked, SessionLookedUp, ResultTaken,
       RosterFetched, RosterFolded
  <2>5. CASE Ensure(t) \/ Encrypt(t) \/ Sealed(t) \/ Rest(t) \/ Author(t)
    BY <1>0, <2>2, <2>5, TargetEnsured, EncryptionBegins, ResultTaken, RelayTold,
       OperationAuthored
  <2>6. CASE \/ Render(t) \/ SetVerified(t) \/ Show(t) \/ Transmit(t) \/ Finish(t)
             \/ RequestFails(t)
    BY <1>0, <2>2, <2>6, CommandEnds
  <2> QED  BY <2>1, <2>3, <2>4, <2>5, <2>6 DEF Command
<1>2. CASE \E t \in Tasks : StoreStep(t) /\ UNCHANGED cliVars
  BY <1>0, <1>2, OperationGoesOn
<1>3. CASE \E c \in Contacts : Receive(c)  BY <1>0, <1>3, EnvelopeReceived
<1>4. CASE Decrypted \/ Deliver
  <2>1. Inbox \in Tasks  BY DEF Tasks
  <2> QED  BY <1>0, <1>4, <2>1, ResultTaken, CommandEnds
<1>7. CASE OpArrives  BY <1>0, <1>7, OperationArrives
<1>5. CASE (\E c \in Contacts : Rotate(c)) \/ UNCHANGED vars
  <2>1. UNCHANGED <<task, op, roster, fold>>
    BY <1>5 DEF Rotate, vars, storeVars, cliVars, fold, logVars
  <2> QED  BY <1>0, <2>1 DEF TasksGood, TaskShape, Shape
<1>6. CASE Crash
  <2>1. /\ op' = [t \in Tasks |-> NoOp] /\ task' = [t \in Tasks |-> NoTask]
    BY <1>6 DEF Crash
  <2>2. NoOp.at = "none" /\ NoOp.kind = "none"  BY DEF NoOp
  <2>3. \A t \in Tasks : NoTask \in Task /\ Good(t, NoTask, NoOp, roster', fold')
    BY <2>2, IdleIsGood
  <2> QED  BY <2>1, <2>3 DEF TasksGood, TaskShape
<1> QED  BY <1>1, <1>2, <1>3, <1>4, <1>5, <1>6, <1>7 DEF Next

---------------------------------------------------------------------------
(***************************************************************************)
(* Rosters, the account and its snapshot, and what is painted              *)
(***************************************************************************)

\* What a task's place says of its fields.
LEMMA TaskGives ==
    ASSUME Shape, Fitting, NEW t \in Tasks
    PROVE  /\ task[t].members \subseteq Contacts
           /\ task[t].fps \in [Contacts -> MaybeKey]
           /\ task[t].pc \in {"fetch", "rest", "author"} => task[t].peer \in Contacts
           /\ task[t].cmd \in {"verify", "aiInvite"} => task[t].peer \in Contacts
<1>1. task[t] \in Task  BY DEF Shape, TaskShape
<1>2. TaskFit(t, task[t], op[t])  BY DEF Fitting
<1> QED  BY <1>1, <1>2 DEF Task, TaskFit

\* A step saves the account as it then is, or not at all.
LEMMA Saved ==
    ASSUME [Next]_vars
    PROVE  Persist \/ UNCHANGED disk
<1>1. CASE \E t \in Slots : Command(t)
  <2>1. PICK t \in Slots : Command(t)  BY <1>1
  <2>2. CASE \/ \E c \in Contacts, cmd \in Resolving \cup {"aiRemove"} : Start(t, cmd, c)
             \/ \E cmd \in {"send", "view"} : Start(t, cmd, Null)
    BY <2>2 DEF Start
  <2>3. CASE Fetch(t) \/ Check(t) \/ HasSession(t) \/ List(t) \/ Render(t) \/ Show(t) \/ Ensure(t)
    BY <2>3 DEF Fetch, Check, HasSession, List, Render, Show, Ensure
  <2>4. CASE Encrypt(t) \/ Sealed(t) \/ Rest(t) \/ Author(t) \/ RequestFails(t)
    BY <2>4 DEF Encrypt, Sealed, Rest, Author, RequestFails
  <2>5. CASE Established(t)  BY <2>5 DEF Established, Drain, OnSystemEvent
  <2>6. CASE Listed(t) \/ SetVerified(t) \/ Transmit(t) \/ Finish(t)
    BY <2>6 DEF Listed, SetVerified, Transmit, Finish
  <2> QED  BY <2>1, <2>2, <2>3, <2>4, <2>5, <2>6 DEF Command
<1>2. CASE \/ \E t \in Tasks : StoreStep(t) /\ UNCHANGED cliVars
           \/ \E c \in Contacts : Receive(c) \/ Rotate(c)
           \/ Decrypted \/ Deliver \/ OpArrives \/ Crash \/ UNCHANGED vars
  BY <1>2 DEF Receive, Rotate, Decrypted, Deliver, OpArrives, Crash, Drain, OnSystemEvent,
              cliVars, vars
<1> QED  BY <1>1, <1>2 DEF Next

\* The log is only appended to, and the copies of it are no longer than it is.
LEMMA LogStep ==
    ASSUME Shape, Fitting, [Next]_vars
    PROVE  LogShape'
<1> DEFINE Copies(log) == held' \in 1 .. Len(log) /\ stored' \in 1 .. Len(log)
<1>0. LogShape /\ Len(authored) \in Nat  BY DEF Shape, LogShape
<1>1. \/ authored' = authored /\ Copies(authored)
      \/ \E m \in SUBSET Contacts :
            /\ authored' = Append(authored, m)
            /\ held' \in {held, Len(authored')} /\ stored' \in {stored, Len(authored) + 1}
  <2>1. CASE \E t \in Slots : Author(t)
    <3>1. PICK t \in Slots : Author(t)  BY <2>1
    <3>2. task[t].peer \in Contacts
      <4>1. t \in Tasks /\ task[t].pc = "author"  BY <3>1 DEF Tasks, Author, At
      <4> QED  BY <4>1, TaskGives
    <3>3. Last(authored) \in SUBSET Contacts
      <4>1. Len(authored) \in 1 .. Len(authored)  BY <1>0 DEF LogShape
      <4>2. authored[Len(authored)] \in SUBSET Contacts  BY <1>0, <4>1, ElementOfSeq DEF LogShape
      <4> QED  BY <4>2 DEF Last
    <3> DEFINE a == Last(authored) \cup {task[t].peer}
               b == Last(authored) \ {task[t].peer}
    <3>4. a \in SUBSET Contacts /\ b \in SUBSET Contacts  BY <3>2, <3>3
    <3>5. \/ UNCHANGED logVars
          \/ /\ authored' \in {Append(authored, a), Append(authored, b)}
             /\ held' \in {held, Len(authored')} /\ stored' \in {stored, Len(authored) + 1}
      BY <3>1 DEF Author, logVars
    <3> HIDE DEF a, b
    <3>6. CASE UNCHANGED logVars  BY <1>0, <3>6 DEF logVars, LogShape
    <3> QED  BY <3>4, <3>5, <3>6
  <2>2. CASE OpArrives
    <3>1. UNCHANGED <<authored, stored>> /\ held < stored /\ held' = held + 1
      BY <2>2 DEF OpArrives
    <3> QED  BY <1>0, <3>1 DEF LogShape
  <2>3. CASE Crash
    <3>1. UNCHANGED <<authored, stored>> /\ held' = disk.held  BY <2>3 DEF Crash
    <3> QED  BY <1>0, <3>1 DEF LogShape
  <2>4. CASE \E t \in Slots : Command(t) /\ ~Author(t)
    <3>1. PICK t \in Slots : Command(t) /\ ~Author(t)  BY <2>4
    <3>2. UNCHANGED logVars
      <4>1. CASE \/ \E c \in Contacts, cmd \in Resolving \cup {"aiRemove"} : Start(t, cmd, c)
                 \/ \E cmd \in {"send", "view"} : Start(t, cmd, Null)
        BY <4>1 DEF Start
      <4>2. CASE \/ Fetch(t) \/ Check(t) \/ HasSession(t) \/ Established(t) \/ List(t)
                 \/ Listed(t) \/ Render(t)
        BY <4>2 DEF Fetch, Check, HasSession, Established, List, Listed, Render
      <4>3. CASE \/ SetVerified(t) \/ Show(t) \/ Ensure(t) \/ Encrypt(t) \/ Sealed(t)
                 \/ Transmit(t) \/ Rest(t) \/ Finish(t) \/ RequestFails(t)
        BY <4>3 DEF SetVerified, Show, Ensure, Encrypt, Sealed, Transmit, Rest, Finish,
                    RequestFails
      <4> QED  BY <3>1, <4>1, <4>2, <4>3 DEF Command
    <3> QED  BY <1>0, <3>2 DEF logVars, LogShape
  <2>5. CASE \/ \E t \in Tasks : StoreStep(t) /\ UNCHANGED cliVars
             \/ \E c \in Contacts : Receive(c) \/ Rotate(c)
             \/ Decrypted \/ Deliver \/ UNCHANGED vars
    <3>1. UNCHANGED logVars  BY <2>5 DEF Receive, Rotate, Decrypted, Deliver, cliVars, vars
    <3> QED  BY <1>0, <3>1 DEF logVars, LogShape
  <2> QED  BY <2>1, <2>2, <2>3, <2>4, <2>5 DEF Next
<1>2. /\ authored' \in Seq(SUBSET Contacts) /\ Len(authored') \in Nat
      /\ Len(authored) <= Len(authored') /\ Copies(authored')
  <2>1. CASE authored' = authored /\ Copies(authored)  BY <1>0, <2>1 DEF LogShape
  <2>2. ASSUME NEW m \in SUBSET Contacts, authored' = Append(authored, m),
               held' \in {held, Len(authored')}, stored' \in {stored, Len(authored) + 1}
        PROVE  /\ authored' \in Seq(SUBSET Contacts) /\ Len(authored') \in Nat
               /\ Len(authored) <= Len(authored') /\ Copies(authored')
    <3>1. authored' \in Seq(SUBSET Contacts) /\ Len(authored') = Len(authored) + 1
      BY <1>0, <2>2, AppendProperties DEF LogShape
    <3> QED  BY <1>0, <2>2, <3>1 DEF LogShape
  <2> QED  BY <1>1, <2>1, <2>2
<1>3. disk'.held \in {disk.held, held'}
  <2>1. CASE Persist  BY <2>1 DEF Persist
  <2>2. CASE UNCHANGED disk  BY <2>2
  <2> QED  BY <2>1, <2>2, Saved
<1>4. disk'.held \in 1 .. Len(authored')  BY <1>0, <1>2, <1>3 DEF LogShape
<1> QED  BY <1>2, <1>4 DEF LogShape

\* Rosters hold contacts, and nobody removed at the relay is on its roster.
LEMMA RosterStep ==
    ASSUME Shape, Fitting, AvoidInv, [Next]_vars
    PROVE  RosterShape' /\ gone' \cap roster' = {}
<1>0. RosterShape /\ gone \cap roster = {}  BY DEF Shape, AvoidInv
<1>1. CASE \E t \in Slots : Rest(t)
  <2>1. PICK t \in Slots : Rest(t)  BY <1>1
  <2>2. task[t].peer \in Contacts
    <3>1. t \in Tasks /\ task[t].pc = "rest"  BY <2>1 DEF Tasks, Rest, At
    <3> QED  BY <3>1, TaskGives
  <2>3. /\ UNCHANGED pub
        /\ \/ roster' = roster \cup {task[t].peer} /\ gone' = gone \ {task[t].peer}
           \/ roster' = roster \ {task[t].peer} /\ gone' = gone \cup {task[t].peer}
    BY <2>1 DEF Rest
  <2> QED  BY <1>0, <2>2, <2>3 DEF RosterShape
<1>3. CASE \E c \in Contacts : Rotate(c)
  <2>1. PICK c \in Contacts : Rotate(c)  BY <1>3
  <2>2. /\ UNCHANGED <<roster, gone>>
        /\ pub' = [pub EXCEPT ![c] = @ + 1]
    BY <2>1 DEF Rotate
  <2>3. pub' \in [Contacts -> Nat]  BY <1>0, <2>2 DEF RosterShape
  <2> QED  BY <1>0, <2>2, <2>3 DEF RosterShape
<1>4. CASE \E t \in Slots : Command(t) /\ ~Rest(t)
  <2>1. PICK t \in Slots : Command(t) /\ ~Rest(t)  BY <1>4
  <2>2. UNCHANGED <<pub, roster, gone>>
    <3>1. CASE \/ \E c \in Contacts, cmd \in Resolving \cup {"aiRemove"} : Start(t, cmd, c)
               \/ \E cmd \in {"send", "view"} : Start(t, cmd, Null)
      BY <3>1 DEF Start
    <3>2. CASE \/ Fetch(t) \/ Check(t) \/ HasSession(t) \/ Established(t) \/ List(t) \/ Listed(t)
               \/ Render(t)
      BY <3>2 DEF Fetch, Check, HasSession, Established, List, Listed, Render
    <3>3. CASE \/ SetVerified(t) \/ Show(t) \/ Ensure(t) \/ Encrypt(t) \/ Sealed(t) \/ Transmit(t)
               \/ Author(t) \/ Finish(t) \/ RequestFails(t)
      BY <3>3 DEF SetVerified, Show, Ensure, Encrypt, Sealed, Transmit, Author, Finish,
                  RequestFails
    <3> QED  BY <2>1, <3>1, <3>2, <3>3 DEF Command
  <2> QED  BY <1>0, <2>2 DEF RosterShape
<1>5. CASE \/ \E t \in Tasks : StoreStep(t) /\ UNCHANGED cliVars
           \/ \E c \in Contacts : Receive(c)
           \/ Decrypted \/ Deliver \/ OpArrives \/ Crash \/ UNCHANGED vars
  <2>1. UNCHANGED <<pub, roster, gone>>
    BY <1>5 DEF Receive, Decrypted, Deliver, OpArrives, Crash, cliVars, vars
  <2> QED  BY <1>0, <2>1 DEF RosterShape
<1> QED  BY <1>1, <1>3, <1>4, <1>5 DEF Next

\* The account holds contacts and keys.
LEMMA AccountStep ==
    ASSUME Shape, Fitting, [Next]_vars
    PROVE  AccountShape'
<1>0. AccountShape /\ Slots \subseteq Tasks  BY DEF Shape, Tasks
<1>1. CASE \E t \in Slots : Fetch(t)
  <2>1. PICK t \in Slots : Fetch(t)  BY <1>1
  <2>2. task[t].peer \in Contacts
    <3>1. t \in Tasks /\ task[t].pc = "fetch"  BY <1>0, <2>1 DEF Fetch, At
    <3> QED  BY <3>1, TaskGives
  <2>3. /\ dir' = dir \cup {task[t].peer}
        /\ UNCHANGED <<cached, verified, aiMember, crashes>>
    BY <2>1 DEF Fetch
  <2> QED  BY <1>0, <2>2, <2>3 DEF AccountShape
<1>2. CASE \E t \in Slots : Listed(t)
  <2>1. PICK t \in Slots : Listed(t)  BY <1>2
  <2>2. task[t].members \subseteq Contacts  BY <1>0, TaskGives
  <2>3. cached' = task[t].members /\ UNCHANGED <<dir, verified, aiMember, crashes>>
    BY <2>1 DEF Listed
  <2> QED  BY <1>0, <2>2, <2>3 DEF AccountShape
<1>3. CASE \E t \in Slots : Finish(t)
  <2>1. PICK t \in Slots : Finish(t)  BY <1>3
  <2>2. task[t].cmd = "aiInvite" => task[t].peer \in Contacts  BY <1>0, TaskGives
  <2>3. /\ UNCHANGED <<dir, cached, verified, crashes>>
        /\ aiMember' = CASE task[t].cmd = "aiInvite" -> task[t].peer
                         [] task[t].cmd = "aiRemove" -> Null
                         [] OTHER -> aiMember
    BY <2>1 DEF Finish
  <2>4. aiMember' \in Contacts \cup {Null}  BY <1>0, <2>2, <2>3 DEF AccountShape
  <2> QED  BY <1>0, <2>3, <2>4 DEF AccountShape
<1>4. CASE \E t \in Slots : SetVerified(t)
  <2>1. PICK t \in Slots : SetVerified(t)  BY <1>4
  <2> DEFINE c == task[t].peer
             fp == task[t].fps[c]
  <2>2. /\ UNCHANGED <<dir, cached, aiMember, crashes>>
        /\ \/ verified' = verified
           \/ c \in task[t].members /\ verified' = [verified EXCEPT ![c] = fp]
    BY <2>1 DEF SetVerified
  <2>3. c \in task[t].members => fp \in MaybeKey  BY <1>0, TaskGives
  <2> HIDE DEF c, fp
  <2>4. verified' \in [Contacts -> MaybeKey]  BY <1>0, <2>2, <2>3 DEF AccountShape
  <2> QED  BY <1>0, <2>2, <2>4 DEF AccountShape
<1>5. CASE (\E t \in Slots : Established(t)) \/ Decrypted
  <2>1. /\ UNCHANGED <<dir, cached, aiMember, crashes>>
        /\ \/ verified' = verified
           \/ verified' = [c \in Contacts |-> IF c \in changes THEN Null ELSE verified[c]]
    BY <1>5 DEF Established, Decrypted, Drain, OnSystemEvent
  <2>2. verified' \in [Contacts -> MaybeKey]  BY <1>0, <2>1 DEF AccountShape, MaybeKey
  <2> QED  BY <1>0, <2>1, <2>2 DEF AccountShape
<1>6. CASE Crash
  <2>1. disk.dir \subseteq Contacts /\ disk.cached \subseteq Contacts
    BY DEF Shape, DiskShape, Disk
  <2>2. /\ dir' = disk.dir /\ cached' = disk.cached /\ crashes' = crashes + 1
        /\ UNCHANGED <<verified, aiMember>>
    BY <1>6 DEF Crash
  <2> QED  BY <1>0, <2>1, <2>2 DEF AccountShape
<1>7. CASE \E t \in Slots : /\ Command(t) /\ ~Fetch(t) /\ ~Listed(t) /\ ~Finish(t)
                            /\ ~SetVerified(t) /\ ~Established(t)
  <2>1. PICK t \in Slots : /\ Command(t) /\ ~Fetch(t) /\ ~Listed(t) /\ ~Finish(t)
                          /\ ~SetVerified(t) /\ ~Established(t)
    BY <1>7
  <2>2. UNCHANGED <<dir, cached, verified, aiMember, crashes>>
    <3>1. CASE \/ \E c \in Contacts, cmd \in Resolving \cup {"aiRemove"} : Start(t, cmd, c)
               \/ \E cmd \in {"send", "view"} : Start(t, cmd, Null)
      BY <3>1 DEF Start
    <3>2. CASE \/ Check(t) \/ HasSession(t) \/ List(t) \/ Render(t) \/ Show(t) \/ Ensure(t)
               \/ Encrypt(t)
      BY <3>2 DEF Check, HasSession, List, Render, Show, Ensure, Encrypt
    <3>3. CASE Sealed(t) \/ Transmit(t) \/ Rest(t) \/ Author(t) \/ RequestFails(t)
      BY <3>3 DEF Sealed, Transmit, Rest, Author, RequestFails
    <3> QED  BY <2>1, <3>1, <3>2, <3>3 DEF Command
  <2> QED  BY <1>0, <2>2 DEF AccountShape
<1>8. CASE \/ \E t \in Tasks : StoreStep(t) /\ UNCHANGED cliVars
           \/ \E c \in Contacts : Receive(c) \/ Rotate(c)
           \/ Deliver \/ OpArrives \/ UNCHANGED vars
  <2>1. UNCHANGED <<dir, cached, verified, aiMember, crashes>>
    BY <1>8 DEF Receive, Rotate, Deliver, OpArrives, cliVars, vars
  <2> QED  BY <1>0, <2>1 DEF AccountShape
<1> QED  BY <1>1, <1>2, <1>3, <1>4, <1>5, <1>6, <1>7, <1>8 DEF Next

\* The snapshot on disk is one of typed stores.
LEMMA DiskStep ==
    ASSUME Shape, Fitting, StoreShape', AccountShape', LogShape', [Next]_vars,
           chains' \in {chains, chains + 1}
    PROVE  DiskShape'
<1>1. Persist \/ UNCHANGED disk  BY Saved
<1>2. CASE Persist
  <2>1. disk' = [known |-> known', sess |-> sess', dir |-> dir', cached |-> cached',
                 held |-> held']
    BY <1>2 DEF Persist
  <2>2. held' \in Nat  BY DEF LogShape
  <2> QED  BY <2>1, <2>2 DEF DiskShape, Disk, StoreShape, AccountShape
<1>3. CASE UNCHANGED disk
  <2>1. chains \in Nat /\ chains' \in Nat /\ chains <= chains'  BY DEF Shape, StoreShape
  <2>2. Disk(chains) \subseteq Disk(chains')  BY <2>1, Grows
  <2> QED  BY <1>3, <2>2 DEF Shape, DiskShape
<1> QED  BY <1>1, <1>2, <1>3

\* A step leaves the chains as they are or starts one.
LEMMA ChainsStep ==
    ASSUME Shape, Fitting, [Next]_vars
    PROVE  chains' \in {chains, chains + 1}
BY StoreSteps DEF storeVars, Asks, RunExclusive, Takes, StoreStep, OpRead, OpThrows,
                  SaveIdentity, SaveSession, Crash

\* What counts as verified, and what is painted with a tick, was compared.
LEMMA ShownStep ==
    ASSUME Shape, Fitting, VerifiedShown, TickMeansCompared, [Next]_vars
    PROVE  VerifiedShown' /\ TickMeansCompared'
<1>0. verified \in [Contacts -> MaybeKey] /\ Slots \subseteq Tasks
  BY DEF Shape, AccountShape, Tasks
<1>1. CASE \E t \in Slots : Render(t)
  <2>1. PICK t \in Slots : Render(t)  BY <1>1
  <2>2. /\ UNCHANGED <<verified, shown, unseen>>
        /\ screen' = {<<c, task[t].fps[c]>> :
                         c \in {d \in task[t].members : IsVerified(d, task[t].fps[d])}}
    BY <2>1 DEF Render
  <2>3. task[t].members \subseteq Contacts  BY <1>0, TaskGives
  <2>4. ASSUME NEW c \in task[t].members, IsVerified(c, task[t].fps[c])
        PROVE  <<c, task[t].fps[c]>> \in shown \cup unseen
    BY <2>3, <2>4 DEF IsVerified, VerifiedShown
  <2>5. screen' \subseteq shown \cup unseen  BY <2>2, <2>4
  <2> QED  BY <2>2, <2>5 DEF VerifiedShown, TickMeansCompared
<1>2. CASE \E t \in Slots : SetVerified(t)
  <2>1. PICK t \in Slots : SetVerified(t)  BY <1>2
  <2> DEFINE d == task[t].peer
             fp == task[t].fps[d]
  <2>2. /\ UNCHANGED <<screen, shown>>
        /\ \/ UNCHANGED <<verified, unseen>>
           \/ verified' = [verified EXCEPT ![d] = fp] /\ unseen' = unseen \cup {<<d, fp>>}
    BY <2>1 DEF SetVerified
  <2> HIDE DEF d, fp
  <2>3. \A c \in Contacts : verified'[c] # Null => <<c, verified'[c]>> \in shown' \cup unseen'
    BY <1>0, <2>2 DEF VerifiedShown
  <2>4. screen' \subseteq shown' \cup unseen'  BY <2>2 DEF TickMeansCompared
  <2> QED  BY <2>3, <2>4 DEF VerifiedShown, TickMeansCompared
<1>7. CASE \E t \in Slots : Show(t)
  <2>1. PICK t \in Slots : Show(t)  BY <1>7
  <2> DEFINE pair == <<task[t].peer, task[t].fps[task[t].peer]>>
  <2>2. UNCHANGED <<screen, verified>> /\ shown' = shown \cup {pair} /\ unseen' = unseen \ {pair}
    BY <2>1 DEF Show
  <2> HIDE DEF pair
  <2>3. shown \cup unseen \subseteq shown' \cup unseen'  BY <2>2
  <2> QED  BY <2>2, <2>3 DEF VerifiedShown, TickMeansCompared
<1>3. CASE (\E t \in Slots : Established(t)) \/ Decrypted
  <2>1. /\ UNCHANGED <<screen, shown, unseen>>
        /\ \/ verified' = verified
           \/ verified' = [c \in Contacts |-> IF c \in changes THEN Null ELSE verified[c]]
    BY <1>3 DEF Established, Decrypted, Drain, OnSystemEvent
  <2>2. \A c \in Contacts : verified'[c] # Null => verified'[c] = verified[c]  BY <2>1
  <2> QED  BY <2>1, <2>2 DEF VerifiedShown, TickMeansCompared
<1>4. CASE \E t \in Slots : /\ Command(t) /\ ~Render(t) /\ ~SetVerified(t) /\ ~Show(t)
                            /\ ~Established(t)
  <2>1. PICK t \in Slots : /\ Command(t) /\ ~Render(t) /\ ~SetVerified(t) /\ ~Show(t)
                          /\ ~Established(t)
    BY <1>4
  <2>2. CASE \/ \E c \in Contacts, cmd \in Resolving \cup {"aiRemove"} : Start(t, cmd, c)
             \/ \E cmd \in {"send", "view"} : Start(t, cmd, Null)
    BY <2>2 DEF Start, VerifiedShown, TickMeansCompared
  <2>3. CASE \/ Fetch(t) \/ Check(t) \/ HasSession(t) \/ List(t) \/ Listed(t) \/ Ensure(t)
             \/ Encrypt(t) \/ Sealed(t) \/ Transmit(t) \/ Rest(t) \/ Author(t) \/ Finish(t)
             \/ RequestFails(t)
    <3>1. UNCHANGED <<verified, screen, shown, unseen>>
      BY <2>3 DEF Fetch, Check, HasSession, List, Listed, Ensure, Encrypt, Sealed, Transmit, Rest, Author,
                  Finish, RequestFails
    <3> QED  BY <3>1 DEF VerifiedShown, TickMeansCompared
  <2> QED  BY <2>1, <2>2, <2>3 DEF Command
<1>5. CASE \/ \E t \in Tasks : StoreStep(t) /\ UNCHANGED cliVars
           \/ \E c \in Contacts : Receive(c) \/ Rotate(c)
           \/ Deliver \/ OpArrives \/ UNCHANGED vars
  <2>1. UNCHANGED <<verified, screen, shown, unseen>>
    BY <1>5 DEF Receive, Rotate, Deliver, OpArrives, cliVars, vars
  <2> QED  BY <2>1 DEF VerifiedShown, TickMeansCompared
<1>6. CASE Crash
  <2>1. UNCHANGED <<verified, shown, unseen>> /\ screen' = {}  BY <1>6 DEF Crash
  <2> QED  BY <2>1 DEF VerifiedShown, TickMeansCompared
<1> QED  BY <1>1, <1>2, <1>3, <1>4, <1>5, <1>6, <1>7 DEF Next

---------------------------------------------------------------------------
(***************************************************************************)
(* The invariant, and what follows                                         *)
(***************************************************************************)

\* The invariant holds when the client starts.
LEMMA InvInitially == Init => IInv
<1> SUFFICES ASSUME Init PROVE IInv  OBVIOUS
<1> DEFINE rec == [key |-> 1, chain |-> 0, n |-> 0]
<1>1. /\ changes = {} /\ storeTail = <<>> /\ op = [t \in Tasks |-> NoOp] /\ chains = 0
      /\ made = <<>> /\ task = [t \in Tasks |-> NoTask]
  BY DEF Init, StoreInit
<1>2. NoOp \in Op(0) /\ OpFit(NoOp, 0)  BY NoOpTyped
<1>3. NoOp.at = "none" /\ NoOp.kind = "none"  BY DEF NoOp
<1>4. /\ roster \in SUBSET Contacts /\ dir = roster /\ cached = roster
      /\ authored = <<roster>> /\ held = 1 /\ stored = 1
      /\ known = [c \in Contacts |-> IF c \in roster THEN 1 ELSE Null]
      /\ sess = [c \in Contacts |-> IF c \in roster THEN rec ELSE Null]
  BY DEF Init
<1>5. rec \in Session(0) /\ rec.key = 1 /\ rec.chain = 0 /\ rec.n = 0  BY DEF Session
<1> HIDE DEF rec
<1>6. DOMAIN storeTail = {} /\ DOMAIN made = {}  BY <1>1
<1>7. known \in [Contacts -> MaybeKey] /\ sess \in Sessions(chains)
  BY <1>1, <1>4, <1>5 DEF MaybeKey, Sessions
<1>8. StoreShape
  <2>1. storeTail \in Seq(Tasks) /\ made \in Seq(Contacts \X (0 .. chains) \X Nat)  BY <1>1
  <2> QED  BY <1>1, <1>2, <1>7, <2>1 DEF StoreShape
<1>9. RosterShape  BY <1>4 DEF Init, RosterShape
<1>d. disk = [known |-> known, sess |-> sess, dir |-> dir, cached |-> cached, held |-> held]
  BY DEF Init
<1>l. LogShape  BY <1>4, <1>d DEF LogShape
<1>10. TaskShape /\ TasksGood
  <2>1. \A t \in Tasks : NoTask \in Task /\ Good(t, NoTask, NoOp, roster, fold)
    BY <1>3, IdleIsGood
  <2> QED  BY <1>1, <2>1 DEF TaskShape, TasksGood
<1>11. AccountShape
  <2>1. /\ verified = [c \in Contacts |-> Null] /\ aiMember = Null /\ crashes = 0
    BY DEF Init
  <2> QED  BY <1>4, <2>1 DEF AccountShape, MaybeKey
<1>12. DiskShape
  BY <1>4, <1>7, <1>d DEF DiskShape, Disk
<1>13. Fitting  BY <1>1, <1>2, <1>10 DEF Fitting, TasksGood, Good
<1>14. QueueInv  BY <1>1, <1>3, <1>6 DEF QueueInv, ToDo, Working
<1>15. RatchetInv
  <2>1. ToSet(made) = {}  BY <1>6 DEF ToSet
  <2>2. IsFiniteSet(ToSet(made)) /\ Cardinality(ToSet(made)) = 0  BY <2>1, FS_EmptySet
  <2>3. Len(made) = 0  BY <1>1
  <2> QED  BY <1>1, <1>3, <1>6, <2>2, <2>3 DEF RatchetInv, RatchetAdvances, UpTo, Working
<1>16. KeyInv
  <2>1. \A c \in Contacts : sess[c] # Null => known[c] = sess[c].key  BY <1>4, <1>5
  <2> QED  BY <1>1, <1>3, <2>1 DEF KeyInv
<1>17. ChangeIsReported  BY <1>1 DEF ChangeIsReported
<1>18. AvoidInv  BY <1>10 DEF Init, AvoidInv, TasksGood, Good
<1>19. VerifiedShown /\ TickMeansCompared
  BY DEF Init, VerifiedShown, TickMeansCompared
<1> QED
  BY <1>8, <1>9, <1>l, <1>10, <1>11, <1>12, <1>13, <1>14, <1>15, <1>16, <1>17, <1>18, <1>19
     DEF IInv, Shape

\* Every step keeps it.
LEMMA InvStep == IInv /\ [Next]_vars => IInv'
<1> SUFFICES ASSUME IInv, [Next]_vars PROVE IInv'  OBVIOUS
<1>0. /\ Shape /\ Fitting /\ QueueInv /\ RatchetInv /\ (crashes = 0 => KeyInv)
      /\ ChangeIsReported /\ AvoidInv /\ VerifiedShown /\ TickMeansCompared
  BY DEF IInv
<1>1. StoreShape' /\ \A t \in Tasks : OpFit(op[t], chains)'  BY <1>0, StoreShapeStep
<1>2. RosterShape' /\ gone' \cap roster' = {}  BY <1>0, RosterStep
<1>3. TaskShape' /\ TasksGood'  BY <1>0, TasksStep
<1>4. AccountShape' /\ LogShape'  BY <1>0, AccountStep, LogStep
<1>5. DiskShape'
  <2>1. chains' \in {chains, chains + 1}  BY <1>0, ChainsStep
  <2> QED  BY <1>0, <1>1, <1>4, <2>1, DiskStep
<1>6. Shape'  BY <1>1, <1>2, <1>3, <1>4, <1>5 DEF Shape
<1>7. Fitting'  BY <1>1, <1>3 DEF Fitting, TasksGood, Good
<1>8. AvoidInv'  BY <1>2, <1>3 DEF AvoidInv, TasksGood, Good
<1>9. QueueInv'  BY <1>0, QueueStep
<1>10. RatchetInv'  BY <1>0, RatchetStep
<1>11. (crashes = 0 => KeyInv)' /\ ChangeIsReported'  BY <1>0, KeyStep
<1>12. VerifiedShown' /\ TickMeansCompared'  BY <1>0, ShownStep
<1> QED  BY <1>6, <1>7, <1>8, <1>9, <1>10, <1>11, <1>12 DEF IInv

\* So it always holds.
LEMMA Invariance == Spec => []IInv
BY InvInitially, InvStep, PTL DEF Spec

\* The stores, the rosters, the tasks and the account have their types, and a
\* task waits exactly while SessionManager has an operation of its own
\* (every call of it is awaited), for any number of commands and contacts.
THEOREM ClientTypes == Spec => []TypeOK
<1>1. IInv => TypeOK
  <2> SUFFICES ASSUME IInv PROVE TypeOK  OBVIOUS
  <2>0. Shape /\ Fitting  BY DEF IInv
  <2>1. StoreTypeOK
    <3>0. StoreShape  BY <2>0 DEF Shape
    <3>1. [key : Nat, chain : 0 .. chains, n : Nat] = Session(chains)  BY DEF Session
    <3>2. \A c \in Contacts : sess[c] # Null => sess[c] \in Session(chains)
      BY <3>0 DEF StoreShape, Sessions
    <3>3. \A t \in Tasks : /\ op[t].kind \in Kinds /\ op[t].at \in Ats
                           /\ op[t].rec # Null => op[t].rec \in Session(chains)
      BY <3>0 DEF StoreShape, Op
    <3>4. known \in [Contacts -> Nat \cup {Null}] /\ changes \subseteq Contacts
          /\ storeTail \in Seq(Tasks)
      BY <3>0 DEF StoreShape, MaybeKey
    <3> QED  BY <3>1, <3>2, <3>3, <3>4 DEF StoreTypeOK, Kinds, Ats
  <2>2. roster \cup dir \cup cached \cup gone \subseteq Contacts
    BY <2>0 DEF Shape, RosterShape, AccountShape
  <2>5. authored \in Seq(SUBSET Contacts) /\ held \in DOMAIN authored /\ stored \in DOMAIN authored
    BY <2>0 DEF Shape, LogShape
  <2>3. verified \in [Contacts -> Nat \cup {Null}] /\ aiMember \in Contacts \cup {Null}
    BY <2>0 DEF Shape, AccountShape, MaybeKey
  <2>4. \A t \in Tasks : task[t].pc \in {"wait", "sealing"} <=> op[t].at # "none"
    BY <2>0 DEF Fitting, TaskFit
  <2> QED  BY <2>1, <2>2, <2>3, <2>4, <2>5 DEF TypeOK
<1> QED  BY <1>1, Invariance, PTL

\* runExclusive never wedges: whatever becomes of an operation, and whichever
\* tasks queue behind it, the head of storeTail is still to be done and every
\* unfinished operation is in it.
THEOREM ChainMovesOn == Spec => []QueueMoves
<1>1. IInv => QueueMoves  BY QueueIsMoving DEF IInv, Shape
<1> QED  BY <1>1, Invariance, PTL

\* No two messages of a life of the process are sealed with the same key, however
\* commands, incoming envelopes and new sessions interleave.
THEOREM SealedOnce == Spec => []RatchetAdvances
<1>1. IInv => RatchetAdvances  BY DEF IInv, RatchetInv
<1> QED  BY <1>1, Invariance, PTL

\* A tick stands only beside a fingerprint that a /verify of that contact read and
\* put up for comparison, or recorded and did not come to put up, through crashes
\* and failures of persist.
THEOREM TicksAreCompared == Spec => []TickMeansCompared
<1>1. IInv => TickMeansCompared  BY DEF IInv
<1> QED  BY <1>1, Invariance, PTL

\* Before the first crash, a replaced identity key waits only for an operation
\* under way or for its caller to drain the change log.
THEOREM ChangesAreReported == Spec => []ChangeIsReported
<1>1. IInv => ChangeIsReported  BY DEF IInv
<1> QED  BY <1>1, Invariance, PTL

\* A command never encrypts to whom it must avoid: a member gone before it began
\* from the log as the client holds it, which a crash may shorten and the relay
\* completes again, or from an honestly reported roster.
THEOREM RemovedIsAvoided == Spec => []RemovedNotEncryptedTo
<1>1. IInv => RemovedNotEncryptedTo
  <2>1. IInv => \A t \in Tasks : op[t].kind = "encrypt" => op[t].peer \notin task[t].avoid
    BY DEF IInv, AvoidInv, Avoids
  <2> QED  BY <2>1 DEF RemovedNotEncryptedTo, Tasks
<1> QED  BY <1>1, Invariance, PTL
=============================================================================
