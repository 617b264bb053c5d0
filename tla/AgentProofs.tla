----------------------------- MODULE AgentProofs -----------------------------
(***************************************************************************)
(* Proofs about Agent: one intro per stay, replies that wait for their cap *)
(* and a window that is the latest turns, over any number of messages,     *)
(* changes, failed calls and crashes.                                      *)
(***************************************************************************)
EXTENDS Agent, SequenceFacts

\* Where a task may be: until it has recorded a message, until it has counted
\* it, and after.
BeforeTake == {"listing", "purging", "purgingMeta", "dropping", "greeting", "greeted",
               "greetedSaved", "taking"}

BeforeCount == BeforeTake \cup {"counting"}

AfterCount == {"asking", "replying", "replied", "resetting", "saving"}

Places == BeforeCount \cup AfterCount \cup {"idle"}

Ids == 0 .. MaxMessages

Task == [kind : {"msg", "check"}, id : Ids, mentioned : BOOLEAN]

Meta == [greeted : BOOLEAN, human : Nat]

\* The types of the specification, and of what it leaves untyped.
ProcShape ==
    /\ proc \in {"down", "booting", "up"} /\ at \in Places
    /\ queue \in Seq(Task) /\ task \in Task
    /\ proc # "up" => at = "idle" /\ queue = <<>>
    /\ at \in {"taking", "counting"} \cup AfterCount => task.kind = "msg"

\* The relay keeps only what the account remembers or a crash made it forget.
AccountShape ==
    /\ mem \in Account /\ snap \in Account /\ snap.seen \subseteq mem.seen
    /\ aiMode \in BOOLEAN /\ chains \in Nat
    /\ mailbox \subseteq [kind : {"msg"}, id : 1 .. heard, mentioned : BOOLEAN]
    /\ \A t \in mailbox : t.id \in mem.seen \cup again

RowShape ==
    /\ ctx \in Seq(Ids) /\ Len(ctx) <= Window /\ turns \in Seq(Ids)
    /\ meta \in Meta /\ heard \in Ids /\ intros \in Nat /\ since \in Nat

\* A message with this number is newer than all that was recorded.
Newer(n) == \A j \in DOMAIN turns : turns[j] < n

\* The messages waiting are in order and newer, but for those that come again.
QueueNumbered ==
    /\ \A i \in DOMAIN queue : queue[i].kind = "msg" =>
          /\ queue[i].id # 0 /\ queue[i].id <= heard
          /\ queue[i].id \notin again => Newer(queue[i].id)
    /\ \A i, j \in DOMAIN queue :
          i < j /\ queue[i].kind = "msg" /\ queue[j].kind = "msg" /\ queue[j].id \notin again
          => queue[i].id < queue[j].id

\* So is the message of the task under way, to the ones behind it and, until it
\* is recorded itself, to the ones before.
TaskNumbered ==
    at # "idle" /\ task.kind = "msg" =>
        /\ task.id # 0 /\ task.id <= heard
        /\ \A i \in DOMAIN queue :
              queue[i].kind = "msg" /\ queue[i].id \notin again => task.id < queue[i].id
        /\ at \in BeforeTake /\ task.id \notin again => Newer(task.id)

PastNumbered == \A j \in DOMAIN turns : turns[j] <= heard

Numbered == QueueNumbered /\ TaskNumbered /\ PastNumbered

\* The sequence s is the end of t.
EndOf(s, t) ==
    /\ Len(s) <= Len(t)
    /\ \A i \in DOMAIN s : s[i] = t[Len(t) - Len(s) + i]

Ascending(s) ==
    \A i, j \in DOMAIN s : i < j /\ s[i] # 0 /\ s[j] \notin again \cup {0} => s[i] < s[j]

\* The window is the latest turns.
Recent ==
    /\ EndOf(ctx, turns) /\ (ctx = <<>> => turns = <<>>) /\ Ascending(turns)
    /\ at \in {"counting", "asking", "replying"} => ctx # <<>> /\ Last(ctx) = task.id

\* No intro has been sent unless one is recorded, or about to be.
Introduced ==
    /\ torn \in BOOLEAN
    /\ at \in {"greeting", "greeted"} => ~meta.greeted
    /\ torn \/ (intros <= 1 /\ (~meta.greeted /\ at # "greeted" => intros = 0))

\* The counter never runs ahead of the messages since the last reply.
Paced ==
    /\ torn \/ at \in {"replied", "resetting"} \/ meta.human <= since
    /\ torn \/ at # "counting" \/ meta.human < since
    /\ at \in {"asking", "replying"} /\ ~task.mentioned => meta.human >= CapN

IInv == ProcShape /\ AccountShape /\ RowShape /\ Numbered /\ Recent /\ Introduced /\ Paced

---------------------------------------------------------------------------
(***************************************************************************)
(* The window                                                              *)
(***************************************************************************)

\* The end of a sequence is its suffix.
LEMMA EndIsSuffix ==
    ASSUME NEW S, NEW s \in Seq(S), NEW t \in Seq(S), EndOf(s, t)
    PROVE  IsSuffix(s, t)
<1> DEFINE m == Len(s)
           n == Len(t)
           r == Reverse(s)
           q == Reverse(t)
<1>1. m \in Nat /\ n \in Nat /\ m <= n  BY LenProperties DEF EndOf
<1>2. /\ DOMAIN s = 1 .. m /\ DOMAIN t = 1 .. n
      /\ \A i \in 1 .. m : s[i] \in S /\ s[i] = t[n - m + i]
      /\ \A i \in 1 .. n : t[i] \in S
  BY LenProperties, ElementOfSeq DEF EndOf
<1>3. r \in [1 .. m -> S] /\ \A i \in 1 .. m : r[i] = s[(m - i) + 1]
  <2>1. \A i \in 1 .. m : (m - i) + 1 \in 1 .. m  BY <1>1
  <2> QED  BY <1>2, <2>1 DEF Reverse
<1>4. q \in [1 .. n -> S] /\ \A i \in 1 .. n : q[i] = t[(n - i) + 1]
  <2>1. \A i \in 1 .. n : (n - i) + 1 \in 1 .. n  BY <1>1
  <2> QED  BY <1>2, <2>1 DEF Reverse
<1> HIDE DEF m, n, r, q
<1>5. r \in Seq(S) /\ Len(r) = m /\ q \in Seq(S) /\ Len(q) = n
  BY <1>1, <1>3, <1>4, IsSequence
<1>6. ASSUME NEW i \in 1 .. m PROVE r[i] = q[i] /\ r[i] \in S
  <2>1. i \in 1 .. n /\ (m - i) + 1 \in 1 .. m /\ n - m + ((m - i) + 1) = (n - i) + 1
    BY <1>1
  <2> QED  BY <1>2, <1>3, <1>4, <2>1
<1> DEFINE a == SubSeq(r, 1, m)
           b == SubSeq(q, 1, m)
<1>7. a \in Seq(S) /\ Len(a) = m /\ \A i \in 1 .. m : a[i] = r[i]
  <2>1. 1 \in Int /\ m \in Int /\ \A i \in 1 .. m : r[i] \in S  BY <1>1, <1>6
  <2>2. /\ a \in Seq(S) /\ Len(a) = (IF 1 <= m THEN m - 1 + 1 ELSE 0)
        /\ \A i \in 1 .. m - 1 + 1 : a[i] = r[1 + i - 1]
    BY <2>1, SubSeqProperties
  <2> QED  BY <1>1, <2>2
<1>8. b \in Seq(S) /\ Len(b) = m /\ \A i \in 1 .. m : b[i] = q[i]
  <2>1. 1 \in Int /\ m \in Int /\ \A i \in 1 .. m : q[i] \in S  BY <1>1, <1>6
  <2>2. /\ b \in Seq(S) /\ Len(b) = (IF 1 <= m THEN m - 1 + 1 ELSE 0)
        /\ \A i \in 1 .. m - 1 + 1 : b[i] = q[1 + i - 1]
    BY <2>1, SubSeqProperties
  <2> QED  BY <1>1, <2>2
<1> HIDE DEF a, b
<1>9. a = b  BY <1>1, <1>6, <1>7, <1>8, SeqEqual
<1> QED  BY <1>1, <1>5, <1>9 DEF IsSuffix, IsPrefix, a, b, r, q, m, n

\* A turn more in the window of the end of t is the end of t with that turn.
LEMMA PushEnds ==
    ASSUME NEW S, NEW s \in Seq(S), NEW t \in Seq(S), EndOf(s, t), NEW e \in S, NEW w \in Push(s, e)
    PROVE  /\ w \in Seq(S) /\ Len(w) <= Window /\ w # <<>> /\ Last(w) = e
           /\ EndOf(w, Append(t, e))
<1> DEFINE a == Append(s, e)
           b == Append(t, e)
           m == Len(s)
           n == Len(t)
<1>1. /\ a \in Seq(S) /\ Len(a) = m + 1 /\ m \in Nat /\ DOMAIN s = 1 .. m
      /\ a[m + 1] = e /\ \A i \in 1 .. m : a[i] = s[i]
  BY Appended
<1>2. /\ b \in Seq(S) /\ Len(b) = n + 1 /\ n \in Nat
      /\ b[n + 1] = e /\ \A i \in 1 .. n : b[i] = t[i]
  BY Appended
<1>3. m <= n /\ \A i \in 1 .. m : s[i] = t[n - m + i]  BY <1>1 DEF EndOf
<1>4. w \in Suffixes(a) /\ w # <<>> /\ Len(w) <= Window  BY DEF Push
<1> HIDE DEF a, b, m, n
<1>5. PICK l \in 1 .. m + 1 : w = SubSeq(a, l, m + 1)  BY <1>1, <1>4 DEF Suffixes
<1>6. \A i \in l .. m + 1 : a[i] \in S
  <2>1. \A i \in l .. m + 1 : i \in 1 .. Len(a)  BY <1>1
  <2> QED  BY <1>1, <2>1, ElementOfSeq
<1>7. w \in Seq(S) /\ Len(w) = m + 2 - l /\ \A i \in 1 .. m + 2 - l : w[i] = a[l + i - 1]
  <2>1. l \in Int /\ m + 1 \in Int /\ l <= m + 1 /\ (m + 1) - l + 1 = m + 2 - l  BY <1>1
  <2>2. /\ w \in Seq(S) /\ Len(w) = (IF l <= m + 1 THEN (m + 1) - l + 1 ELSE 0)
        /\ \A i \in 1 .. (m + 1) - l + 1 : w[i] = a[l + i - 1]
    BY <1>5, <1>6, <2>1, SubSeqProperties
  <2> QED  BY <2>1, <2>2
<1>8. \A k \in 1 .. m + 1 : a[k] = b[n - m + k]
  <2> SUFFICES ASSUME NEW k \in 1 .. m + 1 PROVE a[k] = b[n - m + k]  OBVIOUS
  <2>1. CASE k = m + 1
    <3>1. n - m + k = n + 1  BY <1>1, <1>2, <2>1
    <3> QED  BY <1>1, <1>2, <2>1, <3>1
  <2>2. CASE k # m + 1
    <3>1. k \in 1 .. m /\ n - m + k \in 1 .. n  BY <1>1, <1>2, <1>3, <2>2
    <3> QED  BY <1>1, <1>2, <1>3, <3>1
  <2> QED  BY <2>1, <2>2
<1>9. Last(w) = e
  <2>1. m + 2 - l \in 1 .. m + 2 - l /\ l + (m + 2 - l) - 1 = m + 1  BY <1>1
  <2>2. w[m + 2 - l] = a[m + 1]  BY <1>7, <2>1
  <2> QED  BY <1>1, <1>7, <2>2 DEF Last
<1>10. EndOf(w, b)
  <2>1. Len(w) <= Len(b)  BY <1>1, <1>2, <1>3, <1>7
  <2>2. DOMAIN w = 1 .. m + 2 - l  BY <1>7, LenProperties
  <2>3. ASSUME NEW i \in 1 .. m + 2 - l PROVE w[i] = b[Len(b) - Len(w) + i]
    <3>1. l \in Int /\ i \in Int /\ 1 <= l /\ 1 <= i /\ i <= m + 2 - l  BY <1>1, <1>5
    <3>2. l + i - 1 \in 1 .. m + 1  BY <1>1, <3>1
    <3>3. n - m + (l + i - 1) = (n + 1) - (m + 2 - l) + i  BY <1>1, <1>2, <3>1
    <3> QED  BY <1>2, <1>7, <1>8, <3>2, <3>3
  <2> QED  BY <2>1, <2>2, <2>3 DEF EndOf
<1> QED  BY <1>4, <1>7, <1>9, <1>10 DEF b

---------------------------------------------------------------------------
(***************************************************************************)
(* The account, and the steps that change no more than it and the place    *)
(***************************************************************************)

\* What is enough for the account: it forgets nothing.
LEMMA AccountKept ==
    ASSUME AccountShape, mem' \in Account, snap' \in Account, snap'.seen \subseteq mem'.seen,
           mem.seen \subseteq mem'.seen, aiMode' \in BOOLEAN, chains' \in Nat,
           UNCHANGED <<heard, mailbox, again>>
    PROVE  AccountShape'
BY DEF AccountShape

\* What listMembers and a send make of the account.
LEMMA RefreshedAccount ==
    ASSUME AccountShape
    PROVE  /\ Refreshed \in Account /\ Refreshed.seen = mem.seen
           /\ Refreshed.key = mem.key /\ Refreshed.out = mem.out
           /\ Opened \in Account /\ Opened.seen = mem.seen
           /\ IF mem.key = 0 THEN Opened.key = chains + 1 /\ Opened.out = 0
                             ELSE Opened.key = mem.key /\ Opened.out = mem.out
           /\ Encrypted \in Account /\ Encrypted.seen = mem.seen
           /\ Encrypted.key = Opened.key /\ Encrypted.out = Opened.out + 1
<1>1. mem \in Account /\ aiMode \in BOOLEAN /\ chains + 1 \in Nat  BY DEF AccountShape
<1>2. Refreshed \in Account /\ Refreshed.seen = mem.seen /\ Refreshed.key = mem.key
      /\ Refreshed.out = mem.out
  BY <1>1 DEF Refreshed, Account
<1> DEFINE r == Refreshed
           f == [r EXCEPT !.key = chains + 1, !.out = 0]
<1> HIDE DEF r
<1>3. f \in Account /\ f.seen = r.seen /\ f.key = chains + 1 /\ f.out = 0
  <2>1. r \in Account  BY <1>2 DEF r
  <2> QED  BY <1>1, <2>1 DEF Account
<1>4. Opened = IF mem.key = 0 THEN f ELSE r  BY DEF Opened, r
<1> HIDE DEF f
<1>5. /\ Opened \in Account /\ Opened.seen = mem.seen
      /\ IF mem.key = 0 THEN Opened.key = chains + 1 /\ Opened.out = 0
                        ELSE Opened.key = mem.key /\ Opened.out = mem.out
  BY <1>2, <1>3, <1>4 DEF r
<1> DEFINE o == Opened
<1> HIDE DEF o
<1>6. LET e == [o EXCEPT !.out = @ + 1]
      IN  e \in Account /\ e.seen = o.seen /\ e.key = o.key /\ e.out = o.out + 1
  <2>1. o \in Account  BY <1>5 DEF o
  <2>2. o.out + 1 \in Nat  BY <2>1 DEF Account
  <2> QED  BY <2>1, <2>2 DEF Account
<1>7. Encrypted = [o EXCEPT !.out = @ + 1]  BY DEF Encrypted, o
<1> QED  BY <1>2, <1>5, <1>6, <1>7 DEF o

\* A send, or the attempt, leaves an account that forgets nothing.
LEMMA SendsAccount ==
    ASSUME AccountShape, Sends \/ SendThrows, UNCHANGED <<snap, aiMode, heard, mailbox, again>>
    PROVE  AccountShape'
<1>1. mem' \in {mem, Encrypted} /\ chains' \in {chains, mem'.key}
  BY DEF Sends, SendThrows, Becomes
<1>2. mem \in Account /\ snap \in Account /\ snap.seen \subseteq mem.seen /\ chains \in Nat
      /\ aiMode \in BOOLEAN
  BY DEF AccountShape
<1>3. mem' \in Account /\ mem'.seen = mem.seen  BY <1>1, <1>2, RefreshedAccount
<1>4. chains' \in Nat  BY <1>1, <1>2, <1>3 DEF Account
<1> QED  BY <1>2, <1>3, <1>4, AccountKept

\* A snapshot taken, or left alone, remembers no more than the account.
LEMMA SnapAccount ==
    ASSUME AccountShape, UNCHANGED <<mem, aiMode, chains, heard, mailbox, again>>,
           snap' \in {mem, snap}
    PROVE  AccountShape'
<1>1. mem \in Account /\ snap \in Account /\ snap.seen \subseteq mem.seen /\ chains \in Nat
      /\ aiMode \in BOOLEAN
  BY DEF AccountShape
<1> QED  BY <1>1, AccountKept

\* The parts of the invariant, but for the account.
Rest == ProcShape /\ RowShape /\ Numbered /\ Recent /\ Introduced /\ Paced

\* Steps of a task from one place to the next that keep the invariant if they
\* change nothing else: places that promise something are not entered, places
\* that something is owed at are not left.
Goes(from, to) ==
    /\ from # "idle" /\ to \in Places
    /\ to \in {"taking", "counting"} \cup AfterCount => task.kind = "msg"
    /\ to \in BeforeCount => from \in BeforeCount
    /\ to \in BeforeTake => from \in BeforeTake
    /\ to \in {"asking", "replying"} => from = "asking"
    /\ to \notin {"greeted", "counting"}
    /\ from \notin {"greeted", "counting", "replied", "resetting"}
    /\ to = "greeting" => ~meta.greeted

\* They do.
LEMMA Moves ==
    ASSUME Rest, Goes(at, at'),
           UNCHANGED <<proc, queue, task, ctx, meta, heard, again, turns, intros, since, torn>>
    PROVE  Rest'
<1>1. ProcShape'  BY DEF Rest, Goes, ProcShape
<1>2. RowShape'  BY DEF Rest, RowShape
<1>3. QueueNumbered' /\ PastNumbered'
  BY DEF Rest, Numbered, QueueNumbered, PastNumbered, Newer
<1>4. TaskNumbered'  BY DEF Rest, Goes, Numbered, TaskNumbered, Newer
<1>5. Recent'  BY DEF Rest, Goes, Recent, Ascending
<1>6. Introduced'  BY DEF Rest, Goes, Introduced
<1>7. Paced'  BY DEF Rest, Goes, Paced
<1> QED  BY <1>1, <1>2, <1>3, <1>4, <1>5, <1>6, <1>7 DEF Rest, Numbered

\* Nothing but the account changes, or the process between crash and start.
LEMMA Stays ==
    ASSUME Rest, ProcShape',
           UNCHANGED <<queue, task, at, ctx, meta, heard, again, turns, intros, since, torn>>
    PROVE  Rest'
<1>1. RowShape'  BY DEF Rest, RowShape
<1>2. QueueNumbered' /\ PastNumbered' /\ TaskNumbered'
  BY DEF Rest, Numbered, QueueNumbered, PastNumbered, TaskNumbered, Newer
<1>3. Recent' /\ Introduced' /\ Paced'  BY DEF Rest, Recent, Ascending, Introduced, Paced
<1> QED  BY <1>1, <1>2, <1>3 DEF Rest, Numbered

\* Where reconcileConversation returns to.
LEMMA ReconciledGoes ==
    ASSUME Rest, at \in BeforeTake \ {"greeted"}, at' = Reconciled
    PROVE  Goes(at, at')
BY DEF Rest, ProcShape, Goes, Reconciled, Places, BeforeTake, BeforeCount, AfterCount

---------------------------------------------------------------------------
(***************************************************************************)
(* One lemma per step of the task                                          *)
(***************************************************************************)

\* The tasks that wait have their types.
LEMMA QueueTyped ==
    ASSUME ProcShape
    PROVE  \A i \in DOMAIN queue : queue[i] \in Task /\ queue[i].id \in Ids
<1>1. queue \in Seq(Task)  BY DEF ProcShape
<1>2. DOMAIN queue = 1 .. Len(queue)  BY <1>1, LenProperties
<1>3. \A i \in DOMAIN queue : queue[i] \in Task  BY <1>1, <1>2, ElementOfSeq
<1> QED  BY <1>3 DEF Task

\* Steps that move on, with the account at most.
LEMMA QuietStep ==
    ASSUME IInv,
           \/ ListMembers \/ ListForbidden \/ ListFails \/ DropConversation \/ PersistGreeted
           \/ SendFails \/ Ignore \/ LlmAnswers \/ Degrade \/ Persist
    PROVE  IInv'
<1>1. Rest /\ AccountShape  BY DEF IInv, Rest
<1>2. SUFFICES Goes(at, at') /\ AccountShape'
      /\ UNCHANGED <<proc, queue, task, ctx, meta, heard, again, turns, intros, since, torn>>
  BY <1>1, Moves DEF IInv, Rest
<1> USE DEF Goes, Places, BeforeTake, BeforeCount, AfterCount
<1>3. CASE ListMembers
  <2>1. AccountShape'
    <3>1. mem' = Refreshed /\ UNCHANGED <<snap, aiMode, chains, heard, mailbox, again>>
      BY <1>3 DEF ListMembers, durable, env, history, ratchets
    <3>2. snap \in Account /\ snap.seen \subseteq mem.seen /\ chains \in Nat /\ aiMode \in BOOLEAN
      BY <1>1 DEF AccountShape
    <3> QED  BY <1>1, <3>1, <3>2, RefreshedAccount, AccountKept
  <2>2. at = "listing" /\ at' \in {"purging", "greeting", Reconciled}
        /\ (at' = "greeting" => ~meta.greeted)
    <3>1. Reconciled # "greeting"  BY DEF Reconciled
    <3>2. meta.greeted \in BOOLEAN /\ mem.chain \in {"none", "without", "with"}
      BY <1>1 DEF Rest, RowShape, Meta, AccountShape, Account
    <3> QED  BY <1>3, <3>1, <3>2 DEF ListMembers
  <2>3. Goes(at, at')  BY <1>1, <2>2, ReconciledGoes
  <2> QED  BY <1>3, <2>1, <2>3 DEF ListMembers, durable, env, history, ratchets
<1>4. CASE ListForbidden
  <2>1. Goes(at, at')  BY <1>4 DEF ListForbidden
  <2>2. AccountShape'  BY <1>1, <1>4 DEF ListForbidden, AccountShape, durable, env, history, ratchets
  <2> QED  BY <1>4, <2>1, <2>2 DEF ListForbidden, durable, env, history, ratchets
<1>5. CASE ListFails
  <2>1. Goes(at, at')  BY <1>1, <1>5, ReconciledGoes DEF ListFails
  <2>2. AccountShape'  BY <1>1, <1>5 DEF ListFails, AccountShape, durable, env, history, ratchets
  <2> QED  BY <1>5, <2>1, <2>2 DEF ListFails, durable, env, history, ratchets
<1>6. CASE DropConversation
  <2>1. Goes(at, at')  BY <1>1, <1>6, ReconciledGoes DEF DropConversation
  <2>2. AccountShape'
    <3>1. /\ mem' = [mem EXCEPT !.known = FALSE, !.self = FALSE, !.chain = "none", !.mode = FALSE]
          /\ snap' = mem' /\ UNCHANGED <<aiMode, chains, heard, mailbox, again>>
      BY <1>6 DEF DropConversation, env, history, ratchets
    <3>2. mem \in Account /\ chains \in Nat /\ aiMode \in BOOLEAN  BY <1>1 DEF AccountShape
    <3>3. mem' \in Account /\ mem'.seen = mem.seen  BY <3>1, <3>2 DEF Account
    <3> QED  BY <1>1, <3>1, <3>2, <3>3, AccountKept
  <2> QED  BY <1>6, <2>1, <2>2 DEF DropConversation, env, history, ratchets
<1>7. CASE PersistGreeted
  <2>1. Goes(at, at')  BY <1>1, <1>7, ReconciledGoes DEF PersistGreeted
  <2>2. AccountShape'  BY <1>1, <1>7, SnapAccount DEF PersistGreeted, env, history, ratchets
  <2> QED  BY <1>7, <2>1, <2>2 DEF PersistGreeted, env, history, ratchets
<1>8. CASE SendFails
  <2>1. Goes(at, at')  BY <1>8 DEF SendFails
  <2>3. AccountShape'
    BY <1>1, <1>8, SendsAccount DEF SendFails, durable, env
  <2> QED  BY <1>8, <2>1, <2>3 DEF SendFails, durable, env, history, ratchets
<1>9. CASE Ignore
  <2>1. Goes(at, at')  BY <1>9 DEF Ignore
  <2>2. AccountShape'  BY <1>1, <1>9 DEF Ignore, AccountShape, durable, env, history, ratchets
  <2> QED  BY <1>9, <2>1, <2>2 DEF Ignore, durable, env, history, ratchets
<1>10. CASE LlmAnswers
  <2>1. Goes(at, at')  BY <1>1, <1>10 DEF LlmAnswers, Rest, ProcShape
  <2>2. AccountShape'  BY <1>1, <1>10 DEF LlmAnswers, AccountShape, durable, env, history, ratchets
  <2> QED  BY <1>10, <2>1, <2>2 DEF LlmAnswers, durable, env, history, ratchets
<1>11. CASE Degrade
  <2>1. Goes(at, at')  BY <1>1, <1>11 DEF Degrade, Rest, ProcShape
  <2>2. /\ UNCHANGED <<snap, aiMode, heard, mailbox, again>>
        /\ Sends \/ SendThrows \/ UNCHANGED <<mem, chains>>
    BY <1>11 DEF Degrade, durable, env, ratchets
  <2>3. AccountShape'
    <3>1. CASE Sends \/ SendThrows  BY <1>1, <2>2, <3>1, SendsAccount
    <3>2. CASE UNCHANGED <<mem, chains>>  BY <1>1, <2>2, <3>2 DEF AccountShape
    <3> QED  BY <2>2, <3>1, <3>2
  <2> QED  BY <1>11, <2>1, <2>3 DEF Degrade, durable, env
<1>12. CASE Persist
  <2>1. Goes(at, at')  BY <1>12 DEF Persist
  <2>2. AccountShape'  BY <1>1, <1>12, SnapAccount DEF Persist, env, history, ratchets
  <2> QED  BY <1>12, <2>1, <2>2 DEF Persist, env, history, ratchets
<1> QED  BY <1>3, <1>4, <1>5, <1>6, <1>7, <1>8, <1>9, <1>10, <1>11, <1>12

\* Start: the task under way is the first that waited.
LEMMA StartStep ==
    ASSUME IInv, Start
    PROVE  IInv'
<1>1. /\ proc = "up" /\ at = "idle" /\ queue # <<>> /\ at' = "listing"
      /\ task' = Head(queue) /\ queue' = Tail(queue)
      /\ UNCHANGED <<proc, mem, snap, ctx, meta, heard, mailbox, again, chains, turns, intros,
                     since, torn, aiMode>>
  BY DEF Start, durable, env, history, ratchets
<1>2. queue \in Seq(Task)  BY DEF IInv, ProcShape
<1>3. /\ Tail(queue) \in Seq(Task) /\ Head(queue) \in Task /\ Head(queue) = queue[1]
      /\ 1 \in DOMAIN queue /\ DOMAIN queue = 1 .. Len(queue) /\ Len(queue) \in Nat
      /\ \A i \in DOMAIN Tail(queue) : i \in Nat /\ i # 0 /\ i + 1 \in DOMAIN queue
                                       /\ Tail(queue)[i] = queue[i + 1]
  BY <1>1, <1>2, Shortened
<1>4. ProcShape'
  BY <1>1, <1>3 DEF IInv, ProcShape, Places, BeforeTake, BeforeCount, AfterCount
<1>5. AccountShape' /\ RowShape'  BY <1>1 DEF IInv, AccountShape, RowShape
<1>6. PastNumbered'  BY <1>1 DEF IInv, Numbered, PastNumbered
<1>7. QueueNumbered'
  <2>1. QueueNumbered  BY DEF IInv, Numbered
  <2>2. ASSUME NEW i \in DOMAIN Tail(queue), Tail(queue)[i].kind = "msg"
        PROVE  /\ Tail(queue)[i].id # 0 /\ Tail(queue)[i].id <= heard
               /\ Tail(queue)[i].id \notin again => Newer(Tail(queue)[i].id)
    BY <1>3, <2>1, <2>2 DEF QueueNumbered
  <2>3. ASSUME NEW i \in DOMAIN Tail(queue), NEW j \in DOMAIN Tail(queue), i < j,
               Tail(queue)[i].kind = "msg", Tail(queue)[j].kind = "msg",
               Tail(queue)[j].id \notin again
        PROVE  Tail(queue)[i].id < Tail(queue)[j].id
    <3>1. i + 1 < j + 1  BY <1>3, <2>3
    <3> QED  BY <1>3, <2>1, <2>3, <3>1 DEF QueueNumbered
  <2> QED  BY <1>1, <2>2, <2>3 DEF QueueNumbered, Newer
<1>8. TaskNumbered'
  <2> SUFFICES ASSUME task'.kind = "msg"
               PROVE  /\ task'.id # 0 /\ task'.id <= heard
                      /\ \A i \in DOMAIN queue' :
                            queue'[i].kind = "msg" /\ queue'[i].id \notin again => task'.id < queue'[i].id
                      /\ task'.id \notin again => Newer(task'.id)
    BY <1>1 DEF TaskNumbered, Newer
  <2>1. QueueNumbered  BY DEF IInv, Numbered
  <2>2. task'.id # 0 /\ task'.id <= heard /\ (task'.id \notin again => Newer(task'.id))
    BY <1>1, <1>3, <2>1 DEF QueueNumbered
  <2>3. ASSUME NEW i \in DOMAIN queue', queue'[i].kind = "msg", queue'[i].id \notin again
        PROVE  task'.id < queue'[i].id
    <3>1. 1 < i + 1 /\ queue'[i] = queue[i + 1] /\ i + 1 \in DOMAIN queue  BY <1>1, <1>3, <2>3
    <3> QED  BY <1>1, <1>3, <2>1, <2>3, <3>1 DEF QueueNumbered
  <2> QED  BY <2>2, <2>3
<1>9. Recent'  BY <1>1 DEF IInv, Recent, Ascending
<1>10. Introduced'  BY <1>1 DEF IInv, Introduced
<1>11. Paced'  BY <1>1 DEF IInv, Paced
<1> QED  BY <1>4, <1>5, <1>6, <1>7, <1>8, <1>9, <1>10, <1>11 DEF IInv, Numbered

\* PurgeContext: nothing is left to be recent.
LEMMA PurgeContextStep ==
    ASSUME IInv, PurgeContext
    PROVE  IInv'
<1>1. /\ at = "purging" /\ at' = "purgingMeta" /\ ctx' = <<>> /\ turns' = <<>>
      /\ UNCHANGED <<proc, mem, snap, meta, queue, task, heard, mailbox, again, chains, aiMode,
                     intros, since, torn>>
  BY DEF PurgeContext, env, ratchets
<1>2. <<>> \in Seq(Ids) /\ Len(<<>>) = 0 /\ DOMAIN <<>> = {}  OBVIOUS
<1>3. ProcShape'  BY <1>1 DEF IInv, ProcShape, Places, BeforeTake, BeforeCount, AfterCount
<1>4. AccountShape'  BY <1>1 DEF IInv, AccountShape
<1>5. RowShape'  BY <1>1, <1>2, LimitsArePositive DEF IInv, RowShape
<1>6. QueueNumbered' /\ PastNumbered'
  BY <1>1, <1>2 DEF IInv, Numbered, QueueNumbered, PastNumbered, Newer
<1>7. TaskNumbered'
  BY <1>1, <1>2 DEF IInv, Numbered, TaskNumbered, BeforeTake, BeforeCount, Newer
<1>8. Recent'  BY <1>1, <1>2 DEF Recent, EndOf, Ascending
<1>9. Introduced' /\ Paced'  BY <1>1 DEF IInv, Introduced, Paced
<1> QED  BY <1>3, <1>4, <1>5, <1>6, <1>7, <1>8, <1>9 DEF IInv, Numbered

\* PurgeMeta: the counter and the flag start anew, and so does the count of
\* intros and messages.
LEMMA PurgeMetaStep ==
    ASSUME IInv, PurgeMeta
    PROVE  IInv'
<1>1. /\ at = "purgingMeta" /\ at' = "dropping" /\ meta' = DefaultMeta /\ intros' = 0 /\ since' = 0
      /\ UNCHANGED <<proc, mem, snap, ctx, queue, task, heard, mailbox, again, chains, aiMode,
                     turns, torn>>
  BY DEF PurgeMeta, env, ratchets
<1>2. DefaultMeta \in Meta /\ DefaultMeta.greeted = FALSE /\ DefaultMeta.human = 0
  BY BoundsAreNatural DEF DefaultMeta, Meta, Ids
<1>3. ProcShape'  BY <1>1 DEF IInv, ProcShape, Places, BeforeTake, BeforeCount, AfterCount
<1>4. AccountShape'  BY <1>1 DEF IInv, AccountShape
<1>5. RowShape'  BY <1>1, <1>2 DEF IInv, RowShape
<1>6. QueueNumbered' /\ PastNumbered'
  BY <1>1 DEF IInv, Numbered, QueueNumbered, PastNumbered, Newer
<1>7. TaskNumbered'  BY <1>1 DEF IInv, Numbered, TaskNumbered, BeforeTake, Newer
<1>10. Recent'  BY <1>1 DEF IInv, Recent, Ascending
<1>11. Introduced' /\ Paced'  BY <1>1, <1>2 DEF IInv, Introduced, Paced
<1> QED
  BY <1>3, <1>4, <1>5, <1>6, <1>7, <1>10, <1>11 DEF IInv, Numbered

\* SendIntro: none was sent before.
LEMMA SendIntroStep ==
    ASSUME IInv, SendIntro
    PROVE  IInv'
<1>1. /\ at = "greeting" /\ at' = "greeted" /\ Sends /\ intros' = intros + 1
      /\ UNCHANGED <<proc, snap, ctx, meta, queue, task, heard, mailbox, again, aiMode,
                     turns, since, torn>>
  BY DEF SendIntro, env, durable
<1>2. ProcShape'  BY <1>1 DEF IInv, ProcShape, Places, BeforeTake, BeforeCount, AfterCount
<1>3. AccountShape'  BY <1>1, SendsAccount DEF IInv
<1>4. RowShape'  BY <1>1 DEF IInv, RowShape
<1>5. QueueNumbered' /\ PastNumbered'
  BY <1>1 DEF IInv, Numbered, QueueNumbered, PastNumbered, Newer
<1>6. TaskNumbered'  BY <1>1 DEF IInv, Numbered, TaskNumbered, BeforeTake, BeforeCount, Newer
<1>7. Recent' /\ Paced'  BY <1>1 DEF IInv, Recent, Ascending, Paced
<1>8. Introduced'
  <2>1. ~meta.greeted /\ (torn \/ intros = 0)  BY <1>1 DEF IInv, Introduced
  <2>2. torn \/ intros' = 1  BY <1>1, <2>1
  <2> QED  BY <1>1, <2>1, <2>2 DEF IInv, Introduced
<1> QED  BY <1>2, <1>3, <1>4, <1>5, <1>6, <1>7, <1>8 DEF IInv, Numbered

\* SaveGreeted: the intro is recorded.
LEMMA SaveGreetedStep ==
    ASSUME IInv, SaveGreeted
    PROVE  IInv'
<1>1. /\ at = "greeted" /\ at' = "greetedSaved" /\ meta' = [meta EXCEPT !.greeted = TRUE]
      /\ UNCHANGED <<proc, mem, snap, ctx, queue, task, heard, mailbox, again, chains, aiMode,
                     turns, intros, since, torn>>
  BY DEF SaveGreeted, env, history, ratchets
<1>2. meta \in Meta  BY DEF IInv, RowShape
<1>3. meta' \in Meta /\ meta'.greeted = TRUE /\ meta'.human = meta.human  BY <1>1, <1>2 DEF Meta
<1>4. ProcShape'  BY <1>1 DEF IInv, ProcShape, Places, BeforeTake, BeforeCount, AfterCount
<1>5. AccountShape'  BY <1>1 DEF IInv, AccountShape
<1>6. RowShape'  BY <1>1, <1>3 DEF IInv, RowShape
<1>7. QueueNumbered' /\ PastNumbered'
  BY <1>1, <1>3 DEF IInv, Numbered, QueueNumbered, PastNumbered, Newer
<1>8. TaskNumbered'  BY <1>1, <1>3 DEF IInv, Numbered, TaskNumbered, BeforeTake, BeforeCount, Newer
<1>9. Recent' /\ Paced'  BY <1>1, <1>3 DEF IInv, Recent, Ascending, Paced
<1>10. Introduced'  BY <1>1, <1>3 DEF IInv, Introduced
<1> QED  BY <1>4, <1>5, <1>6, <1>7, <1>8, <1>9, <1>10 DEF IInv, Numbered

\* One turn more, newer than the ones before or the agent's own.
LEMMA TurnRecorded ==
    ASSUME RowShape, Recent, NEW e \in Ids, ctx' \in Push(ctx, e), turns' = Append(turns, e),
           e \in again \cup {0} \/ Newer(e), UNCHANGED again
    PROVE  /\ ctx' \in Seq(Ids) /\ Len(ctx') <= Window /\ ctx' # <<>> /\ Last(ctx') = e
           /\ turns' \in Seq(Ids) /\ EndOf(ctx', turns') /\ Ascending(turns')
           /\ \A j \in DOMAIN turns' : turns'[j] = e \/ \E k \in DOMAIN turns : turns'[j] = turns[k]
<1>1. ctx \in Seq(Ids) /\ turns \in Seq(Ids) /\ EndOf(ctx, turns) /\ Ascending(turns)
  BY DEF RowShape, Recent
<1>2. /\ ctx' \in Seq(Ids) /\ Len(ctx') <= Window /\ ctx' # <<>> /\ Last(ctx') = e
      /\ EndOf(ctx', turns')
  BY <1>1, PushEnds
<1> DEFINE n == Len(turns)
<1>3. /\ turns' \in Seq(Ids) /\ DOMAIN turns' = 1 .. (n + 1) /\ DOMAIN turns = 1 .. n /\ n \in Nat
      /\ turns'[n + 1] = e /\ \A j \in 1 .. n : turns'[j] = turns[j]
  BY <1>1, Appended
<1> HIDE DEF n
<1>4. \A j \in DOMAIN turns' : j = n + 1 \/ j \in 1 .. n  BY <1>3
<1>5. Ascending(turns')
  <2> SUFFICES ASSUME NEW i \in DOMAIN turns', NEW j \in DOMAIN turns', i < j,
                      turns'[i] # 0, turns'[j] \notin again \cup {0}
               PROVE  turns'[i] < turns'[j]
    BY DEF Ascending
  <2>1. i \in 1 .. n  BY <1>3
  <2>2. CASE j = n + 1  BY <1>3, <2>1, <2>2 DEF Newer
  <2>3. CASE j \in 1 .. n  BY <1>1, <1>3, <2>1, <2>3 DEF Ascending
  <2> QED  BY <1>4, <2>2, <2>3
<1>6. \A j \in DOMAIN turns' : turns'[j] = e \/ \E k \in DOMAIN turns : turns'[j] = turns[k]
  BY <1>3, <1>4
<1> QED  BY <1>2, <1>3, <1>5, <1>6

\* Take: the message is newer than the turns recorded, older than the ones that
\* wait.
LEMMA TakeStep ==
    ASSUME IInv, Take
    PROVE  IInv'
<1>1. /\ at = "taking" /\ at' = "counting" /\ ctx' \in Push(ctx, task.id)
      /\ turns' = Append(turns, task.id) /\ since' = since + 1
      /\ UNCHANGED <<proc, mem, snap, meta, queue, task, heard, mailbox, again, chains, aiMode,
                     intros, torn>>
  BY DEF Take, env, ratchets
<1>2. task \in Task /\ task.id \in Ids /\ task.kind = "msg"  BY <1>1 DEF IInv, ProcShape, Task
<1>3. /\ task.id # 0 /\ task.id <= heard
      /\ \A i \in DOMAIN queue :
            queue[i].kind = "msg" /\ queue[i].id \notin again => task.id < queue[i].id
      /\ task.id \in again \cup {0} \/ Newer(task.id)
  BY <1>1, <1>2 DEF IInv, Numbered, TaskNumbered, BeforeTake, BeforeCount, Newer
<1>4. /\ ctx' \in Seq(Ids) /\ Len(ctx') <= Window /\ ctx' # <<>> /\ Last(ctx') = task.id
      /\ turns' \in Seq(Ids) /\ EndOf(ctx', turns') /\ Ascending(turns')
      /\ \A j \in DOMAIN turns' :
            turns'[j] = task.id \/ \E k \in DOMAIN turns : turns'[j] = turns[k]
  BY <1>1, <1>2, <1>3, TurnRecorded DEF IInv
<1>5. ProcShape'  BY <1>1 DEF IInv, ProcShape, Places, BeforeTake, BeforeCount, AfterCount
<1>6. AccountShape'  BY <1>1 DEF IInv, AccountShape
<1>7. RowShape'  BY <1>1, <1>4 DEF IInv, RowShape
<1>8. QueueNumbered'
  <2>1. QueueNumbered  BY DEF IInv, Numbered
  <2>2. ASSUME NEW i \in DOMAIN queue, queue[i].kind = "msg", queue[i].id \notin again,
               NEW j \in DOMAIN turns'
        PROVE  turns'[j] < queue[i].id
    BY <1>3, <1>4, <2>1, <2>2 DEF QueueNumbered, Newer
  <2> QED  BY <1>1, <2>1, <2>2 DEF QueueNumbered, Newer
<1>9. PastNumbered'
  <2>1. PastNumbered  BY DEF IInv, Numbered
  <2> QED  BY <1>1, <1>3, <1>4, <2>1 DEF PastNumbered
<1>10. TaskNumbered'  BY <1>1, <1>3 DEF TaskNumbered, BeforeTake
<1>11. Recent'  BY <1>1, <1>4 DEF Recent, Ascending
<1>12. Introduced'  BY <1>1 DEF IInv, Introduced
<1>13. Paced'
  <2>1. since \in Nat /\ meta.human \in Nat  BY DEF IInv, RowShape, Meta, Ids
  <2>2. torn \/ meta.human <= since  BY <1>1 DEF IInv, Paced
  <2>3. torn \/ meta.human < since'  BY <1>1, <2>1, <2>2
  <2>4. torn \/ meta.human <= since'  BY <1>1, <2>1, <2>2
  <2> QED  BY <1>1, <2>3, <2>4 DEF Paced
<1> QED
  BY <1>5, <1>6, <1>7, <1>8, <1>9, <1>10, <1>11, <1>12, <1>13 DEF IInv, Numbered

\* Count: no more than were recorded.
LEMMA CountStep ==
    ASSUME IInv, Count
    PROVE  IInv'
<1>1. /\ at = "counting" /\ meta' = [meta EXCEPT !.human = @ + 1]
      /\ at' = IF ShouldReply(meta.human + 1) THEN "asking" ELSE "saving"
      /\ UNCHANGED <<proc, mem, snap, ctx, queue, task, heard, mailbox, again, chains, aiMode,
                     turns, intros, since, torn>>
  BY DEF Count, env, history, ratchets
<1>2. task.id \in Ids /\ task.kind = "msg"  BY <1>1 DEF IInv, ProcShape, Task
<1>3. /\ task.id # 0 /\ task.id <= heard
      /\ \A i \in DOMAIN queue :
            queue[i].kind = "msg" /\ queue[i].id \notin again => task.id < queue[i].id
  BY <1>1, <1>2 DEF IInv, Numbered, TaskNumbered, BeforeTake, BeforeCount, Newer
<1>4. meta \in Meta /\ meta.human \in Nat  BY DEF IInv, RowShape, Meta
<1>5. meta.human + 1 \in Nat  BY <1>4
<1>6. meta' \in Meta /\ meta'.human = meta.human + 1 /\ meta'.greeted = meta.greeted
  BY <1>1, <1>4, <1>5 DEF Meta
<1>7. at' \in {"asking", "saving"}  BY <1>1
<1>8. ProcShape'
  BY <1>1, <1>2, <1>7 DEF IInv, ProcShape, Places, BeforeTake, BeforeCount, AfterCount
<1>9. AccountShape'  BY <1>1 DEF IInv, AccountShape
<1>10. RowShape'  BY <1>1, <1>6 DEF IInv, RowShape
<1>11. QueueNumbered' /\ PastNumbered'
  BY <1>1 DEF IInv, Numbered, QueueNumbered, PastNumbered, Newer
<1>13. TaskNumbered'  BY <1>1, <1>3, <1>7 DEF TaskNumbered, BeforeTake, BeforeCount
<1>14. Recent'  BY <1>1, <1>7 DEF IInv, Recent, Ascending
<1>15. Introduced'  BY <1>1, <1>6, <1>7 DEF IInv, Introduced
<1>16. Paced'
  <2>1. since \in Nat /\ meta.human \in Nat  BY <1>4 DEF IInv, RowShape
  <2>2. torn \/ meta.human < since  BY <1>1 DEF IInv, Paced
  <2>3. torn \/ meta'.human <= since  BY <1>6, <2>1, <2>2
  <2>4. at' = "asking" /\ ~task.mentioned => meta'.human >= CapN  BY <1>1, <1>6 DEF ShouldReply
  <2> QED  BY <1>1, <1>7, <2>3, <2>4 DEF Paced
<1> QED
  BY <1>8, <1>9, <1>10, <1>11, <1>13, <1>14, <1>15, <1>16 DEF IInv, Numbered

\* SendReply: from here to the reset the counter is ahead.
LEMMA SendReplyStep ==
    ASSUME IInv, SendReply
    PROVE  IInv'
<1>1. /\ at = "replying" /\ at' = "replied" /\ Sends /\ since' = 0
      /\ UNCHANGED <<proc, snap, ctx, meta, queue, task, heard, mailbox, again, aiMode,
                     turns, intros, torn>>
  BY DEF SendReply, env, durable
<1>2. ProcShape'  BY <1>1 DEF IInv, ProcShape, Places, BeforeTake, BeforeCount, AfterCount
<1>3. AccountShape'  BY <1>1, SendsAccount DEF IInv
<1>4. RowShape'  BY <1>1 DEF IInv, RowShape
<1>5. QueueNumbered' /\ PastNumbered'
  BY <1>1 DEF IInv, Numbered, QueueNumbered, PastNumbered, Newer
<1>6. TaskNumbered'  BY <1>1 DEF IInv, Numbered, TaskNumbered, BeforeTake, BeforeCount, Newer
<1>7. Recent' /\ Introduced' /\ Paced'  BY <1>1 DEF IInv, Recent, Ascending, Introduced, Paced
<1> QED  BY <1>2, <1>3, <1>4, <1>5, <1>6, <1>7 DEF IInv, Numbered

\* RecordReply: the agent's own turn has no number.
LEMMA RecordReplyStep ==
    ASSUME IInv, RecordReply
    PROVE  IInv'
<1>1. /\ at = "replied" /\ at' = "resetting" /\ ctx' \in Push(ctx, 0) /\ turns' = Append(turns, 0)
      /\ UNCHANGED <<proc, mem, snap, meta, queue, task, heard, mailbox, again, chains, aiMode,
                     intros, since, torn>>
  BY DEF RecordReply, env, ratchets
<1>2. 0 \in Ids /\ heard \in Ids
  BY BoundsAreNatural DEF IInv, RowShape, Meta, Ids
<1>3. /\ ctx' \in Seq(Ids) /\ Len(ctx') <= Window /\ ctx' # <<>>
      /\ turns' \in Seq(Ids) /\ EndOf(ctx', turns') /\ Ascending(turns')
      /\ \A j \in DOMAIN turns' : turns'[j] = 0 \/ \E k \in DOMAIN turns : turns'[j] = turns[k]
  BY <1>1, <1>2, TurnRecorded DEF IInv
<1>4. ProcShape'  BY <1>1 DEF IInv, ProcShape, Places, BeforeTake, BeforeCount, AfterCount
<1>5. AccountShape'  BY <1>1 DEF IInv, AccountShape
<1>6. RowShape'  BY <1>1, <1>3 DEF IInv, RowShape
<1>7. QueueNumbered'
  <2>1. QueueNumbered  BY DEF IInv, Numbered
  <2>2. \A i \in DOMAIN queue : queue[i].id \in Ids  BY QueueTyped DEF IInv
  <2>3. ASSUME NEW i \in DOMAIN queue, queue[i].kind = "msg", queue[i].id \notin again,
               NEW j \in DOMAIN turns'
        PROVE  turns'[j] < queue[i].id
    <3>1. 0 < queue[i].id  BY <1>2, <2>1, <2>2, <2>3 DEF QueueNumbered, Newer, Ids
    <3> QED  BY <1>3, <2>1, <2>3, <3>1 DEF QueueNumbered, Newer
  <2> QED  BY <1>1, <2>1, <2>3 DEF QueueNumbered, Newer
<1>8. PastNumbered'
  <2>1. PastNumbered /\ 0 <= heard  BY <1>2 DEF IInv, Numbered, Ids
  <2> QED  BY <1>1, <1>3, <2>1 DEF PastNumbered
<1>9. TaskNumbered'  BY <1>1 DEF IInv, Numbered, TaskNumbered, BeforeTake, BeforeCount, Newer
<1>10. Recent'  BY <1>1, <1>3 DEF Recent, Ascending
<1>11. Introduced' /\ Paced'  BY <1>1 DEF IInv, Introduced, Paced
<1> QED  BY <1>4, <1>5, <1>6, <1>7, <1>8, <1>9, <1>10, <1>11 DEF IInv, Numbered

\* ResetCounter.
LEMMA ResetCounterStep ==
    ASSUME IInv, ResetCounter
    PROVE  IInv'
<1>1. /\ at = "resetting" /\ at' = "saving" /\ meta' = [meta EXCEPT !.human = 0]
      /\ UNCHANGED <<proc, mem, snap, ctx, queue, task, heard, mailbox, again, chains, aiMode,
                     turns, intros, since, torn>>
  BY DEF ResetCounter, env, history, ratchets
<1>2. meta \in Meta /\ since \in Nat  BY DEF IInv, RowShape
<1>3. meta' \in Meta /\ meta'.human = 0 /\ meta'.greeted = meta.greeted  BY <1>1, <1>2 DEF Meta
<1>4. ProcShape'  BY <1>1 DEF IInv, ProcShape, Places, BeforeTake, BeforeCount, AfterCount
<1>5. AccountShape'  BY <1>1 DEF IInv, AccountShape
<1>6. RowShape'  BY <1>1, <1>3 DEF IInv, RowShape
<1>7. QueueNumbered' /\ PastNumbered'
  BY <1>1 DEF IInv, Numbered, QueueNumbered, PastNumbered, Newer
<1>9. TaskNumbered'  BY <1>1 DEF IInv, Numbered, TaskNumbered, BeforeTake, BeforeCount, Newer
<1>10. Recent' /\ Introduced'  BY <1>1, <1>3 DEF IInv, Recent, Ascending, Introduced
<1>11. Paced'
  <2>1. meta'.human <= since'  BY <1>1, <1>2, <1>3
  <2> QED  BY <1>1, <2>1 DEF Paced
<1> QED  BY <1>4, <1>5, <1>6, <1>7, <1>9, <1>10, <1>11 DEF IInv, Numbered

---------------------------------------------------------------------------
(***************************************************************************)
(* The world, crash and boot                                               *)
(***************************************************************************)

\* The turns recorded are numbers.
LEMMA TurnsTyped ==
    ASSUME RowShape
    PROVE  \A j \in DOMAIN turns : turns[j] \in Ids
<1>1. turns \in Seq(Ids)  BY DEF RowShape
<1>2. DOMAIN turns = 1 .. Len(turns)  BY <1>1, LenProperties
<1> QED  BY <1>1, <1>2, ElementOfSeq

\* A task more in the queue, in order with what is there or delivered again.
LEMMA QueueGrows ==
    ASSUME IInv, NEW k \in Task, queue' = Append(queue, k), proc = "up", AccountShape',
           heard' \in Ids, heard <= heard',
           k.kind = "msg" => /\ k.id # 0 /\ k.id <= heard'
                             /\ k.id \in again \/ k.id = heard + 1,
           UNCHANGED <<proc, again, task, at, ctx, meta, turns, intros, since, torn>>
    PROVE  IInv'
<1> DEFINE n == Len(queue)
<1>1. /\ queue' \in Seq(Task) /\ DOMAIN queue' = 1 .. (n + 1) /\ DOMAIN queue = 1 .. n /\ n \in Nat
      /\ queue'[n + 1] = k /\ \A i \in 1 .. n : queue'[i] = queue[i]
  BY Appended DEF IInv, ProcShape
<1> HIDE DEF n
<1>2. \A i \in DOMAIN queue' : i = n + 1 \/ i \in 1 .. n  BY <1>1
<1>3. heard \in Ids  BY DEF IInv, RowShape
<1>4. QueueNumbered /\ PastNumbered /\ TaskNumbered  BY DEF IInv, Numbered
<1>5. \A j \in DOMAIN turns : turns[j] \in Ids  BY TurnsTyped DEF IInv
<1>6. \A i \in 1 .. n : queue[i].id \in Ids  BY <1>1, QueueTyped DEF IInv
<1>7. ProcShape'  BY <1>1 DEF IInv, ProcShape
<1>8. RowShape'  BY DEF IInv, RowShape
<1>9. QueueNumbered'
  <2>1. ASSUME NEW i \in DOMAIN queue', queue'[i].kind = "msg"
        PROVE  /\ queue'[i].id # 0 /\ queue'[i].id <= heard'
               /\ queue'[i].id \notin again => Newer(queue'[i].id)
    <3>1. CASE i = n + 1
      <4>1. queue'[i] = k  BY <1>1, <3>1
      <4>2. Newer(heard + 1)  BY <1>3, <1>4, <1>5 DEF PastNumbered, Newer, Ids
      <4> QED  BY <2>1, <4>1, <4>2
    <3>2. CASE i \in 1 .. n
      <4>1. /\ queue'[i] = queue[i] /\ queue[i].id # 0 /\ queue[i].id <= heard
            /\ queue[i].id \notin again => Newer(queue[i].id)
        BY <1>1, <1>4, <2>1, <3>2 DEF QueueNumbered
      <4>2. queue[i].id <= heard'  BY <1>3, <1>6, <3>2, <4>1 DEF Ids
      <4> QED  BY <4>1, <4>2
    <3> QED  BY <1>2, <3>1, <3>2
  <2>2. ASSUME NEW i \in DOMAIN queue', NEW j \in DOMAIN queue', i < j,
               queue'[i].kind = "msg", queue'[j].kind = "msg", queue'[j].id \notin again
        PROVE  queue'[i].id < queue'[j].id
    <3>1. i \in 1 .. n  BY <1>1, <2>2
    <3>2. CASE j = n + 1
      <4>1. queue'[j].id = heard + 1 /\ queue'[i] = queue[i]  BY <1>1, <2>2, <3>1, <3>2
      <4>2. queue[i].id <= heard  BY <1>1, <1>4, <2>2, <3>1, <4>1 DEF QueueNumbered
      <4> QED  BY <1>3, <1>6, <3>1, <4>1, <4>2 DEF Ids
    <3>3. CASE j \in 1 .. n  BY <1>1, <1>4, <2>2, <3>1, <3>3 DEF QueueNumbered
    <3> QED  BY <1>2, <3>2, <3>3
  <2> QED  BY <2>1, <2>2 DEF QueueNumbered, Newer
<1>10. PastNumbered'
  <2>1. \A j \in DOMAIN turns : turns[j] <= heard'  BY <1>3, <1>4, <1>5 DEF PastNumbered, Ids
  <2> QED  BY <2>1 DEF PastNumbered
<1>11. TaskNumbered'
  <2> SUFFICES ASSUME at # "idle", task.kind = "msg"
               PROVE  /\ task.id <= heard'
                      /\ \A i \in DOMAIN queue' :
                            queue'[i].kind = "msg" /\ queue'[i].id \notin again
                            => task.id < queue'[i].id
    BY <1>4 DEF TaskNumbered, Newer
  <2>1. /\ task.id <= heard /\ task.id \in Ids
        /\ \A i \in DOMAIN queue :
              queue[i].kind = "msg" /\ queue[i].id \notin again => task.id < queue[i].id
    BY <1>4 DEF TaskNumbered, IInv, ProcShape, Task
  <2>2. task.id <= heard' /\ task.id < heard + 1  BY <1>3, <2>1 DEF Ids
  <2>3. ASSUME NEW i \in DOMAIN queue', queue'[i].kind = "msg", queue'[i].id \notin again
        PROVE  task.id < queue'[i].id
    <3>1. CASE i = n + 1  BY <1>1, <2>2, <2>3, <3>1
    <3>2. CASE i \in 1 .. n  BY <1>1, <2>1, <2>3, <3>2
    <3> QED  BY <1>2, <3>1, <3>2
  <2> QED  BY <2>2, <2>3
<1>12. Recent' /\ Introduced' /\ Paced'  BY DEF IInv, Recent, Ascending, Introduced, Paced
<1> QED  BY <1>7, <1>8, <1>9, <1>10, <1>11, <1>12 DEF IInv, Numbered

\* What a delivered message is, and what it does to the account and the mailbox.
LEMMA Delivered ==
    ASSUME IInv, Receive
    PROVE  \E msg \in Task :
              /\ msg.kind = "msg" /\ msg.id # 0 /\ msg.id <= heard' /\ heard' \in Ids
              /\ heard <= heard' /\ (msg.id \in again \/ msg.id = heard + 1)
              /\ queue' = IF proc = "up" THEN Append(queue, msg) ELSE queue
              /\ AccountShape'
<1>1. heard \in Ids /\ MaxMessages \in Nat /\ AccountShape  BY BoundsAreNatural DEF IInv, RowShape
<1>2. PICK msg \in Deliverable :
         /\ heard' = IF msg \in mailbox THEN heard ELSE heard + 1
         /\ mailbox' \in {mailbox \ {msg}, mailbox \cup {msg}}
         /\ \/ mem' = [mem EXCEPT !.seen = @ \cup {msg.id}] /\ UNCHANGED chains
            \/ /\ chains' = chains + 1
               /\ mem' = [mem EXCEPT !.seen = @ \cup {msg.id}, !.key = chains + 1, !.out = 0]
         /\ queue' = IF proc = "up" THEN Append(queue, msg) ELSE queue
  BY DEF Receive
<1>3. UNCHANGED <<snap, aiMode, again>>  BY DEF Receive, durable
<1>4. /\ mem \in Account /\ snap \in Account /\ snap.seen \subseteq mem.seen
      /\ aiMode \in BOOLEAN /\ chains \in Nat
      /\ mailbox \subseteq [kind : {"msg"}, id : 1 .. heard, mentioned : BOOLEAN]
      /\ \A t \in mailbox : t.id \in mem.seen \cup again
  BY <1>1 DEF AccountShape
<1>5. /\ msg \in [kind : {"msg"}, id : 1 .. heard', mentioned : BOOLEAN]
      /\ heard' \in Ids /\ heard <= heard' /\ (msg.id \in again \/ msg.id = heard + 1)
  <2>1. CASE msg \in mailbox
    <3>1. msg.id \in 1 .. heard /\ heard' = heard  BY <1>2, <1>4, <2>1
    <3>2. msg.id # heard + 1  BY <1>1, <3>1 DEF Ids
    <3>3. msg.id \notin mem.seen  BY <1>2, <2>1, <3>2 DEF Deliverable
    <3>4. msg.id \in again  BY <1>4, <2>1, <3>3
    <3> QED  BY <1>1, <1>4, <2>1, <3>1, <3>4 DEF Ids
  <2>2. CASE msg \notin mailbox
    <3>1. /\ msg \in [kind : {"msg"}, id : {heard + 1} \cap 1 .. MaxMessages, mentioned : BOOLEAN]
          /\ heard' = heard + 1
      BY <1>2, <2>2 DEF Deliverable
    <3>2. msg.id = heard + 1 /\ msg.id \in 1 .. MaxMessages  BY <3>1
    <3>3. heard' \in Ids /\ heard <= heard' /\ heard + 1 \in 1 .. heard'
      BY <1>1, <3>1, <3>2 DEF Ids
    <3> QED  BY <3>1, <3>2, <3>3
  <2> QED  BY <2>1, <2>2
<1>6. msg.id \in 1 .. MaxMessages /\ msg.id # 0 /\ msg.id <= heard' /\ msg.kind = "msg" /\ msg \in Task
  <2>1. msg.id \in 1 .. heard' /\ msg.kind = "msg" /\ msg.mentioned \in BOOLEAN  BY <1>5
  <2>2. msg.id \in 1 .. MaxMessages /\ msg.id \in Ids /\ msg.id # 0 /\ msg.id <= heard'
    BY <1>1, <1>5, <2>1 DEF Ids
  <2>3. msg = [kind |-> msg.kind, id |-> msg.id, mentioned |-> msg.mentioned]  BY <1>5
  <2> QED  BY <2>1, <2>2, <2>3 DEF Task
<1>7. mem' \in Account /\ mem'.seen = mem.seen \cup {msg.id} /\ chains' \in Nat
  <2>1. mem.seen \cup {msg.id} \in SUBSET (1 .. MaxMessages)  BY <1>4, <1>6 DEF Account
  <2>2. CASE mem' = [mem EXCEPT !.seen = @ \cup {msg.id}] /\ UNCHANGED chains
    BY <1>4, <2>1, <2>2 DEF Account
  <2>3. CASE /\ chains' = chains + 1
             /\ mem' = [mem EXCEPT !.seen = @ \cup {msg.id}, !.key = chains + 1, !.out = 0]
    <3>1. chains + 1 \in Nat /\ 0 \in Nat  BY <1>4
    <3> DEFINE z == mem.seen \cup {msg.id}
    <3>2. mem' = [mem EXCEPT !.seen = z, !.key = chains + 1, !.out = 0]  BY <2>3
    <3>3. z \in SUBSET (1 .. MaxMessages)  BY <2>1
    <3> HIDE DEF z
    <3>4. mem' \in Account /\ mem'.seen = z  BY <1>4, <3>1, <3>2, <3>3 DEF Account
    <3> QED  BY <2>3, <3>1, <3>4 DEF z
  <2> QED  BY <1>2, <2>2, <2>3
<1>8. mailbox' \subseteq [kind : {"msg"}, id : 1 .. heard', mentioned : BOOLEAN]
  <2>1. 1 .. heard \subseteq 1 .. heard'  BY <1>1, <1>5 DEF Ids
  <2>2. mailbox \subseteq [kind : {"msg"}, id : 1 .. heard', mentioned : BOOLEAN]  BY <1>4, <2>1
  <2> QED  BY <1>2, <1>5, <2>2
<1>9. \A t \in mailbox' : t.id \in mem'.seen \cup again  BY <1>2, <1>4, <1>7
<1>10. AccountShape'  BY <1>3, <1>4, <1>7, <1>8, <1>9 DEF AccountShape
<1> QED  BY <1>2, <1>5, <1>6, <1>10

\* Receive and Sweep.
LEMMA QueueStep ==
    ASSUME IInv, Receive \/ Sweep
    PROVE  IInv'
<1>1. heard \in Ids /\ MaxMessages \in Nat  BY BoundsAreNatural DEF IInv, RowShape
<1>2. ASSUME Receive PROVE IInv'
  <2>1. UNCHANGED <<proc, again, task, at, ctx, meta, turns, intros, since, torn>>
    BY <1>2 DEF Receive, durable
  <2>2. PICK msg \in Task :
           /\ msg.kind = "msg" /\ msg.id # 0 /\ msg.id <= heard' /\ heard' \in Ids
           /\ heard <= heard' /\ (msg.id \in again \/ msg.id = heard + 1)
           /\ queue' = IF proc = "up" THEN Append(queue, msg) ELSE queue
           /\ AccountShape'
    BY <1>2, Delivered
  <2>3. CASE proc = "up"
    <3>1. queue' = Append(queue, msg)  BY <2>2, <2>3
    <3> QED  BY <2>1, <2>2, <2>3, <3>1, QueueGrows
  <2>4. CASE proc # "up"
    <3>1. queue' = queue /\ at = "idle" /\ queue = <<>>
      BY <2>2, <2>4 DEF IInv, ProcShape
    <3>2. DOMAIN queue = {} /\ DOMAIN queue' = {}  BY <3>1
    <3>3. ProcShape' /\ RowShape'
      BY <2>1, <2>2, <3>1 DEF IInv, ProcShape, RowShape
    <3>4. QueueNumbered' /\ TaskNumbered'
      BY <2>1, <3>1, <3>2 DEF QueueNumbered, TaskNumbered
    <3>5. PastNumbered'
      <4>1. \A j \in DOMAIN turns : turns[j] \in Ids  BY TurnsTyped DEF IInv
      <4>2. \A j \in DOMAIN turns : turns[j] <= heard'
        BY <1>1, <2>2, <4>1 DEF IInv, Numbered, PastNumbered, Ids
      <4> QED  BY <2>1, <4>2 DEF PastNumbered
    <3>6. Recent' /\ Introduced' /\ Paced'
      BY <2>1 DEF IInv, Recent, Ascending, Introduced, Paced
    <3> QED  BY <2>2, <3>3, <3>4, <3>5, <3>6 DEF IInv, Numbered
  <2> QED  BY <2>3, <2>4
<1>3. ASSUME Sweep PROVE IInv'
  <2>1. /\ proc = "up" /\ queue' = Append(queue, Check) /\ heard' = heard
        /\ UNCHANGED <<proc, again, task, at, ctx, meta, turns, intros, since, torn>>
        /\ UNCHANGED <<mem, snap, aiMode, chains, mailbox>>
    BY <1>3 DEF Sweep, durable, env, history, ratchets
  <2>2. Check \in Task /\ Check.kind # "msg"  BY <1>1 DEF Check, Task, Ids
  <2>3. heard' \in Ids /\ heard <= heard'  BY <1>1, <2>1 DEF Ids
  <2>4. AccountShape'  BY <2>1 DEF IInv, AccountShape
  <2> QED  BY <2>1, <2>2, <2>3, <2>4, QueueGrows
<1> QED  BY <1>2, <1>3

\* OpsArrive, ChangeConversation and Boot leave all but the account alone.
LEMMA WorldStep ==
    ASSUME IInv, OpsArrive \/ ChangeConversation \/ Boot
    PROVE  IInv'
<1>1. Rest /\ AccountShape  BY DEF IInv, Rest
<1>2. /\ UNCHANGED <<queue, task, at, ctx, meta, heard, again, turns, intros, since, torn, snap>>
      /\ UNCHANGED <<mailbox, chains>>
      /\ proc' = proc \/ (proc = "down" /\ proc' = "booting")
  BY DEF OpsArrive, ChangeConversation, Boot, durable, env, history, ratchets
<1>3. ProcShape'  BY <1>1, <1>2 DEF Rest, ProcShape
<1>4. AccountShape'
  <2>1. mem \in Account /\ snap \in Account /\ snap.seen \subseteq mem.seen /\ aiMode \in BOOLEAN
        /\ chains \in Nat
    BY <1>1 DEF AccountShape
  <2>2. CASE OpsArrive
    <3>1. PICK fold \in {"without", "with"} : mem' = [mem EXCEPT !.known = TRUE, !.chain = fold]
      BY <2>2 DEF OpsArrive
    <3>2. mem' \in Account /\ mem'.seen = mem.seen  BY <2>1, <3>1 DEF Account
    <3>3. aiMode' = aiMode  BY <2>2 DEF OpsArrive, env
    <3> QED  BY <1>1, <1>2, <2>1, <3>2, <3>3, AccountKept
  <2>3. CASE ChangeConversation
    <3>1. \/ mem' = mem /\ aiMode' \in {aiMode, ~aiMode}
          \/ mem' = [mem EXCEPT !.chain = "without"] /\ aiMode' = aiMode
      BY <2>3 DEF ChangeConversation
    <3>2. aiMode' \in BOOLEAN  BY <2>1, <3>1
    <3>3. mem' \in Account /\ mem'.seen = mem.seen  BY <2>1, <3>1 DEF Account
    <3> QED  BY <1>1, <1>2, <2>1, <3>2, <3>3, AccountKept
  <2>4. CASE Boot
    <3>1. UNCHANGED <<mem, aiMode>>  BY <2>4 DEF Boot, env
    <3> QED  BY <1>1, <1>2, <2>1, <3>1, AccountKept
  <2> QED  BY <2>2, <2>3, <2>4
<1> QED  BY <1>1, <1>2, <1>3, <1>4, Stays DEF IInv, Rest

\* Crash: what a send owed to its row is owed for good.
LEMMA CrashStep ==
    ASSUME IInv, Crash
    PROVE  IInv'
<1>1. /\ proc' = "down" /\ mem' = snap /\ queue' = <<>> /\ at' = "idle"
      /\ torn' = (torn \/ at \in {"greeted", "replied", "resetting"}) /\ task' = Check
      /\ again' = again \cup {t.id : t \in {u \in mailbox : u.id \notin snap.seen}}
      /\ UNCHANGED <<snap, ctx, meta, heard, mailbox, chains, aiMode, turns, intros, since>>
  BY DEF Crash, durable, env, history, ratchets
<1>2. <<>> \in Seq(Task) /\ DOMAIN <<>> = {}  OBVIOUS
<1>3. ProcShape'
  <2>1. Check \in Task  BY BoundsAreNatural DEF Check, Task, Ids
  <2> QED  BY <1>1, <1>2, <2>1 DEF IInv, ProcShape, Places, AfterCount
<1>4. AccountShape'
  <2>1. AccountShape  BY DEF IInv
  <2>2. \A t \in mailbox : t.id \in snap.seen \cup again'  BY <1>1
  <2> QED  BY <1>1, <2>1, <2>2 DEF AccountShape
<1>5. RowShape'  BY <1>1 DEF IInv, RowShape
<1>6. QueueNumbered' /\ TaskNumbered'  BY <1>1, <1>2 DEF QueueNumbered, TaskNumbered
<1>7. PastNumbered'  BY <1>1 DEF IInv, Numbered, PastNumbered
<1>8. Recent'
  <2>1. again \subseteq again'  BY <1>1
  <2> QED  BY <1>1, <2>1 DEF IInv, Recent, Ascending
<1>9. torn \in BOOLEAN /\ torn' \in BOOLEAN /\ (~torn' => ~torn)
      /\ (~torn' => at \notin {"greeted", "replied", "resetting"})
  BY <1>1 DEF IInv, Introduced
<1>10. Introduced'  BY <1>1, <1>9 DEF IInv, Introduced
<1>11. Paced'  BY <1>1, <1>9 DEF IInv, Paced
<1> QED  BY <1>3, <1>4, <1>5, <1>6, <1>7, <1>8, <1>10, <1>11 DEF IInv, Numbered

\* Wire: the first task is a reconcile.
LEMMA WireStep ==
    ASSUME IInv, Wire
    PROVE  IInv'
<1>1. /\ proc = "booting" /\ proc' = "up" /\ queue' \in {<<Check>>, <<>>}
      /\ UNCHANGED <<mem, snap, aiMode, ctx, meta, task, at, heard, mailbox, again, chains, turns,
                     intros, since, torn>>
  BY DEF Wire, durable, env, history, ratchets
<1>2. at = "idle"  BY <1>1 DEF IInv, ProcShape
<1>3. Check \in Task /\ Check.kind # "msg"  BY BoundsAreNatural DEF Check, Task, Ids
<1>4. queue' \in Seq(Task) /\ \A i \in DOMAIN queue' : queue'[i].kind # "msg"
  <2> DEFINE k == Check
  <2> HIDE DEF k
  <2>1. k \in Task /\ k.kind # "msg" /\ queue' \in {<<k>>, <<>>}  BY <1>1, <1>3 DEF k
  <2>2. <<k>> \in Seq(Task) /\ DOMAIN <<k>> = {1} /\ <<k>>[1] = k  BY <2>1
  <2>3. <<>> \in Seq(Task) /\ DOMAIN <<>> = {}  OBVIOUS
  <2> QED  BY <2>1, <2>2, <2>3
<1>5. ProcShape'  BY <1>1, <1>2, <1>4 DEF IInv, ProcShape
<1>6. AccountShape' /\ RowShape'  BY <1>1 DEF IInv, AccountShape, RowShape
<1>7. QueueNumbered' /\ TaskNumbered'  BY <1>1, <1>2, <1>4 DEF QueueNumbered, TaskNumbered
<1>8. PastNumbered'  BY <1>1 DEF IInv, Numbered, PastNumbered
<1>9. Recent' /\ Introduced' /\ Paced'  BY <1>1 DEF IInv, Recent, Ascending, Introduced, Paced
<1> QED  BY <1>5, <1>6, <1>7, <1>8, <1>9 DEF IInv, Numbered

---------------------------------------------------------------------------
(***************************************************************************)
(* The theorems                                                            *)
(***************************************************************************)

\* The agent starts with nothing recorded.
LEMMA InitInv == Init => IInv
<1> SUFFICES ASSUME Init PROVE IInv  OBVIOUS
<1> USE DEF Init
<1>1. 0 \in Ids /\ <<>> \in Seq(Ids) /\ <<>> \in Seq(Task) /\ DOMAIN <<>> = {} /\ Len(<<>>) = 0
  BY BoundsAreNatural DEF Ids
<1>2. ProcShape
  BY <1>1 DEF ProcShape, Places, BeforeTake, BeforeCount, AfterCount, Check, Task
<1>3. AccountShape
  <2>1. NewAccount \in Account /\ NewAccount.seen = {}  BY DEF NewAccount, Account
  <2>2. aiMode \in BOOLEAN  BY ModesAreModes
  <2> QED  BY <2>1, <2>2 DEF AccountShape
<1>4. RowShape  BY <1>1, LimitsArePositive DEF RowShape, DefaultMeta, Meta
<1>5. Numbered
  BY <1>1 DEF Numbered, QueueNumbered, TaskNumbered, PastNumbered, DefaultMeta
<1>6. Recent  BY <1>1 DEF Recent, EndOf, Ascending
<1>7. Introduced /\ Paced
  <2>1. DefaultMeta.human = 0 /\ DefaultMeta.greeted = FALSE  BY DEF DefaultMeta
  <2>2. meta.human <= since /\ intros <= 1 /\ intros = 0  BY <2>1
  <2> QED  BY <2>2 DEF Introduced, Paced
<1> QED  BY <1>2, <1>3, <1>4, <1>5, <1>6, <1>7 DEF IInv

\* Every step keeps the invariant.
LEMMA Invariance == Spec => []IInv
<1>1. ASSUME IInv, [Next]_vars PROVE IInv'
  <2>1. CASE TaskStep
    BY <1>1, <2>1, QuietStep, StartStep, PurgeContextStep, PurgeMetaStep, SendIntroStep,
       SaveGreetedStep, TakeStep, CountStep, SendReplyStep, RecordReplyStep, ResetCounterStep
       DEF TaskStep
  <2>2. CASE UNCHANGED vars
    <3>1. ProcShape' /\ AccountShape' /\ RowShape'
      BY <1>1, <2>2 DEF vars, durable, env, history, ratchets, IInv, ProcShape, AccountShape, RowShape
    <3>2. UNCHANGED <<queue, task, at, ctx, meta, heard, again, turns, intros, since, torn>>
      BY <2>2 DEF vars, durable, env, history, ratchets
    <3> QED  BY <1>1, <3>1, <3>2, Stays DEF IInv, Rest
  <2> QED
    BY <1>1, <2>1, <2>2, QueueStep, WorldStep, CrashStep, WireStep DEF Next
<1> QED  BY <1>1, InitInv, PTL DEF Spec

\* The state has its shape, and the persisted account remembers no more than the
\* one in memory.
THEOREM AgentTypes == Spec => []TypeOK
<1>1. IInv => TypeOK
  BY DEF IInv, ProcShape, AccountShape, RowShape, TypeOK, Places, BeforeTake, BeforeCount,
         AfterCount, Ids, Meta
<1> QED  BY <1>1, Invariance, PTL

\* One intro per stay, over crashes and restarts, unless one falls between the
\* send and its row (maybeSendIntro, agent.ts).
THEOREM OneIntro == Spec => []IntroOnce
<1>1. IInv => IntroOnce  BY DEF IInv, Introduced, IntroOnce
<1> QED  BY <1>1, Invariance, PTL

\* What the LLM is shown is the latest turns of the stay, ending with the message
\* to answer; each message once and in order, but for those delivered again after
\* a crash has undone their receipt (onMessage, appendContext, and safeAck and
\* seenMsgIds of the client).
THEOREM WindowRecent == Spec => []WindowIsRecentPast
<1>1. ASSUME IInv PROVE WindowIsRecentPast
  <2>1. ctx \in Seq(Ids) /\ turns \in Seq(Ids)  BY <1>1 DEF IInv, RowShape
  <2>2. IsSuffix(ctx, turns)  BY <1>1, <2>1, EndIsSuffix DEF IInv, Recent
  <2>3. /\ ctx = <<>> => turns = <<>>
        /\ \A i, j \in DOMAIN turns :
              i < j /\ turns[i] # 0 /\ turns[j] \notin again \cup {0} => turns[i] < turns[j]
        /\ at \in {"asking", "replying"} => Last(ctx) = task.id
    BY <1>1 DEF IInv, Recent, Ascending
  <2> QED  BY <2>2, <2>3 DEF WindowIsRecentPast
<1> QED  BY <1>1, Invariance, PTL

\* An unprompted reply waits for its cap of messages since the last one, however
\* tasks fail and the process restarts (the mode engine of onMessage).
THEOREM RepliesArePaced == Spec => CadenceKept
<1> DEFINE A == at = "replying" /\ at' = "replied" /\ ~task.mentioned => since >= CapN \/ torn
<1>1. ASSUME IInv PROVE A
  <2> SUFFICES ASSUME at = "replying", ~task.mentioned, ~torn PROVE since >= CapN  OBVIOUS
  <2>1. meta.human >= CapN /\ meta.human <= since  BY <1>1 DEF IInv, Paced
  <2>2. meta.human \in Nat /\ since \in Nat /\ CapN \in Nat
    BY <1>1, LimitsArePositive DEF IInv, RowShape, Meta, Ids
  <2> QED  BY <2>1, <2>2
<1>2. IInv /\ [Next]_vars => [A]_vars  BY <1>1
<1> QED  BY <1>2, Invariance, PTL DEF Spec, CadenceKept

---------------------------------------------------------------------------
(***************************************************************************)
(* What the crash between a send and the snapshot does, no other does      *)
(***************************************************************************)

\* A message has been sent, maybe, and the account not been saved since.
Unsaved == {"greeted", "greetedSaved", "replied", "resetting", "saving"}

\* Everything sent on the account's sending chain is behind its position.
Behind(account) ==
    account.key <= chains /\ \A p \in used : p[1] = account.key => p[2] < account.out

\* Everything sent is behind the ratchet, and elsewhere behind the saved one too.
SentIsSaved ==
    /\ used \subseteq (1 .. chains) \X Nat
    /\ Behind(mem) /\ snap.key <= chains /\ (at \notin Unsaved => Behind(snap))
    /\ reused = FALSE /\ torn = FALSE

\* A crash of the process elsewhere.
CrashElsewhere == Crash => at \notin Unsaved

\* What is behind an account stays behind it, while no more is sent.
LEMMA StillBehind ==
    ASSUME AccountShape, SentIsSaved, NEW a \in Account, Behind(a), UNCHANGED used,
           chains' \in Nat, chains <= chains', NEW b \in Account,
           \/ b.key = a.key /\ a.out <= b.out
           \/ b.key = chains + 1 /\ chains' = chains + 1
    PROVE  b.key <= chains' /\ \A p \in used' : p[1] = b.key => p[2] < b.out
<1>1. chains \in Nat /\ used \subseteq (1 .. chains) \X Nat  BY DEF AccountShape, SentIsSaved
<1>2. a.key \in Nat /\ a.out \in Nat /\ b.key \in Nat /\ b.out \in Nat  BY DEF Account
<1>3. \A p \in used : p[1] \in 1 .. chains /\ p[2] \in Nat  BY <1>1
<1>4. CASE b.key = a.key /\ a.out <= b.out
  BY <1>1, <1>2, <1>3, <1>4 DEF Behind
<1>5. CASE b.key = chains + 1 /\ chains' = chains + 1
  <2>1. \A p \in used : p[1] # b.key  BY <1>1, <1>3, <1>5
  <2> QED  BY <1>1, <1>5, <2>1
<1> QED  BY <1>4, <1>5

\* Steps that send nothing and lose no position keep it.
LEMMA NothingSent ==
    ASSUME AccountShape, AccountShape', SentIsSaved, UNCHANGED <<used, reused, torn>>,
           chains <= chains',
           \/ mem'.key = mem.key /\ mem.out <= mem'.out
           \/ mem'.key = chains + 1 /\ chains' = chains + 1,
           snap' = mem' \/ (UNCHANGED snap /\ (at' \in Unsaved \/ at \notin Unsaved))
    PROVE  SentIsSaved'
<1>1. /\ mem \in Account /\ snap \in Account /\ mem' \in Account /\ snap' \in Account
      /\ chains \in Nat /\ chains' \in Nat
  BY DEF AccountShape
<1>2. /\ used \subseteq (1 .. chains) \X Nat /\ reused' = FALSE /\ torn' = FALSE
      /\ Behind(mem) /\ snap.key <= chains /\ (at \notin Unsaved => Behind(snap))
  BY DEF SentIsSaved
<1>3. used' \subseteq (1 .. chains') \X Nat
  <2>1. 1 .. chains \subseteq 1 .. chains'  BY <1>1
  <2> QED  BY <1>2, <2>1
<1>4. mem'.key <= chains' /\ \A p \in used' : p[1] = mem'.key => p[2] < mem'.out
  <2> DEFINE m == mem'
  <2>1. m \in Account /\ (\/ m.key = mem.key /\ mem.out <= m.out
                          \/ m.key = chains + 1 /\ chains' = chains + 1)
    BY <1>1
  <2> HIDE DEF m
  <2>2. m.key <= chains' /\ \A p \in used' : p[1] = m.key => p[2] < m.out
    BY <1>1, <1>2, <2>1, StillBehind
  <2> QED  BY <2>2 DEF m
<1>5. CASE snap' = mem'
  BY <1>2, <1>3, <1>4, <1>5 DEF SentIsSaved, Behind
<1>6. CASE UNCHANGED snap /\ (at' \in Unsaved \/ at \notin Unsaved)
  <2>1. snap.key \in Nat /\ snap.out \in Nat  BY <1>1 DEF Account
  <2>2. snap'.key <= chains'  BY <1>1, <1>2, <1>6, <2>1
  <2>3. ASSUME at' \notin Unsaved
        PROVE  snap'.key <= chains' /\ \A p \in used' : p[1] = snap'.key => p[2] < snap'.out
    <3>1. Behind(snap)  BY <1>2, <1>6, <2>3
    <3>2. snap.out <= snap.out  BY <2>1
    <3>3. snap.key <= chains' /\ \A p \in used' : p[1] = snap.key => p[2] < snap.out
      BY <1>1, <3>1, <3>2, StillBehind
    <3> QED  BY <1>6, <3>3
  <2> QED  BY <1>2, <1>3, <1>4, <2>2, <2>3 DEF SentIsSaved, Behind
<1> QED  BY <1>5, <1>6

\* A send uses a position nobody used.
LEMMA SendsSaved ==
    ASSUME AccountShape, AccountShape', SentIsSaved, Sends, UNCHANGED <<snap, torn>>,
           at' \in Unsaved
    PROVE  SentIsSaved'
<1>1. /\ mem \in Account /\ snap \in Account /\ chains \in Nat
      /\ used \subseteq (1 .. chains) \X Nat /\ Behind(mem) /\ snap.key <= chains
      /\ reused = FALSE /\ torn' = FALSE
  BY DEF AccountShape, SentIsSaved
<1> DEFINE k == Opened.key
           o == Opened.out
<1>2. /\ Opened \in Account /\ Encrypted.key = k /\ Encrypted.out = o + 1
      /\ IF mem.key = 0 THEN k = chains + 1 /\ o = 0 ELSE k = mem.key /\ o = mem.out
  BY RefreshedAccount
<1>3. /\ mem' = Encrypted /\ chains' = IF Encrypted.key > chains THEN Encrypted.key ELSE chains
      /\ used' = used \cup {<<k, o>>} /\ reused' = (reused \/ <<k, o>> \in used)
  BY DEF Sends, Becomes
<1>4. k \in Nat /\ o \in Nat /\ mem.key \in Nat /\ snap.key \in Nat  BY <1>1, <1>2 DEF Account
<1> HIDE DEF k, o
<1>5. \A p \in used : p[1] \in 1 .. chains /\ p[2] \in Nat  BY <1>1
<1>6. mem.key <= chains /\ \A p \in used : p[1] = mem.key => p[2] < mem.out  BY <1>1 DEF Behind
<1>7. k # 0 /\ k <= chains' /\ chains <= chains' /\ chains' \in Nat
  BY <1>1, <1>2, <1>3, <1>4, <1>6
<1>8. \A p \in used : p[1] = k => p[2] < o
  <2>1. CASE mem.key = 0
    <3>1. k = chains + 1  BY <1>2, <2>1
    <3> QED  BY <1>1, <1>5, <3>1
  <2>2. CASE mem.key # 0  BY <1>2, <1>6, <2>2
  <2> QED  BY <2>1, <2>2
<1>9. reused' = FALSE
  <2>1. <<k, o>> \notin used
    <3> SUFFICES ASSUME <<k, o>> \in used PROVE FALSE  OBVIOUS
    <3>1. o < o  BY <1>8
    <3> QED  BY <1>4, <3>1
  <2> QED  BY <1>1, <1>3, <2>1
<1>10. used' \subseteq (1 .. chains') \X Nat
  <2>1. 1 .. chains \subseteq 1 .. chains' /\ k \in 1 .. chains'  BY <1>1, <1>4, <1>7
  <2> QED  BY <1>1, <1>3, <1>4, <2>1
<1>11. mem'.key <= chains' /\ \A p \in used' : p[1] = mem'.key => p[2] < mem'.out
  <2>1. \A p \in used : p[1] = k => p[2] < o + 1  BY <1>4, <1>5, <1>8
  <2>2. o < o + 1  BY <1>4
  <2> QED  BY <1>2, <1>3, <1>7, <2>1, <2>2
<1>12. snap'.key <= chains'  BY <1>1, <1>4, <1>7
<1> QED  BY <1>1, <1>9, <1>10, <1>11, <1>12 DEF SentIsSaved, Behind

\* An attempt to send sends nothing.
LEMMA ThrowsSaved ==
    ASSUME AccountShape, AccountShape', SentIsSaved, SendThrows, UNCHANGED <<snap, torn>>,
           at' \in Unsaved \/ at \notin Unsaved
    PROVE  SentIsSaved'
<1>1. mem \in Account /\ chains \in Nat /\ Behind(mem)  BY DEF AccountShape, SentIsSaved
<1>2. mem.key \in Nat /\ mem.out \in Nat /\ mem.key <= chains  BY <1>1 DEF Account, Behind
<1>3. UNCHANGED <<used, reused>> /\ (Becomes(mem) \/ Becomes(Encrypted))  BY DEF SendThrows
<1>4. CASE Becomes(mem)
  <2>1. mem' = mem /\ chains' = chains  BY <1>1, <1>2, <1>4 DEF Becomes
  <2>2. chains <= chains' /\ mem'.key = mem.key /\ mem.out <= mem'.out  BY <1>1, <1>2, <2>1
  <2> QED  BY <1>3, <2>2, NothingSent
<1>5. CASE Becomes(Encrypted)
  <2> DEFINE e == Encrypted
             k == Opened.key
             o == Opened.out
  <2>1. e.key = k /\ e.out = o + 1
        /\ IF mem.key = 0 THEN k = chains + 1 /\ o = 0 ELSE k = mem.key /\ o = mem.out
    BY RefreshedAccount
  <2>2. mem' = e /\ chains' = IF e.key > chains THEN e.key ELSE chains  BY <1>5 DEF Becomes
  <2> HIDE DEF e, k, o
  <2>3. CASE mem.key = 0
    <3>1. mem'.key = chains + 1 /\ chains' = chains + 1  BY <1>1, <2>1, <2>2, <2>3
    <3>2. chains <= chains'  BY <1>1, <3>1
    <3> QED  BY <1>3, <3>1, <3>2, NothingSent
  <2>4. CASE mem.key # 0
    <3>1. mem'.key = mem.key /\ mem'.out = mem.out + 1 /\ chains' = chains
      BY <1>1, <1>2, <2>1, <2>2, <2>4
    <3>2. chains <= chains' /\ mem.out <= mem'.out  BY <1>1, <1>2, <3>1
    <3> QED  BY <1>3, <3>1, <3>2, NothingSent
  <2> QED  BY <2>3, <2>4
<1> QED  BY <1>3, <1>4, <1>5

\* So do all steps but a crash in between.
LEMMA SentStep ==
    ASSUME IInv, IInv', SentIsSaved, [Next]_vars, CrashElsewhere
    PROVE  SentIsSaved'
<1>0. /\ AccountShape /\ AccountShape' /\ mem \in Account /\ snap \in Account
      /\ chains \in Nat /\ chains <= chains /\ mem.key \in Nat /\ mem.out <= mem.out
  <2>1. AccountShape /\ AccountShape' /\ mem \in Account /\ snap \in Account /\ chains \in Nat
    BY DEF IInv, AccountShape
  <2>2. mem.key \in Nat /\ mem.out \in Nat  BY <2>1 DEF Account
  <2> QED  BY <2>1, <2>2
<1>1. CASE Crash
  <2>1. /\ at' = "idle" /\ torn' = (torn \/ at \in {"greeted", "replied", "resetting"})
        /\ mem' = snap /\ UNCHANGED <<snap, chains, used, reused>>
    BY <1>1 DEF Crash, durable, history, ratchets
  <2>2. at \notin Unsaved  BY <1>1 DEF CrashElsewhere
  <2>3. torn' = FALSE  BY <2>1, <2>2 DEF SentIsSaved, Unsaved
  <2>4. Behind(snap)  BY <2>2 DEF SentIsSaved
  <2> QED  BY <2>1, <2>3, <2>4 DEF SentIsSaved, Behind
<1>2. CASE SendIntro \/ SendReply
  <2>1. Sends /\ at' \in Unsaved /\ UNCHANGED <<snap, torn>>
    BY <1>2 DEF SendIntro, SendReply, Unsaved, durable
  <2> QED  BY <1>0, <2>1, SendsSaved
<1>3. CASE Degrade
  <2>1. /\ Sends \/ SendThrows \/ UNCHANGED <<mem, chains, used, reused>>
        /\ at' \in Unsaved /\ UNCHANGED <<snap, torn>>
    BY <1>3 DEF Degrade, Unsaved, durable, ratchets
  <2>2. CASE Sends  BY <1>0, <2>1, <2>2, SendsSaved
  <2>3. CASE SendThrows  BY <1>0, <2>1, <2>3, ThrowsSaved
  <2>4. CASE UNCHANGED <<mem, chains, used, reused>>  BY <1>0, <2>1, <2>4, NothingSent
  <2> QED  BY <2>1, <2>2, <2>3, <2>4
<1>4. CASE DropConversation
  <2>1. /\ mem' = [mem EXCEPT !.known = FALSE, !.self = FALSE, !.chain = "none", !.mode = FALSE]
        /\ snap' = mem' /\ UNCHANGED <<chains, used, reused, torn>>
    BY <1>4 DEF DropConversation, history, ratchets
  <2>2. mem'.out = mem.out /\ mem'.key = mem.key  BY <1>0, <2>1 DEF Account
  <2> QED  BY <1>0, <2>1, <2>2, NothingSent
<1>5. CASE PersistGreeted \/ Persist
  <2>1. UNCHANGED mem /\ snap' = mem' /\ UNCHANGED <<chains, used, reused, torn>>
    BY <1>5 DEF PersistGreeted, Persist, history, ratchets
  <2> QED  BY <1>0, <2>1, NothingSent
<1>6. CASE ListMembers
  <2>1. mem' = Refreshed /\ at \notin Unsaved /\ UNCHANGED <<snap, chains, used, reused, torn>>
    BY <1>6 DEF ListMembers, durable, history, ratchets, Unsaved
  <2>2. mem'.out = mem.out /\ mem'.key = mem.key  BY <1>0, <2>1, RefreshedAccount
  <2> QED  BY <1>0, <2>1, <2>2, NothingSent
<1>7. CASE SendFails
  <2>1. at \notin Unsaved /\ UNCHANGED <<snap, torn>> /\ SendThrows
    BY <1>7 DEF SendFails, durable, Unsaved
  <2> QED  BY <1>0, <2>1, ThrowsSaved
<1>8. CASE OpsArrive \/ ChangeConversation
  <2>1. UNCHANGED <<snap, at, chains, used, reused, torn>>
    BY <1>8 DEF OpsArrive, ChangeConversation, durable, history, ratchets
  <2>2. mem'.out = mem.out /\ mem'.key = mem.key
    BY <1>0, <1>8 DEF OpsArrive, ChangeConversation, Account
  <2> QED  BY <1>0, <2>1, <2>2, NothingSent
<1>9. CASE \/ Start \/ ListForbidden \/ ListFails \/ PurgeContext \/ PurgeMeta
           \/ SaveGreeted \/ Ignore \/ Take \/ Count \/ LlmAnswers
           \/ RecordReply \/ ResetCounter
  <2>1. /\ UNCHANGED <<mem, snap, chains, used, reused, torn>>
        /\ at' \in Unsaved \/ at \notin Unsaved
    BY <1>9 DEF Start, ListForbidden, ListFails, PurgeContext, PurgeMeta, SaveGreeted, Ignore,
       Take, Count, LlmAnswers, RecordReply, ResetCounter, durable, history, ratchets, Unsaved
  <2> QED  BY <1>0, <2>1, NothingSent
<1>10. CASE UNCHANGED vars \/ Sweep \/ Boot \/ Wire
  <2>1. UNCHANGED <<mem, snap, at, chains, used, reused, torn>>
    BY <1>10 DEF vars, Sweep, Boot, Wire, durable, history, ratchets
  <2> QED  BY <1>0, <2>1, NothingSent
<1>11. CASE Receive
  <2>1. UNCHANGED <<snap, at, used, reused, torn>>  BY <1>11 DEF Receive, durable
  <2>2. PICK msg \in Deliverable :
           \/ mem' = [mem EXCEPT !.seen = @ \cup {msg.id}] /\ UNCHANGED chains
           \/ /\ chains' = chains + 1
              /\ mem' = [mem EXCEPT !.seen = @ \cup {msg.id}, !.key = chains + 1, !.out = 0]
    BY <1>11 DEF Receive
  <2>3. CASE mem' = [mem EXCEPT !.seen = @ \cup {msg.id}] /\ UNCHANGED chains
    <3>1. mem'.key = mem.key /\ mem'.out = mem.out  BY <1>0, <2>3 DEF Account
    <3> QED  BY <1>0, <2>1, <2>3, <3>1, NothingSent
  <2>4. CASE /\ chains' = chains + 1
             /\ mem' = [mem EXCEPT !.seen = @ \cup {msg.id}, !.key = chains + 1, !.out = 0]
    <3>1. mem'.key = chains + 1  BY <1>0, <2>4 DEF Account
    <3>2. chains <= chains'  BY <1>0, <2>4
    <3> QED  BY <1>0, <2>1, <2>4, <3>1, <3>2, NothingSent
  <2> QED  BY <2>2, <2>3, <2>4
<1> QED
  BY <1>1, <1>2, <1>3, <1>4, <1>5, <1>6, <1>7, <1>8, <1>9, <1>10, <1>11 DEF Next, TaskStep

\* A ratchet position is used twice, and an intro repeated, through one kind of
\* crash only: one after a message was sent and before the account is saved
\* (agent.ts:285-288, 352-357).  Crashes anywhere else, in any number, do no harm,
\* whatever sessions are opened and sending chains begun.
THEOREM OnlyUnsavedCrashesReuse ==
    Spec /\ [][CrashElsewhere]_vars => [](RatchetNeverReused /\ intros <= 1)
<1>1. Init => SentIsSaved
  <2> SUFFICES ASSUME Init PROVE SentIsSaved  OBVIOUS
  <2>1. mem.key = 0 /\ snap.key = 0 /\ chains = 0 /\ used = {} /\ reused = FALSE /\ torn = FALSE
    BY DEF Init, NewAccount
  <2> QED  BY <2>1 DEF SentIsSaved, Behind
<1>2. IInv /\ IInv' /\ SentIsSaved /\ [Next]_vars /\ [CrashElsewhere]_vars => SentIsSaved'
  <2> SUFFICES ASSUME IInv, IInv', SentIsSaved, [Next]_vars, [CrashElsewhere]_vars
               PROVE  SentIsSaved'
    OBVIOUS
  <2>1. CASE CrashElsewhere  BY <2>1, SentStep
  <2>2. CASE UNCHANGED vars
    <3>1. UNCHANGED <<mem, snap, at, chains, used, reused, torn>>
      BY <2>2 DEF vars, durable, history, ratchets
    <3> QED  BY <3>1 DEF SentIsSaved, Behind
  <2> QED  BY <2>1, <2>2
<1>3. IInv /\ SentIsSaved => RatchetNeverReused /\ intros <= 1
  BY DEF SentIsSaved, RatchetNeverReused, IInv, Introduced
<1> QED  BY <1>1, <1>2, <1>3, Invariance, PTL DEF Spec
=============================================================================
