--------------------------- MODULE DeviceDirectory ---------------------------
(***************************************************************************)
(* The device and prekey directory: one relay account with its device 1,   *)
(* the client process that provisions, saves, replenishes, crashes,        *)
(* resumes or reinstalls it, and peers that fetch its bundles.             *)
(*                                                                         *)
(* A registration is a transaction that reads the active row and commits   *)
(* later; the relay finishes it even when the process that asked is gone.  *)
(* A bundle fetch reads the rows first and pops a one-time prekey per row  *)
(* afterwards.                                                             *)
(*                                                                         *)
(* An identity is the number of the boot that generated it.  A one-time    *)
(* prekey is <<identity, boot, id>>, so that two keys generated under one  *)
(* id stay distinct; its public and its private half are the same value.   *)
(* Signed and kyber prekeys live and die with the identity and are not     *)
(* told apart from it.                                                     *)
(***************************************************************************)
EXTENDS Naturals, Sequences, FiniteSets

CONSTANTS
    Null,           \* a missing value
    Peers,          \* accounts that fetch the device's bundle
    Batch,          \* one-time prekeys per provisioning and per replenishment
    MaxBoots,       \* bound on process starts
    MaxId,          \* bound on one-time prekey ids
    MaxFetches      \* bound on bundle fetches

\* A one-time prekey: its identity, the boot that generated it, its id.
Key == Nat \X Nat \X Nat

\* A running process: its keys, the next id, what it has opened, the requests
\* it still has to send, whether one is under way, whether the client exists.
App == [boot : Nat, identity : Nat, next : Nat, held : SUBSET Key, opened : SUBSET Nat,
        todo : Nat, wait : BOOLEAN, up : BOOLEAN]

ASSUME DirectoryAssumption ==
    /\ Batch \in Nat \ {0} /\ MaxBoots \in Nat /\ MaxId \in Nat /\ MaxFetches \in Nat
    /\ Batch <= MaxId
    /\ Null \notin Peers \cup Key /\ Null \notin App

VARIABLES
    taken,      \* the username has a user row
    boots,      \* process starts so far
    app,        \* the running process, or Null
    disk,       \* the account as last saved, or Null
    ever,       \* one-time prekeys that have been on disk (history)
    requests,   \* POST /devices under way
    rows,       \* Device table: a sequence of [identity, active]
    pool,       \* OneTimePreKey table: a set of [row, key]
    fetches,    \* bundle fetches under way: a set of [by, left]
    count,      \* fetches begun
    bundles     \* bundles handed out, in order (history)

vars == <<taken, boots, app, disk, ever, requests, rows, pool, fetches, count, bundles>>

\* The process fetching its own bundle.
Self == Null

IdOf(key) == key[3]

Init ==
    /\ taken = FALSE /\ boots = 0 /\ app = Null /\ disk = Null /\ ever = {}
    /\ requests = {} /\ rows = <<>> /\ pool = {}
    /\ fetches = {} /\ count = 0 /\ bundles = <<>>

---------------------------------------------------------------------------
(***************************************************************************)
(* The client process                                                      *)
(***************************************************************************)

\* PrekeyManager.generateOneTimePreKeys from id 1.
Generate(identity, boot) == {<<identity, boot, id>> : id \in 1 .. Batch}

\* provision: a fresh identity and its prekeys, of which Batch are to publish.
Provision ==
    /\ app = Null /\ boots < MaxBoots
    /\ boots' = boots + 1
    /\ app' = [boot |-> boots', identity |-> boots', next |-> Batch + 1,
               held |-> Generate(boots', boots'), opened |-> {},
               todo |-> Batch, wait |-> FALSE, up |-> FALSE]
    /\ UNCHANGED <<disk, ever, requests, rows, pool, fetches, count, bundles>>

\* POST /signup: a username is taken once.
CreateUser == ~taken /\ taken' = TRUE

Signup == CreateUser /\ Provision

\* A reinstall under the same account, which the token of an earlier signup opens.
ReregisterDevice == disk # Null /\ Provision /\ UNCHANGED taken

\* savePreKey: the record stored under an id is replaced.
SavePreKey(held, key) == {k \in held : IdOf(k) # IdOf(key)} \cup {key}

\* One POST /devices: the next of the provisioned keys, or, once the client is
\* up, a key generated, numbered and stored for it.
Publish ==
    /\ app # Null /\ app.todo > 0 /\ ~app.wait
    /\ LET id == IF app.up THEN app.next ELSE Batch + 1 - app.todo
           key == <<app.identity, app.boot, id>>
       IN  /\ app' = [app EXCEPT !.wait = TRUE,
                                 !.next = IF app.up THEN @ + 1 ELSE @,
                                 !.held = SavePreKey(@, key)]
           /\ requests' = requests \cup {[boot |-> app.boot, key |-> key, found |-> Null]}
    /\ UNCHANGED <<taken, boots, disk, ever, rows, pool, fetches, count, bundles>>

\* The answer to the request under way: the loop goes on, and after the last
\* provisioned key the client exists and has connected.
Answered(q) ==
    app' = IF app # Null /\ app.wait /\ app.boot = q.boot
             THEN [app EXCEPT !.wait = FALSE, !.todo = @ - 1, !.up = @ \/ app.todo = 1]
             ELSE app

\* The request or its answer is lost: replenishing ends there, provisioning
\* ends the process.
PublishFails ==
    /\ app # Null /\ app.wait
    /\ app' = IF app.up THEN [app EXCEPT !.wait = FALSE, !.todo = 0] ELSE Null
    /\ \/ requests' = {q \in requests : q.boot # app.boot}
       \/ UNCHANGED requests
    /\ UNCHANGED <<taken, boots, disk, ever, rows, pool, fetches, count, bundles>>

\* What the host saves: identity, next id and stores.
Persist ==
    /\ app # Null /\ app.up
    /\ disk' = [identity |-> app.identity, next |-> app.next,
                held |-> app.held, opened |-> app.opened]
    /\ ever' = ever \cup app.held
    /\ UNCHANGED <<taken, boots, app, requests, rows, pool, fetches, count, bundles>>

Crash ==
    /\ app # Null
    /\ app' = Null
    /\ fetches' = {f \in fetches : f.by # Self}
    /\ UNCHANGED <<taken, boots, disk, ever, requests, rows, pool, count, bundles>>

\* Mutant: the next id is not carried across the restart.
ResumeFromOne ==
    /\ app = Null /\ disk # Null /\ boots < MaxBoots
    /\ boots' = boots + 1
    /\ app' = [boot |-> boots', identity |-> disk.identity, next |-> 1,
               held |-> disk.held, opened |-> disk.opened,
               todo |-> 0, wait |-> FALSE, up |-> TRUE]
    /\ UNCHANGED <<taken, disk, ever, requests, rows, pool, fetches, count, bundles>>

\* resume: everything from disk, nothing published.
Resume ==
    /\ app = Null /\ disk # Null /\ boots < MaxBoots
    /\ boots' = boots + 1
    /\ app' = [boot |-> boots', identity |-> disk.identity, next |-> disk.next,
               held |-> disk.held, opened |-> disk.opened,
               todo |-> 0, wait |-> FALSE, up |-> TRUE]
    /\ UNCHANGED <<taken, disk, ever, requests, rows, pool, fetches, count, bundles>>

\* A peer's first message, under the bundle it was given, is decrypted: the
\* identity must be this one and the one-time prekey on file, which is then
\* removed.  Any other such message is dropped and leaves no trace.
OpenPreKey(i) ==
    LET b == bundles[i]
    IN  /\ app # Null /\ app.up
        /\ b.by # Self /\ i \notin app.opened
        /\ b.identity = app.identity
        /\ b.key = Null \/ b.key \in app.held
        /\ app' = [app EXCEPT !.held = @ \ {b.key}, !.opened = @ \cup {i}]
        /\ UNCHANGED <<taken, boots, disk, ever, requests, rows, pool, fetches, count, bundles>>

---------------------------------------------------------------------------
(***************************************************************************)
(* The relay                                                               *)
(***************************************************************************)
ActiveRows == {r \in DOMAIN rows : rows[r].active}

\* findFirst of the active row, in a transaction that has not committed yet;
\* 0 when there is none.
RegisterFind(q) ==
    /\ q.found = Null
    /\ \E r \in IF ActiveRows = {} THEN {0} ELSE ActiveRows :
         requests' = (requests \ {q}) \cup {[q EXCEPT !.found = r]}
    /\ UNCHANGED <<taken, boots, app, disk, ever, rows, pool, fetches, count, bundles>>

IdentityOf(q) == q.key[1]

\* Mutant: a registration refreshes whatever row is active.
AnyRowIsSame(q) == q.found # 0

SameIdentity(q) == q.found # 0 /\ rows[q.found].identity = IdentityOf(q)

\* The row found is closed out when it carries another identity.
CloseOut(q) == IF q.found = 0 THEN rows ELSE [rows EXCEPT ![q.found].active = FALSE]

\* Mutant: the prekey is filed under the row found, also when that one is closed.
FoundRow(q) == q.found

RowOf(q) == IF SameIdentity(q) THEN q.found ELSE Len(rows) + 1

\* The transaction's writes: refresh the row found, or close it out and add
\* one; the one-time prekey joins that row's pool.
RegisterCommit(q) ==
    /\ q.found # Null
    /\ rows' = IF SameIdentity(q) THEN rows
               ELSE Append(CloseOut(q), [identity |-> IdentityOf(q), active |-> TRUE])
    /\ pool' = pool \cup {[row |-> RowOf(q), key |-> q.key]}
    /\ requests' = requests \ {q}
    /\ Answered(q)
    /\ UNCHANGED <<taken, boots, disk, ever, fetches, count, bundles>>

\* POST /devices.
HandlePublish(q) == RegisterFind(q) \/ RegisterCommit(q)

\* GET .../bundle: the active rows are read.
FetchBegin(by) ==
    /\ count < MaxFetches
    /\ by \notin {f.by : f \in fetches}
    /\ count' = count + 1
    /\ fetches' = fetches \cup {[by |-> by, left |-> ActiveRows, got |-> {}]}
    /\ UNCHANGED <<taken, boots, app, disk, ever, requests, rows, pool, bundles>>

PeerFetch(p) == taken /\ FetchBegin(p)

\* checkAndReplenishPrekeys starts with a look at the own bundle.
Peek == app # Null /\ app.up /\ app.todo = 0 /\ FetchBegin(Self)

\* Mutant: the row is handed out and left in the table.
ReadOneTimePreKey(r, key) ==
    /\ \/ key = Null /\ \A o \in pool : o.row # r
       \/ [row |-> r, key |-> key] \in pool
    /\ UNCHANGED pool

\* The atomic pop: at most one row of the device is deleted and returned.
\* Rows locked by another pop are skipped, so that any may be the first.
ConsumeOneTimePreKey(r, key) ==
    /\ \/ key = Null /\ \A o \in pool : o.row # r
       \/ [row |-> r, key |-> key] \in pool
    /\ pool' = pool \ {[row |-> r, key |-> key]}

\* One of the rows read becomes a bundle, whatever happened to it meanwhile.
BuildBundle(f, r) ==
    /\ \E key \in {Null} \cup {o.key : o \in pool} :
         /\ ConsumeOneTimePreKey(r, key)
         /\ bundles' = Append(bundles, [by |-> f.by, identity |-> rows[r].identity, key |-> key])
         /\ fetches' = (fetches \ {f}) \cup
                       {[f EXCEPT !.left = @ \ {r}, !.got = @ \cup {key # Null}]}
    /\ UNCHANGED <<taken, boots, app, disk, ever, requests, rows, count>>

FetchEnds(f) ==
    /\ f.left = {}
    /\ fetches' = fetches \ {f}
    /\ UNCHANGED <<taken, boots, disk, ever, requests, rows, pool, count, bundles>>

PeerAnswered(f) == f.by # Self /\ FetchEnds(f) /\ UNCHANGED app

\* The peek found a one-time prekey, which it has used up.
PeekSuffices(f) == f.by = Self /\ TRUE \in f.got /\ FetchEnds(f) /\ UNCHANGED app

\* No one-time prekey came back: publish another batch.
Replenish(f) ==
    /\ f.by = Self
    /\ f.got = {} \/ FALSE \in f.got
    /\ app.next + Batch <= MaxId + 1
    /\ FetchEnds(f)
    /\ app' = [app EXCEPT !.todo = Batch]

Next ==
    \/ Signup \/ ReregisterDevice \/ Publish \/ PublishFails
    \/ Persist \/ Crash \/ Resume \/ Peek
    \/ \E i \in DOMAIN bundles : OpenPreKey(i)
    \/ \E q \in requests : HandlePublish(q)
    \/ \E p \in Peers : PeerFetch(p)
    \/ \E f \in fetches :
         \/ \E r \in f.left : BuildBundle(f, r)
         \/ PeerAnswered(f)
         \/ PeekSuffices(f)
         \/ Replenish(f)

Spec == Init /\ [][Next]_vars

---------------------------------------------------------------------------
(***************************************************************************)
(* Properties                                                              *)
(***************************************************************************)
Keys == (1 .. MaxBoots) \X (1 .. MaxBoots) \X (1 .. MaxId)

\* The state is well formed, no id runs past its bound, and a store holds one
\* key per id (InMemoryPreKeyStore is keyed by id).
TypeOK ==
    /\ taken \in BOOLEAN /\ boots \in 0 .. MaxBoots /\ count \in 0 .. MaxFetches
    /\ ever \subseteq Keys
    /\ \A o \in pool : o.row \in DOMAIN rows /\ o.key \in Keys
    /\ \A q \in requests : q.key \in Keys /\ (q.found = Null \/ q.found \in 0 .. Len(rows))
    /\ \A f \in fetches : f.left \subseteq DOMAIN rows /\ f.by \in Peers \cup {Self}
    /\ \A store \in {app, disk} \ {Null} :
         /\ store.held \subseteq Keys
         /\ \A k, l \in store.held : IdOf(k) = IdOf(l) => k = l

\* consumeOneTimePreKey: concurrent fetches, the device's own look at its
\* bundle included, never hand out one one-time prekey twice.
OtpHandedOutOnce ==
    \A i, j \in DOMAIN bundles : bundles[i].key # Null /\ bundles[i].key = bundles[j].key => i = j

\* registerDevice against fetchPreKeyBundles: however registrations of two
\* installs overlap, and whatever became of the row since it was read, a bundle
\* never joins one install's identity to another's one-time prekey.
BundleOfOneInstall ==
    \A i \in DOMAIN bundles : bundles[i].key # Null => bundles[i].key[1] = bundles[i].identity

\* nextPreKeyId and the stores are saved together "so ids don't collide after a
\* restart": a one-time prekey that has once been on disk opens the first
\* message of the peer that was given it, through crashes that lose later keys.
SavedPreKeyOpens ==
    app # Null /\ app.up =>
        \A i \in DOMAIN bundles :
            bundles[i].by # Self /\ bundles[i].identity = app.identity /\ bundles[i].key \in ever
            => i \in app.opened \/ bundles[i].key \in app.held

\* The Device table's rule: one active row per device at most.
OneActiveRow == Cardinality(ActiveRows) <= 1

=============================================================================
