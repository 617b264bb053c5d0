----------------------- MODULE DeviceDirectoryProofs -------------------------
(***************************************************************************)
(* Proofs about DeviceDirectory for every set of peers and every bound.    *)
(*                                                                         *)
(* The invariants are proved in layers, each of which may use the ones     *)
(* before it:                                                              *)
(*   Shape      the types, and a look at the own bundle has a live client; *)
(*   Process    what the process and its save know of their own counters;  *)
(*   RowKeys    a pooled key carries the identity of its device row;       *)
(*   Numbered   a key in use is older than the next one generated;         *)
(*   OneHolder  a key is asked for, pooled or handed out, once;            *)
(*   Kept       a key once saved is held or spent by each live copy of its *)
(*              identity.                                                  *)
(* The properties of DeviceDirectory follow.                               *)
(***************************************************************************)
EXTENDS DeviceDirectory, Integers, FiniteSetTheorems, TLAPS

---------------------------------------------------------------------------
(***************************************************************************)
(* Shape                                                                   *)
(***************************************************************************)
\* A save, a request, a device row, a pooled key, a fetch and a bundle.
Save == [identity : Nat, next : Nat, held : SUBSET Key, opened : SUBSET Nat]

Request == [boot : Nat, key : Key, found : Nat \cup {Null}]

Row == [identity : Nat, active : BOOLEAN]

OneTimePreKey == [row : Nat, key : Key]

Fetch == [by : Peers \cup {Null}, left : SUBSET Nat, got : SUBSET BOOLEAN]

Bundle == [by : Peers \cup {Null}, identity : Nat, key : Key \cup {Null}]

\* The types; only a client that is up looks at its own bundle.
Shape ==
    /\ taken \in BOOLEAN /\ boots \in Nat /\ count \in Nat
    /\ app \in App \cup {Null} /\ disk \in Save \cup {Null}
    /\ ever \subseteq Key
    /\ requests \subseteq Request
    /\ rows \in Seq(Row)
    /\ pool \subseteq OneTimePreKey
    /\ fetches \subseteq Fetch
    /\ bundles \in Seq(Bundle)
    /\ app # Null => app.todo <= Batch /\ (app.wait => app.todo > 0)
    /\ \A f \in fetches : f.by = Null => app # Null /\ app.up
    /\ \A q \in requests : q.found # Null => q.found \in 0 .. Len(rows)
    /\ \A f \in fetches : f.left \subseteq DOMAIN rows
    /\ boots <= MaxBoots /\ count <= MaxFetches

(***************************************************************************)
(* The further layers                                                      *)
(***************************************************************************)

\* A store of one-time prekeys, in the process or on disk, after n boots and
\* with B the bundles handed out.
Store(s, n, B) ==
    /\ s.identity \in 1 .. n
    /\ s.next \in 1 .. MaxId + 1
    /\ \A k \in s.held : k[1] = s.identity /\ k[2] \in 1 .. n /\ k[3] \in 1 .. s.next - 1
    /\ \A k, l \in s.held : k[3] = l[3] => k = l
    /\ s.opened \subseteq B

\* Provisioning numbers its keys up to Batch; replenishing counts on from there
\* and a request under way has already taken its number.
Counters ==
    /\ app.boot = boots
    /\ ~app.up => /\ app.todo > 0 /\ app.identity = app.boot /\ app.next = Batch + 1
                  /\ \A k \in app.held : k[2] = app.boot
    /\ app.up => app.next + app.todo <= MaxId + (IF app.wait THEN 2 ELSE 1)

\* The process and its save.
Process ==
    /\ app # Null => Store(app, boots, DOMAIN bundles) /\ Counters
    /\ disk # Null => Store(disk, boots, DOMAIN bundles)

\* registerDevice files a key under a row of its identity, and rows keep theirs.
RowKeys ==
    /\ \A o \in pool : o.row \in DOMAIN rows /\ o.key[1] = rows[o.row].identity
    /\ BundleOfOneInstall

\* The number the next key of the running process will have.
NextId == IF app.up THEN app.next ELSE Batch + (IF app.wait THEN 2 ELSE 1) - app.todo

\* A key of an earlier boot, or of this one with a number already passed.
Used(k) ==
    /\ k \in Keys /\ k[2] <= boots
    /\ app # Null /\ k[2] = app.boot => k[3] < NextId

\* Every key in use is a used one.
Numbered ==
    /\ \A q \in requests : Used(q.key)
    /\ \A o \in pool : Used(o.key)
    /\ \A i \in DOMAIN bundles : bundles[i].key # Null => Used(bundles[i].key)

\* No two requests, pooled keys or bundles have one key, nor do two of different kinds.
OneHolder ==
    /\ \A q, r \in requests : q.key = r.key => q = r
    /\ \A o, p \in pool : o.key = p.key => o = p
    /\ \A q \in requests, o \in pool : q.key # o.key
    /\ \A i \in DOMAIN bundles : bundles[i].key # Null =>
         /\ \A q \in requests : q.key # bundles[i].key
         /\ \A o \in pool : o.key # bundles[i].key
    /\ OtpHandedOutOnce

\* The saved keys of the store's identity are held by it or spent in it.
Covers(s, saved, given) ==
    \A k \in saved : k[1] = s.identity =>
        k \in s.held \/ \E i \in s.opened : given[i].key = k

\* Saved keys are covered by the process and by the save.
Kept ==
    /\ \A k \in ever : k \in Keys /\ k[1] <= boots
    /\ app # Null => Covers(app, ever, bundles)
    /\ disk # Null => Covers(disk, ever, bundles)

---------------------------------------------------------------------------
\* Nothing is there to begin with.
LEMMA ShapeInit == Init => Shape
  <1>1. Init => boots \in Nat /\ count \in Nat /\ boots <= MaxBoots /\ count <= MaxFetches
    BY DirectoryAssumption DEF Init
  <1>3. Init => taken \in BOOLEAN
    BY DEF Init
  <1>2. Init => rows \in Seq(Row) /\ bundles \in Seq(Bundle)
    BY DEF Init
  <1>. QED
    BY <1>1, <1>2, <1>3 DEF Init, Shape

\* The provisioned process.
LEMMA ProvisionShape ==
  ASSUME Shape, Provision, taken' \in BOOLEAN
  PROVE  Shape'
  <1>1. /\ boots' = boots + 1 /\ boots' \in Nat /\ boots' <= MaxBoots
        /\ app = Null
    BY DirectoryAssumption DEF Shape, Provision
  <1>2. Generate(boots', boots') \in SUBSET Key
    BY <1>1, DirectoryAssumption DEF Generate, Key
  <1>3. app' \in App
    BY <1>1, <1>2, DirectoryAssumption DEF Provision, App
  <1>4. app'.wait = FALSE /\ app'.todo = Batch
    BY DEF Provision
  <1>5. \A f \in fetches : f.by # Null
    BY <1>1 DEF Shape
  <1>. QED
    BY <1>1, <1>3, <1>4, <1>5, DirectoryAssumption DEF Shape, Provision

(***************************************************************************)
(* What the steps do, field by field                                       *)
(***************************************************************************)

\* A request sent for the key, and the process that waits for its answer.
Published(id, key) ==
    /\ id = IF app.up THEN app.next ELSE Batch + 1 - app.todo
    /\ key = <<app.identity, app.boot, id>>
    /\ app \in App /\ app # Null /\ app' \in App /\ app' # Null
    /\ ~app.wait /\ app.todo > 0
    /\ app'.boot = app.boot /\ app'.identity = app.identity /\ app'.todo = app.todo
    /\ app'.up = app.up /\ app'.wait = TRUE /\ app'.opened = app.opened
    /\ app'.next = (IF app.up THEN app.next + 1 ELSE app.next)
    /\ app'.held = {k \in app.held : k[3] # id} \cup {key}
    /\ requests' = requests \cup {[boot |-> app.boot, key |-> key, found |-> Null]}

\* The process that waits has its answer.
WentOn ==
    /\ app \in App /\ app # Null /\ app' \in App /\ app' # Null
    /\ app.wait /\ app.todo > 0 /\ app'.wait = FALSE /\ app'.todo = app.todo - 1
    /\ app'.up <=> (app.up \/ app.todo = 1)
    /\ app'.boot = app.boot /\ app'.identity = app.identity /\ app'.next = app.next
    /\ app'.held = app.held /\ app'.opened = app.opened

\* A registration committed: rows keep their identity, and the one the key is
\* filed under has the key's.
Filed(q, row) ==
    /\ q \in Request /\ q.found # Null /\ q.found \in 0 .. Len(rows)
    /\ rows' \in Seq(Row) /\ Len(rows') >= Len(rows)
    /\ \A r \in 1 .. Len(rows) : rows'[r].identity = rows[r].identity
    /\ row \in 1 .. Len(rows') /\ rows'[row].identity = q.key[1]
    /\ pool' = pool \cup {[row |-> row, key |-> q.key]}
    /\ requests' = requests \ {q}

\* A bundle built from a row read earlier and, if there is one, a pooled key.
Built(f, r, key) ==
    /\ r \in 1 .. Len(rows) /\ f \in Fetch
    /\ key = Null \/ [row |-> r, key |-> key] \in pool
    /\ pool' = pool \ {[row |-> r, key |-> key]}
    /\ bundles' \in Seq(Bundle) /\ Len(bundles') = Len(bundles) + 1
    /\ \A i \in 1 .. Len(bundles) : bundles'[i] = bundles[i]
    /\ bundles'[Len(bundles) + 1] = [by |-> f.by, identity |-> rows[r].identity, key |-> key]
    /\ \E g \in Fetch : /\ g.by = f.by /\ g.left \subseteq f.left
                        /\ fetches' = (fetches \ {f}) \cup {g}

\* Publish takes the next number, stores the key and asks for it.
LEMMA PublishEffect ==
  ASSUME Shape, Publish
  PROVE  \E id \in Nat, key \in Key : Published(id, key)
  <1>. DEFINE id == IF app.up THEN app.next ELSE Batch + 1 - app.todo
              key == <<app.identity, app.boot, id>>
  <1>1. app \in App /\ app # Null /\ ~app.wait /\ app.todo > 0 /\ app.todo <= Batch
    BY DEF Publish, Shape
  <1>2. id \in Nat
    BY <1>1, DirectoryAssumption DEF App
  <1>3. key \in Key /\ key[3] = id
    BY <1>1, <1>2 DEF App, Key
  <1>4. /\ app' = [app EXCEPT !.wait = TRUE, !.next = IF app.up THEN @ + 1 ELSE @,
                              !.held = SavePreKey(@, key)]
        /\ requests' = requests \cup {[boot |-> app.boot, key |-> key, found |-> Null]}
    BY DEF Publish
  <1>5. SavePreKey(app.held, key) = {k \in app.held : k[3] # id} \cup {key}
    BY <1>3 DEF SavePreKey, IdOf
  <1>6. SavePreKey(app.held, key) \in SUBSET Key
    BY <1>1, <1>3, <1>5 DEF App
  <1>7. app' \in App
    <2>1. \A n \in Nat, h \in SUBSET Key :
             [app EXCEPT !.wait = TRUE, !.next = n, !.held = h] \in App
      BY <1>1 DEF App
    <2>2. (IF app.up THEN app.next + 1 ELSE app.next) \in Nat
      BY <1>1 DEF App
    <2>. QED
      BY <1>4, <1>6, <2>1, <2>2
  <1>8. /\ app'.boot = app.boot /\ app'.identity = app.identity /\ app'.todo = app.todo
        /\ app'.up = app.up /\ app'.wait = TRUE /\ app'.opened = app.opened
        /\ app'.next = (IF app.up THEN app.next + 1 ELSE app.next)
        /\ app'.held = {k \in app.held : k[3] # id} \cup {key}
    BY <1>1, <1>4, <1>5 DEF App
  <1>. HIDE DEF id, key
  <1>9. id = (IF app.up THEN app.next ELSE Batch + 1 - app.todo) /\ key = <<app.identity, app.boot, id>>
    BY DEF id, key
  <1>10. app' # Null
    BY <1>7, DirectoryAssumption
  <1>11. Published(id, key)
    BY <1>1, <1>4, <1>7, <1>8, <1>9, <1>10 DEF Published
  <1>. QED
    BY <1>2, <1>3, <1>11

\* An answer reaches the process that waits for it, or nobody.
LEMMA AnsweredEffect ==
  ASSUME Shape, NEW q \in requests, Answered(q)
  PROVE  app' = app \/ WentOn
  <1>1. CASE ~(app # Null /\ app.wait /\ app.boot = q.boot)
    BY <1>1 DEF Answered
  <1>2. CASE app # Null /\ app.wait /\ app.boot = q.boot
    <2>1. app \in App /\ app.todo > 0
      BY <1>2 DEF Shape
    <2>2. app' = [app EXCEPT !.wait = FALSE, !.todo = @ - 1, !.up = @ \/ app.todo = 1]
      BY <1>2 DEF Answered
    <2>3. app' \in App
      <3>1. \A n \in Nat, b \in BOOLEAN : [app EXCEPT !.wait = FALSE, !.todo = n, !.up = b] \in App
        BY <2>1 DEF App
      <3>2. app.todo - 1 \in Nat
        BY <2>1 DEF App
      <3>3. (app.up \/ app.todo = 1) \in BOOLEAN
        OBVIOUS
      <3>. QED
        BY <2>2, <3>1, <3>2, <3>3
    <2>4. app' # Null
      BY <2>3, DirectoryAssumption
    <2>5. /\ app'.wait = FALSE /\ app'.todo = app.todo - 1
          /\ app'.boot = app.boot /\ app'.identity = app.identity /\ app'.next = app.next
          /\ app'.held = app.held /\ app'.opened = app.opened
      BY <2>1, <2>2 DEF App
    <2>6. app'.up <=> (app.up \/ app.todo = 1)
      BY <2>1, <2>2 DEF App
    <2>. QED
      BY <1>2, <2>1, <2>3, <2>4, <2>5, <2>6 DEF WentOn
  <1>. QED
    BY <1>1, <1>2

\* RegisterCommit refreshes the row found or adds one.
LEMMA CommitEffect ==
  ASSUME Shape, NEW q \in requests, RegisterCommit(q)
  PROVE  \E row \in Nat : Filed(q, row)
  <1>1. q \in Request /\ q.found \in 0 .. Len(rows) /\ rows \in Seq(Row) /\ q.key[1] \in Nat
    BY DEF RegisterCommit, Shape, Request, Key
  <1>2. /\ rows' \in Seq(Row) /\ Len(rows') >= Len(rows)
        /\ \A r \in 1 .. Len(rows) : rows'[r].identity = rows[r].identity
        /\ RowOf(q) \in 1 .. Len(rows') /\ rows'[RowOf(q)].identity = q.key[1]
    <2>1. CASE SameIdentity(q)
      BY <1>1, <2>1 DEF RegisterCommit, SameIdentity, RowOf, IdentityOf
    <2>2. CASE ~SameIdentity(q)
      <3>1. /\ CloseOut(q) \in Seq(Row) /\ Len(CloseOut(q)) = Len(rows)
            /\ \A r \in 1 .. Len(rows) : CloseOut(q)[r].identity = rows[r].identity
        <4>1. CASE q.found = 0
          BY <1>1, <4>1 DEF CloseOut
        <4>2. CASE q.found # 0
          <5>. DEFINE closed == [rows[q.found] EXCEPT !.active = FALSE]
          <5>1. closed \in Row /\ closed.identity = rows[q.found].identity
            <6>1. rows[q.found] \in Row
              BY <1>1, <4>2
            <6>. QED
              BY <6>1 DEF Row
          <5>2. CloseOut(q) = [rows EXCEPT ![q.found] = closed]
            BY <4>2 DEF CloseOut
          <5>. HIDE DEF closed
          <5>. QED
            BY <1>1, <4>2, <5>1, <5>2
        <4>. QED
          BY <4>1, <4>2
      <3>2. [identity |-> IdentityOf(q), active |-> TRUE] \in Row
        BY <1>1 DEF IdentityOf, Row
      <3>3. rows' = Append(CloseOut(q), [identity |-> IdentityOf(q), active |-> TRUE])
        BY <2>2 DEF RegisterCommit
      <3>4. /\ rows' \in Seq(Row) /\ Len(rows') = Len(rows) + 1
            /\ \A r \in 1 .. Len(rows) : rows'[r] = CloseOut(q)[r]
            /\ rows'[Len(rows) + 1] = [identity |-> IdentityOf(q), active |-> TRUE]
        BY <3>1, <3>2, <3>3
      <3>. QED
        BY <1>1, <2>2, <3>1, <3>4 DEF RowOf, IdentityOf
    <2>. QED
      BY <2>1, <2>2
  <1>3. q.found # Null /\ requests' = requests \ {q}
        /\ pool' = pool \cup {[row |-> RowOf(q), key |-> q.key]}
    BY DEF RegisterCommit
  <1>4. Filed(q, RowOf(q))
    BY <1>1, <1>2, <1>3 DEF Filed
  <1>5. RowOf(q) \in Nat
    BY <1>1, <1>2
  <1>. QED
    BY <1>4, <1>5

\* BuildBundle takes a pooled key of the row, if there is one.
LEMMA BuildBundleEffect ==
  ASSUME Shape, NEW f \in fetches, NEW r \in f.left, BuildBundle(f, r)
  PROVE  \E key \in Key \cup {Null} : Built(f, r, key)
  <1>1. PICK key \in {Null} \cup {o.key : o \in pool} :
           /\ ConsumeOneTimePreKey(r, key)
           /\ bundles' = Append(bundles, [by |-> f.by, identity |-> rows[r].identity, key |-> key])
           /\ fetches' = (fetches \ {f}) \cup
                         {[f EXCEPT !.left = @ \ {r}, !.got = @ \cup {key # Null}]}
    BY DEF BuildBundle
  <1>2. r \in 1 .. Len(rows) /\ f \in Fetch /\ rows[r] \in Row
    BY DEF Shape
  <1>3. key \in Key \cup {Null}
    BY DEF Shape, OneTimePreKey
  <1>4. [by |-> f.by, identity |-> rows[r].identity, key |-> key] \in Bundle
    BY <1>2, <1>3 DEF Fetch, Row, Bundle
  <1>5. /\ bundles' \in Seq(Bundle) /\ Len(bundles') = Len(bundles) + 1
        /\ \A i \in 1 .. Len(bundles) : bundles'[i] = bundles[i]
        /\ bundles'[Len(bundles) + 1] = [by |-> f.by, identity |-> rows[r].identity, key |-> key]
    BY <1>1, <1>4 DEF Shape
  <1>6. \E g \in Fetch : /\ g.by = f.by /\ g.left \subseteq f.left
                         /\ fetches' = (fetches \ {f}) \cup {g}
    <2>. DEFINE got == f.got \cup {key # Null}
                g == [f EXCEPT !.left = @ \ {r}, !.got = got]
    <2>1. got \in SUBSET BOOLEAN
      BY <1>2, Zenon DEF Fetch
    <2>2. fetches' = (fetches \ {f}) \cup {g}
      BY <1>1
    <2>. HIDE DEF got
    <2>3. g \in Fetch /\ g.by = f.by /\ g.left \subseteq f.left
      BY <1>2, <2>1 DEF Fetch
    <2>. QED
      BY <2>2, <2>3
  <1>7. /\ key = Null \/ [row |-> r, key |-> key] \in pool
        /\ pool' = pool \ {[row |-> r, key |-> key]}
    BY <1>1 DEF ConsumeOneTimePreKey
  <1>. QED
    BY <1>2, <1>3, <1>5, <1>6, <1>7 DEF Built

\* Every step keeps the types.
LEMMA ShapeStep == Shape /\ [Next]_vars => Shape'
  <1>. SUFFICES ASSUME Shape, [Next]_vars
                PROVE  Shape'
    OBVIOUS
  <1>1. CASE Signup
    BY <1>1, ProvisionShape DEF Signup, CreateUser
  <1>2. CASE ReregisterDevice
    BY <1>2, ProvisionShape DEF ReregisterDevice, Shape
  <1>3. CASE Publish
    <2>1. PICK id \in Nat, key \in Key : Published(id, key)
      BY <1>3, PublishEffect
    <2>2. /\ requests' \subseteq Request
          /\ \A q \in requests' : q.found # Null => q.found \in 0 .. Len(rows)
      BY <2>1 DEF Published, Shape, App, Request
    <2>3. app' \in App /\ app' # Null /\ app'.todo <= Batch /\ app'.todo > 0 /\ app'.up = app.up
      BY <2>1 DEF Published, Shape
    <2>. QED
      BY <1>3, <2>2, <2>3 DEF Shape, Publish
  <1>4. CASE PublishFails
    <2>1. app \in App /\ app # Null
      BY <1>4 DEF PublishFails, Shape
    <2>2. CASE app.up
      <3>1. app' \in App /\ app'.wait = FALSE /\ app'.todo = 0 /\ app'.up = app.up
        BY <1>4, <2>1, <2>2 DEF PublishFails, App
      <3>. QED
        BY <1>4, <2>2, <3>1, DirectoryAssumption DEF PublishFails, Shape
    <2>3. CASE ~app.up
      BY <1>4, <2>3 DEF PublishFails, Shape
    <2>. QED
      BY <2>2, <2>3
  <1>5. CASE Persist
    <2>1. app \in App
      BY <1>5 DEF Persist, Shape
    <2>2. disk' \in Save /\ ever' \subseteq Key
      BY <1>5, <2>1 DEF Persist, Shape, App, Save
    <2>. QED
      BY <1>5, <2>2 DEF Persist, Shape
  <1>6. CASE Crash
    BY <1>6 DEF Crash, Shape, Self
  <1>7. CASE Resume
    <2>1. disk \in Save /\ boots' \in Nat /\ boots' <= MaxBoots /\ app = Null
      BY <1>7, DirectoryAssumption DEF Resume, Shape
    <2>2. app' \in App /\ app'.wait = FALSE /\ app'.todo = 0 /\ app'.up = TRUE
      BY <1>7, <2>1 DEF Resume, App, Save
    <2>. QED
      BY <1>7, <2>1, <2>2, DirectoryAssumption DEF Resume, Shape
  <1>8. ASSUME NEW by \in Peers \cup {Null}, FetchBegin(by), by = Null => app # Null /\ app.up
        PROVE  Shape'
    <2>1. ActiveRows \in SUBSET Nat /\ ActiveRows \subseteq DOMAIN rows
      BY DEF ActiveRows, Shape
    <2>2. fetches' \subseteq Fetch /\ \A f \in fetches' : f.left \subseteq DOMAIN rows
      BY <1>8, <2>1 DEF FetchBegin, Shape, Fetch
    <2>3. count' \in Nat /\ count' <= MaxFetches
      BY <1>8, DirectoryAssumption DEF FetchBegin, Shape
    <2>4. \A f \in fetches' : f.by = Null => app # Null /\ app.up
      BY <1>8 DEF FetchBegin, Shape
    <2>. QED
      BY <1>8, <2>2, <2>3, <2>4 DEF FetchBegin, Shape
  <1>9. CASE Peek
    BY <1>8, <1>9 DEF Peek, Self
  <1>10. ASSUME NEW p \in Peers, PeerFetch(p)
         PROVE  Shape'
    BY <1>8, <1>10, DirectoryAssumption DEF PeerFetch
  <1>11. ASSUME NEW i \in DOMAIN bundles, OpenPreKey(i)
         PROVE  Shape'
    <2>1. app \in App /\ app # Null /\ i \in Nat
      BY <1>11 DEF OpenPreKey, Shape
    <2>2. /\ app' \in App /\ app'.wait = app.wait /\ app'.todo = app.todo /\ app'.up = app.up
      BY <1>11, <2>1 DEF OpenPreKey, App
    <2>. QED
      BY <1>11, <2>1, <2>2, DirectoryAssumption DEF OpenPreKey, Shape
  <1>12. ASSUME NEW q \in requests, RegisterFind(q)
         PROVE  Shape'
    <2>1. PICK r \in IF ActiveRows = {} THEN {0} ELSE ActiveRows :
             requests' = (requests \ {q}) \cup {[q EXCEPT !.found = r]}
      BY <1>12 DEF RegisterFind
    <2>2. r \in 0 .. Len(rows) /\ r \in Nat
      BY <2>1 DEF ActiveRows, Shape
    <2>3. requests' \subseteq Request /\ \A p \in requests' : p.found # Null => p.found \in 0 .. Len(rows)
      BY <2>1, <2>2 DEF Shape, Request
    <2>. QED
      BY <1>12, <2>3 DEF RegisterFind, Shape
  <1>13. ASSUME NEW q \in requests, RegisterCommit(q)
         PROVE  Shape'
    <2>1. PICK row \in Nat : Filed(q, row)
      BY <1>13, CommitEffect
    <2>2. /\ rows' \in Seq(Row) /\ Len(rows') >= Len(rows) /\ Len(rows) \in Nat /\ Len(rows') \in Nat
      BY <2>1 DEF Filed, Shape
    <2>3. pool' \subseteq OneTimePreKey
      BY <2>1 DEF Filed, Shape, OneTimePreKey, Request
    <2>4. requests' \subseteq Request /\ fetches' \subseteq Fetch
      BY <1>13 DEF RegisterCommit, Shape
    <2>5. \A p \in requests' : p.found # Null => p.found \in 0 .. Len(rows')
      BY <1>13, <2>2 DEF RegisterCommit, Shape
    <2>6. \A f \in fetches' : f.left \subseteq DOMAIN rows'
      <3>1. DOMAIN rows \subseteq DOMAIN rows'
        BY <2>2 DEF Shape
      <3>. QED
        BY <1>13, <3>1 DEF RegisterCommit, Shape
    <2>7. /\ app' \in App \cup {Null}
          /\ app' # Null => app'.todo <= Batch /\ (app'.wait => app'.todo > 0)
          /\ app # Null /\ app.up => app' # Null /\ app'.up
      <3>1. CASE app' = app
        BY <3>1 DEF Shape
      <3>2. CASE WentOn
        <4>1. app.todo \in Nat /\ app.todo <= Batch
          BY <3>2 DEF WentOn, Shape, App
        <4>2. app'.todo <= Batch
          BY <3>2, <4>1, DirectoryAssumption DEF WentOn
        <4>. QED
          BY <3>2, <4>2 DEF WentOn
      <3>. QED
        BY <1>13, <3>1, <3>2, AnsweredEffect DEF RegisterCommit
    <2>. QED
      BY <1>13, <2>2, <2>3, <2>4, <2>5, <2>6, <2>7 DEF RegisterCommit, Shape
  <1>14. ASSUME NEW f \in fetches, NEW r \in f.left, BuildBundle(f, r)
         PROVE  Shape'
    <2>1. PICK key \in Key \cup {Null} : Built(f, r, key)
      BY <1>14, BuildBundleEffect
    <2>2. fetches' \subseteq Fetch /\ bundles' \in Seq(Bundle) /\ pool' \subseteq OneTimePreKey
      BY <2>1 DEF Built, Shape
    <2>3. /\ \A g \in fetches' : g.by = Null => app # Null /\ app.up
          /\ \A g \in fetches' : g.left \subseteq DOMAIN rows
      BY <2>1 DEF Built, Shape
    <2>. QED
      BY <1>14, <2>2, <2>3 DEF BuildBundle, Shape
  <1>15. ASSUME NEW f \in fetches, PeerAnswered(f) \/ PeekSuffices(f)
         PROVE  Shape'
    BY <1>15 DEF PeerAnswered, PeekSuffices, FetchEnds, Shape
  <1>16. ASSUME NEW f \in fetches, Replenish(f)
         PROVE  Shape'
    <2>1. app \in App /\ app # Null /\ app.up
      BY <1>16 DEF Replenish, Self, Shape
    <2>2. app' \in App /\ app'.todo = Batch /\ app'.up = app.up
      BY <1>16, <2>1, DirectoryAssumption DEF Replenish, App
    <2>3. app' # Null /\ app'.todo > 0 /\ app'.todo <= Batch /\ fetches' \subseteq fetches
      BY <1>16, <2>2, DirectoryAssumption DEF Replenish, FetchEnds
    <2>. QED
      BY <1>16, <2>1, <2>2, <2>3 DEF Replenish, FetchEnds, Shape
  <1>17. CASE UNCHANGED vars
    BY <1>17 DEF vars, Shape
  <1>. QED
    BY <1>1, <1>2, <1>3, <1>4, <1>5, <1>6, <1>7, <1>9, <1>10, <1>11, <1>12, <1>13, <1>14,
       <1>15, <1>16, <1>17 DEF Next, HandlePublish

---------------------------------------------------------------------------
(***************************************************************************)
(* RowKeys                                                                 *)
(***************************************************************************)
\* No key is pooled to begin with.
LEMMA RowKeysInit == Init => RowKeys
  BY DEF Init, RowKeys, BundleOfOneInstall

\* Only a registration adds to the pool and only a fetch takes from it.
LEMMA RowKeysStep == Shape /\ RowKeys /\ [Next]_vars => RowKeys'
  <1>. SUFFICES ASSUME Shape, RowKeys, [Next]_vars
                PROVE  RowKeys'
    OBVIOUS
  <1>1. CASE UNCHANGED <<rows, pool, bundles>>
    BY <1>1 DEF RowKeys, BundleOfOneInstall
  <1>2. ASSUME NEW q \in requests, RegisterCommit(q)
        PROVE  RowKeys'
    <2>1. PICK row \in Nat : Filed(q, row)
      BY <1>2, CommitEffect
    <2>2. \A o \in pool : o.row \in 1 .. Len(rows) /\ o.key[1] = rows[o.row].identity
      BY DEF RowKeys, Shape
    <2>3. ASSUME NEW o \in pool'
          PROVE  o.row \in DOMAIN rows' /\ o.key[1] = rows'[o.row].identity
      <3>1. CASE o \in pool
        BY <2>1, <2>2, <3>1 DEF Filed, Shape
      <3>2. CASE o = [row |-> row, key |-> q.key]
        BY <2>1, <3>2 DEF Filed
      <3>. QED
        BY <2>1, <3>1, <3>2 DEF Filed
    <2>4. bundles' = bundles
      BY <1>2 DEF RegisterCommit
    <2>. QED
      BY <2>3, <2>4 DEF RowKeys, BundleOfOneInstall
  <1>3. ASSUME NEW f \in fetches, NEW r \in f.left, BuildBundle(f, r)
        PROVE  RowKeys'
    <2>1. PICK key \in Key \cup {Null} : Built(f, r, key)
      BY <1>3, BuildBundleEffect
    <2>2. rows' = rows /\ pool' \subseteq pool
      BY <1>3, <2>1 DEF BuildBundle, Built
    <2>3. key # Null => key[1] = rows[r].identity
      BY <2>1 DEF Built, RowKeys
    <2>4. ASSUME NEW i \in DOMAIN bundles', bundles'[i].key # Null
          PROVE  bundles'[i].key[1] = bundles'[i].identity
      <3>1. i \in 1 .. Len(bundles) \/ i = Len(bundles) + 1
        BY <2>1 DEF Built, Shape
      <3>2. CASE i \in 1 .. Len(bundles)
        BY <2>1, <2>4, <3>2 DEF Built, RowKeys, BundleOfOneInstall, Shape
      <3>3. CASE i = Len(bundles) + 1
        BY <2>1, <2>3, <2>4, <3>3 DEF Built
      <3>. QED
        BY <3>1, <3>2, <3>3
    <2>. QED
      BY <2>2, <2>4 DEF RowKeys, BundleOfOneInstall
  <1>4. ASSUME NEW q \in requests, HandlePublish(q)
        PROVE  RowKeys'
    BY <1>1, <1>2, <1>4 DEF HandlePublish, RegisterFind
  <1>5. ASSUME NEW f \in fetches,
               \/ \E r \in f.left : BuildBundle(f, r)
               \/ PeerAnswered(f) \/ PeekSuffices(f) \/ Replenish(f)
        PROVE  RowKeys'
    BY <1>1, <1>3, <1>5 DEF PeerAnswered, PeekSuffices, Replenish, FetchEnds
  <1>6. CASE Signup \/ ReregisterDevice \/ Publish \/ PublishFails \/ Persist \/ Crash \/ Resume
    BY <1>1, <1>6 DEF Signup, ReregisterDevice, Provision, Publish, PublishFails, Persist, Crash, Resume
  <1>7. CASE Peek \/ \E p \in Peers : PeerFetch(p)
    BY <1>1, <1>7 DEF Peek, PeerFetch, FetchBegin
  <1>8. CASE \E i \in DOMAIN bundles : OpenPreKey(i)
    BY <1>1, <1>8 DEF OpenPreKey
  <1>9. CASE UNCHANGED vars
    BY <1>1, <1>9 DEF vars
  <1>. QED
    BY <1>4, <1>5, <1>6, <1>7, <1>8, <1>9 DEF Next

---------------------------------------------------------------------------
(***************************************************************************)
(* Process                                                                 *)
(***************************************************************************)
\* No process runs to begin with.
LEMMA ProcessInit == Init => Process
  BY DEF Init, Process

\* Boots and bundles only grow, which a store does not notice.
LEMMA StoreGrows ==
  ASSUME NEW s, NEW n \in Nat, NEW m \in Nat, n <= m, NEW B, NEW C, B \subseteq C, Store(s, n, B)
  PROVE  Store(s, m, C)
  BY DEF Store

\* A provisioned process starts from its own boot number.
LEMMA ProvisionEffect ==
  ASSUME Shape, Provision
  PROVE  /\ app = Null /\ app' # Null /\ boots' = boots + 1
         /\ app'.boot = boots' /\ app'.identity = boots' /\ app'.next = Batch + 1
         /\ app'.held = Generate(boots', boots') /\ app'.opened = {}
         /\ app'.todo = Batch /\ app'.wait = FALSE /\ app'.up = FALSE
  <1>1. boots' \in Nat
    BY DEF Provision, Shape
  <1>2. Generate(boots', boots') \in SUBSET Key
    BY <1>1, DirectoryAssumption DEF Generate, Key
  <1>3. app' \in App
    BY <1>1, <1>2, DirectoryAssumption DEF Provision, App
  <1>4. app' # Null
    BY <1>3, DirectoryAssumption
  <1>. QED
    BY <1>4 DEF Provision

\* A resumed process starts from the save.
LEMMA ResumeEffect ==
  ASSUME Shape, Resume
  PROVE  /\ app = Null /\ disk # Null /\ disk \in Save /\ app' # Null /\ boots' = boots + 1
         /\ app'.boot = boots' /\ app'.identity = disk.identity /\ app'.next = disk.next
         /\ app'.held = disk.held /\ app'.opened = disk.opened
         /\ app'.todo = 0 /\ app'.wait = FALSE /\ app'.up = TRUE
  <1>1. boots' \in Nat /\ disk \in Save
    BY DEF Resume, Shape
  <1>2. app' \in App
    BY <1>1 DEF Resume, App, Save
  <1>3. app' # Null
    BY <1>2, DirectoryAssumption
  <1>. QED
    BY <1>1, <1>3 DEF Resume

\* Every step keeps the process, its save and their counters in agreement.
LEMMA ProcessStep == Shape /\ Process /\ [Next]_vars => Process'
  <1>. SUFFICES ASSUME Shape, Process, [Next]_vars
                PROVE  Process'
    OBVIOUS
  <1>0. /\ boots \in Nat /\ Len(bundles) \in Nat /\ DOMAIN bundles = 1 .. Len(bundles)
        /\ Batch \in Nat \ {0} /\ MaxId \in Nat /\ Batch <= MaxId
    BY DirectoryAssumption DEF Shape
  <1>1. CASE UNCHANGED <<boots, app, disk, bundles>>
    BY <1>1 DEF Process, Counters
  <1>2. CASE Provision
    <2>1. /\ app' # Null /\ boots' = boots + 1
          /\ app'.boot = boots' /\ app'.identity = boots' /\ app'.next = Batch + 1
          /\ app'.held = Generate(boots', boots') /\ app'.opened = {}
          /\ app'.todo = Batch /\ app'.wait = FALSE /\ app'.up = FALSE
      BY <1>2, ProvisionEffect
    <2>2. disk' = disk /\ bundles' = bundles
      BY <1>2 DEF Provision
    <2>3. \A k \in Generate(boots', boots') : k[1] = boots' /\ k[2] = boots' /\ k[3] \in 1 .. Batch
      BY DEF Generate
    <2>4. \A k, l \in Generate(boots', boots') : k[3] = l[3] => k = l
      BY DEF Generate
    <2>5. Store(app', boots', DOMAIN bundles')
      BY <1>0, <2>1, <2>3, <2>4 DEF Store
    <2>6. Counters'
      BY <1>0, <2>1, <2>3 DEF Counters
    <2>7. disk # Null => Store(disk, boots', DOMAIN bundles)
      BY <1>0, <2>1, StoreGrows DEF Process
    <2>. QED
      BY <2>2, <2>5, <2>6, <2>7 DEF Process
  <1>3. CASE Publish
    <2>1. PICK id \in Nat, key \in Key : Published(id, key)
      BY <1>3, PublishEffect
    <2>2. boots' = boots /\ disk' = disk /\ bundles' = bundles
      BY <1>3 DEF Publish
    <2>3. /\ Store(app, boots, DOMAIN bundles) /\ Counters
          /\ app.next \in Nat /\ app.todo \in Nat /\ app.todo <= Batch
      BY <2>1 DEF Published, Process, Shape, App
    <2>4. key[1] = app.identity /\ key[2] = boots /\ key[3] = id /\ boots >= 1
      BY <1>0, <2>1, <2>3 DEF Published, Counters, Store
    <2>5. id \in 1 .. app'.next - 1 /\ app'.next >= app.next /\ app'.next \in 1 .. MaxId + 1
      <3>1. /\ app.next \in 1 .. MaxId + 1 /\ ~app.wait /\ app.todo > 0
            /\ app.up => app.next + app.todo <= MaxId + 1
            /\ ~app.up => app.next = Batch + 1
        BY <2>1, <2>3 DEF Published, Counters, Store
      <3>2. /\ id = IF app.up THEN app.next ELSE Batch + 1 - app.todo
            /\ app'.next = (IF app.up THEN app.next + 1 ELSE app.next)
        BY <2>1 DEF Published
      <3>3. CASE app.up
        BY <1>0, <2>3, <3>1, <3>2, <3>3
      <3>4. CASE ~app.up
        BY <1>0, <2>3, <3>1, <3>2, <3>4
      <3>. QED
        BY <3>3, <3>4
    <2>6. \A k \in app'.held : (k \in app.held /\ k[3] # id) \/ k = key
      BY <2>1 DEF Published
    <2>7. Store(app', boots, DOMAIN bundles)
      <3>1. \A k \in app'.held : k[1] = app'.identity /\ k[2] \in 1 .. boots /\ k[3] \in 1 .. app'.next - 1
        <4>1. /\ app'.identity = app.identity /\ app'.next \in Nat
              /\ \A k \in app.held : k[1] = app.identity /\ k[2] \in 1 .. boots /\ k[3] \in 1 .. app.next - 1
          BY <2>1, <2>3, <2>5 DEF Published, Store
        <4>2. \A j \in 1 .. app.next - 1 : j \in 1 .. app'.next - 1
          BY <2>3, <2>5, <4>1
        <4>3. ASSUME NEW k \in app.held
              PROVE  k[1] = app'.identity /\ k[2] \in 1 .. boots /\ k[3] \in 1 .. app'.next - 1
          BY <4>1, <4>2
        <4>4. key[1] = app'.identity /\ key[2] \in 1 .. boots /\ key[3] \in 1 .. app'.next - 1
          BY <1>0, <2>4, <2>5, <4>1
        <4>. QED
          BY <2>6, <4>3, <4>4
      <3>2. \A k, l \in app'.held : k[3] = l[3] => k = l
        BY <2>3, <2>4, <2>6 DEF Store
      <3>. QED
        BY <2>1, <2>3, <2>5, <3>1, <3>2 DEF Published, Store
    <2>8. Counters'
      <3>1. CASE app.up
        BY <1>0, <2>1, <2>2, <2>3, <3>1 DEF Published, Counters
      <3>2. CASE ~app.up
        BY <1>0, <2>1, <2>2, <2>3, <2>4, <2>6, <3>2 DEF Published, Counters
      <3>. QED
        BY <3>1, <3>2
    <2>. QED
      BY <2>2, <2>7, <2>8 DEF Process
  <1>4. CASE PublishFails
    <2>1. CASE app.up
      <3>1. app \in App /\ app # Null /\ app.wait /\ app.todo > 0
        BY <1>4 DEF PublishFails, Shape
      <3>2. /\ app'.boot = app.boot /\ app'.identity = app.identity /\ app'.next = app.next
            /\ app'.held = app.held /\ app'.opened = app.opened
            /\ app'.todo = 0 /\ app'.wait = FALSE /\ app'.up = app.up
        BY <1>4, <2>1, <3>1 DEF PublishFails, App
      <3>3. app.next \in Nat /\ app.todo \in Nat /\ Counters /\ Store(app, boots, DOMAIN bundles)
        BY <3>1 DEF App, Process
      <3>4. Counters'
        BY <1>0, <1>4, <2>1, <3>1, <3>2, <3>3 DEF Counters, PublishFails
      <3>5. Store(app', boots, DOMAIN bundles)
        BY <3>2, <3>3 DEF Store
      <3>. QED
        BY <1>4, <3>4, <3>5 DEF PublishFails, Process
    <2>2. CASE ~app.up
      BY <1>4, <2>2 DEF PublishFails, Process
    <2>. QED
      BY <2>1, <2>2
  <1>5. CASE Persist
    <2>1. Store(app, boots, DOMAIN bundles) /\ app' = app /\ boots' = boots /\ bundles' = bundles
      BY <1>5 DEF Persist, Process
    <2>2. Store(disk', boots, DOMAIN bundles)
      BY <1>5, <2>1 DEF Persist, Store
    <2>. QED
      BY <2>1, <2>2 DEF Process, Counters
  <1>6. CASE Crash
    BY <1>6 DEF Crash, Process
  <1>7. CASE Resume
    <2>1. /\ disk # Null /\ disk \in Save /\ boots' = boots + 1
          /\ app'.boot = boots' /\ app'.identity = disk.identity /\ app'.next = disk.next
          /\ app'.held = disk.held /\ app'.opened = disk.opened
          /\ app'.todo = 0 /\ app'.wait = FALSE /\ app'.up = TRUE
      BY <1>7, ResumeEffect
    <2>2. bundles' = bundles /\ disk' = disk
      BY <1>7 DEF Resume
    <2>3. Store(disk, boots', DOMAIN bundles)
      BY <1>0, <2>1, StoreGrows DEF Process
    <2>4. Store(app', boots', DOMAIN bundles)
      BY <2>1, <2>3 DEF Store
    <2>5. Counters'
      BY <1>0, <2>1, <2>3 DEF Counters, Store
    <2>. QED
      BY <2>2, <2>3, <2>4, <2>5 DEF Process
  <1>8. ASSUME NEW i \in DOMAIN bundles, OpenPreKey(i)
        PROVE  Process'
    <2>1. app \in App /\ app # Null /\ app.up
      BY <1>8 DEF OpenPreKey, Shape
    <2>2. /\ app'.boot = app.boot /\ app'.identity = app.identity /\ app'.next = app.next
          /\ app'.held \subseteq app.held /\ app'.opened = app.opened \cup {i}
          /\ app'.todo = app.todo /\ app'.wait = app.wait /\ app'.up = app.up
      BY <1>8, <2>1 DEF OpenPreKey, App
    <2>3. Counters /\ Store(app, boots, DOMAIN bundles)
      BY <2>1 DEF Process
    <2>4. Store(app', boots, DOMAIN bundles)
      BY <2>2, <2>3 DEF Store
    <2>5. Counters'
      BY <1>8, <2>1, <2>2, <2>3 DEF Counters, OpenPreKey
    <2>. QED
      BY <1>8, <2>4, <2>5 DEF OpenPreKey, Process
  <1>9. ASSUME NEW q \in requests, RegisterCommit(q)
        PROVE  Process'
    <2>1. boots' = boots /\ disk' = disk /\ bundles' = bundles
      BY <1>9 DEF RegisterCommit
    <2>2. CASE app' = app
      BY <1>1, <2>1, <2>2
    <2>3. CASE WentOn
      <3>1. /\ Counters /\ Store(app, boots, DOMAIN bundles)
            /\ app.todo \in Nat /\ app.todo <= Batch /\ app.next \in Nat
        BY <2>3 DEF WentOn, Process, Shape, App
      <3>2. Store(app', boots, DOMAIN bundles)
        BY <2>3, <3>1 DEF WentOn, Store
      <3>3. Counters'
        <4>1. CASE app.up
          BY <1>0, <2>1, <2>3, <3>1, <4>1 DEF WentOn, Counters
        <4>2. CASE ~app.up
          BY <1>0, <2>1, <2>3, <3>1, <4>2 DEF WentOn, Counters
        <4>. QED
          BY <4>1, <4>2
      <3>. QED
        BY <2>1, <3>2, <3>3 DEF Process
    <2>. QED
      BY <1>9, <2>2, <2>3, AnsweredEffect DEF RegisterCommit
  <1>10. ASSUME NEW f \in fetches, NEW r \in f.left, BuildBundle(f, r)
         PROVE  Process'
    <2>1. PICK key \in Key \cup {Null} : Built(f, r, key)
      BY <1>10, BuildBundleEffect
    <2>2. DOMAIN bundles \subseteq DOMAIN bundles'
      BY <1>0, <2>1 DEF Built
    <2>3. boots' = boots /\ app' = app /\ disk' = disk
      BY <1>10 DEF BuildBundle
    <2>4. app # Null => Store(app, boots, DOMAIN bundles')
      BY <1>0, <2>2, StoreGrows DEF Process
    <2>5. disk # Null => Store(disk, boots, DOMAIN bundles')
      BY <1>0, <2>2, StoreGrows DEF Process
    <2>. QED
      BY <2>3, <2>4, <2>5 DEF Process, Counters
  <1>11. ASSUME NEW f \in fetches, Replenish(f)
         PROVE  Process'
    <2>1. app \in App /\ app # Null /\ app.up
      BY <1>11 DEF Replenish, Self, Shape
    <2>2. /\ app'.boot = app.boot /\ app'.identity = app.identity /\ app'.next = app.next
          /\ app'.held = app.held /\ app'.opened = app.opened
          /\ app'.todo = Batch /\ app'.wait = app.wait /\ app'.up = app.up
      BY <1>11, <2>1 DEF Replenish, App
    <2>3. /\ Counters /\ Store(app, boots, DOMAIN bundles) /\ app.next \in Nat
          /\ app.next + Batch <= MaxId + 1
      BY <1>11, <2>1 DEF Process, App, Replenish
    <2>4. Store(app', boots, DOMAIN bundles)
      BY <2>2, <2>3 DEF Store
    <2>5. boots' = boots /\ disk' = disk /\ bundles' = bundles
      BY <1>11 DEF Replenish, FetchEnds
    <2>6. Counters'
      BY <1>0, <2>1, <2>2, <2>3, <2>5 DEF Counters
    <2>. QED
      BY <2>4, <2>5, <2>6 DEF Process
  <1>12. ASSUME NEW q \in requests, HandlePublish(q)
         PROVE  Process'
    BY <1>1, <1>9, <1>12 DEF HandlePublish, RegisterFind
  <1>13. ASSUME NEW f \in fetches, PeerAnswered(f) \/ PeekSuffices(f)
         PROVE  Process'
    BY <1>1, <1>13 DEF PeerAnswered, PeekSuffices, FetchEnds
  <1>14. CASE Peek \/ \E p \in Peers : PeerFetch(p)
    BY <1>1, <1>14 DEF Peek, PeerFetch, FetchBegin
  <1>15. CASE UNCHANGED vars
    BY <1>1, <1>15 DEF vars
  <1>. QED
    BY <1>2, <1>3, <1>4, <1>5, <1>6, <1>7, <1>8, <1>10, <1>11, <1>12, <1>13, <1>14, <1>15
       DEF Next, Signup, ReregisterDevice

---------------------------------------------------------------------------
(***************************************************************************)
(* Numbered                                                                *)
(***************************************************************************)
\* No key is in use to begin with.
LEMMA NumberedInit == Init => Numbered
  BY DEF Init, Numbered

\* No step makes a used key fresh again: within a boot the numbers go up, and a
\* restart begins a boot.
LEMMA UsedStays ==
  ASSUME Shape, Process, [Next]_vars, NEW k \in Key, Used(k)
  PROVE  Used(k)'
  <1>0. /\ boots \in Nat /\ Batch \in Nat \ {0} /\ MaxId \in Nat /\ k[2] \in Nat /\ k[3] \in Nat
        /\ k \in Keys /\ k[2] <= boots
    BY DirectoryAssumption DEF Shape, Key, Used
  <1>1. CASE boots' = boots /\ app' = app
    BY <1>1 DEF Used, NextId
  <1>2. CASE boots' = boots /\ app' = Null
    BY <1>0, <1>2 DEF Used
  <1>3. CASE boots' = boots + 1 /\ app'.boot = boots'
    BY <1>0, <1>3 DEF Used
  <1>4. CASE /\ app # Null /\ app.up /\ boots' = boots
             /\ app'.boot = app.boot /\ app'.next = app.next /\ app'.up = app.up
    BY <1>0, <1>4 DEF Used, NextId
  <1>5. CASE Publish
    <2>1. PICK id \in Nat, key \in Key : Published(id, key)
      BY <1>5, PublishEffect
    <2>2. app.next \in Nat /\ app.todo \in Nat /\ boots' = boots
      BY <1>5, <2>1 DEF Published, App, Publish
    <2>3. k[2] = app.boot => k[3] < NextId
      BY <2>1 DEF Used, Published
    <2>4. NextId' = NextId + 1 /\ NextId \in Int /\ app'.boot = app.boot
      <3>1. CASE app.up
        BY <2>1, <2>2, <3>1 DEF Published, NextId
      <3>2. CASE ~app.up
        BY <1>0, <2>1, <2>2, <3>2 DEF Published, NextId
      <3>. QED
        BY <3>1, <3>2
    <2>. QED
      BY <1>0, <2>2, <2>3, <2>4 DEF Used
  <1>6. CASE WentOn /\ boots' = boots
    <2>1. app.next \in Nat /\ app.todo \in Nat /\ Counters
      BY <1>6 DEF WentOn, App, Process
    <2>2. k[2] = app.boot => k[3] < NextId
      BY <1>6 DEF Used, WentOn
    <2>3. NextId' = NextId /\ app'.boot = app.boot
      <3>1. CASE app.up
        BY <1>6, <3>1 DEF WentOn, NextId
      <3>2. CASE ~app.up /\ app.todo = 1
        BY <1>0, <1>6, <2>1, <3>2 DEF WentOn, NextId, Counters
      <3>3. CASE ~app.up /\ app.todo # 1
        BY <1>0, <1>6, <2>1, <3>3 DEF WentOn, NextId
      <3>. QED
        BY <3>1, <3>2, <3>3
    <2>. QED
      BY <1>0, <1>6, <2>2, <2>3 DEF Used
  <1>7. CASE PublishFails
    <2>1. CASE app.up
      <3>1. app \in App /\ app # Null
        BY <1>7 DEF PublishFails, Shape
      <3>2. app'.boot = app.boot /\ app'.next = app.next /\ app'.up = app.up
        BY <1>7, <2>1, <3>1 DEF PublishFails, App
      <3>. QED
        BY <1>4, <1>7, <2>1, <3>1, <3>2 DEF PublishFails
    <2>. QED
      BY <1>2, <1>7, <2>1 DEF PublishFails
  <1>8. ASSUME NEW i \in DOMAIN bundles, OpenPreKey(i)
        PROVE  Used(k)'
    <2>1. app \in App /\ app # Null /\ app.up
      BY <1>8 DEF OpenPreKey, Shape
    <2>2. app'.boot = app.boot /\ app'.next = app.next /\ app'.up = app.up
      BY <1>8, <2>1 DEF OpenPreKey, App
    <2>. QED
      BY <1>4, <1>8, <2>1, <2>2 DEF OpenPreKey
  <1>9. ASSUME NEW f \in fetches, Replenish(f)
        PROVE  Used(k)'
    <2>1. app \in App /\ app # Null /\ app.up
      BY <1>9 DEF Replenish, Self, Shape
    <2>2. app'.boot = app.boot /\ app'.next = app.next /\ app'.up = app.up
      BY <1>9, <2>1 DEF Replenish, App
    <2>. QED
      BY <1>4, <1>9, <2>1, <2>2 DEF Replenish, FetchEnds
  <1>10. ASSUME NEW q \in requests, HandlePublish(q)
         PROVE  Used(k)'
    BY <1>1, <1>6, <1>10, AnsweredEffect DEF HandlePublish, RegisterFind, RegisterCommit
  <1>11. CASE Provision
    BY <1>3, <1>11, ProvisionEffect
  <1>12. CASE Resume
    BY <1>3, <1>12, ResumeEffect
  <1>13. CASE Persist \/ Crash
    BY <1>1, <1>2, <1>13 DEF Persist, Crash
  <1>14. ASSUME NEW f \in fetches,
                \/ \E r \in f.left : BuildBundle(f, r)
                \/ PeerAnswered(f) \/ PeekSuffices(f)
         PROVE  Used(k)'
    BY <1>1, <1>14 DEF BuildBundle, PeerAnswered, PeekSuffices, FetchEnds
  <1>15. CASE Peek \/ \E p \in Peers : PeerFetch(p)
    BY <1>1, <1>15 DEF Peek, PeerFetch, FetchBegin
  <1>16. CASE UNCHANGED vars
    BY <1>1, <1>16 DEF vars
  <1>. QED
    BY <1>5, <1>7, <1>8, <1>9, <1>10, <1>11, <1>12, <1>13, <1>14, <1>15, <1>16
       DEF Next, Signup, ReregisterDevice

\* The key of a new request is none in use, and is used afterwards.
LEMMA PublishFresh ==
  ASSUME Shape, Process, Publish, NEW id \in Nat, NEW key \in Key, Published(id, key)
  PROVE  ~Used(key) /\ Used(key)'
  <1>0. /\ boots \in Nat /\ boots <= MaxBoots /\ boots' = boots /\ MaxBoots \in Nat
        /\ Batch \in Nat \ {0} /\ MaxId \in Nat /\ Batch <= MaxId
    BY DirectoryAssumption DEF Shape, Publish
  <1>1. /\ app.next \in Nat /\ app.todo \in Nat /\ app.todo <= Batch /\ app.identity \in 1 .. boots
        /\ app.next >= 1 /\ Counters
    BY DEF Published, Shape, App, Process, Store
  <1>2. key[1] = app.identity /\ key[2] = app.boot /\ key[3] = id /\ app.boot = boots
    BY <1>1 DEF Published, Counters
  <1>3. id = NextId /\ NextId' = NextId + 1 /\ app'.boot = app.boot
    <2>1. CASE app.up
      BY <1>1, <2>1 DEF Published, NextId
    <2>2. CASE ~app.up
      BY <1>0, <1>1, <2>2 DEF Published, NextId
    <2>. QED
      BY <2>1, <2>2
  <1>4. id \in 1 .. MaxId
    <2>1. CASE app.up
      <3>1. id = app.next /\ app.todo > 0 /\ app.next + app.todo <= MaxId + 1
        BY <1>1, <2>1 DEF Published, Counters
      <3>. QED
        BY <1>0, <1>1, <3>1
    <2>2. CASE ~app.up
      <3>1. id = Batch + 1 - app.todo /\ app.todo > 0
        BY <2>2 DEF Published
      <3>. QED
        BY <1>0, <1>1, <3>1
    <2>. QED
      BY <2>1, <2>2
  <1>5. key \in Keys
    <2>1. key = <<app.identity, app.boot, id>>
      BY DEF Published
    <2>. QED
      BY <1>0, <1>1, <1>2, <1>4, <2>1 DEF Keys
  <1>6. ~Used(key)
    BY <1>2, <1>3 DEF Used, Published
  <1>7. Used(key)'
    BY <1>0, <1>2, <1>3, <1>5 DEF Used
  <1>. QED
    BY <1>6, <1>7

\* Numbered in the next state, key by key.
LEMMA NumberedNext ==
  ASSUME Shape',
         \A q \in requests' : Used(q.key)',
         \A o \in pool' : Used(o.key)',
         \A i \in DOMAIN bundles', k \in Key : bundles'[i].key = k => Used(k)'
  PROVE  Numbered'
  <1>1. \A i \in DOMAIN bundles' : bundles'[i].key # Null => bundles'[i].key \in Key
    <2>1. \A i \in DOMAIN bundles' : bundles'[i] \in Bundle
      BY DEF Shape
    <2>. QED
      BY <2>1 DEF Bundle
  <1>2. \A i \in DOMAIN bundles' : (bundles[i].key # Null => Used(bundles[i].key))'
    BY <1>1 DEF Used
  <1>. QED
    BY <1>2 DEF Numbered

\* Where the keys of the bundles come from.
LEMMA BuiltKeys ==
  ASSUME Shape, NEW f, NEW r, NEW key, Built(f, r, key)
  PROVE  \A i \in DOMAIN bundles' : \/ i \in DOMAIN bundles /\ bundles'[i].key = bundles[i].key
                                    \/ i = Len(bundles) + 1 /\ bundles'[i].key = key
  <1>1. /\ bundles' \in Seq(Bundle) /\ Len(bundles') = Len(bundles) + 1
        /\ \A i \in 1 .. Len(bundles) : bundles'[i] = bundles[i]
        /\ bundles'[Len(bundles) + 1].key = key
    BY DEF Built
  <1>2. DOMAIN bundles = 1 .. Len(bundles) /\ Len(bundles) \in Nat
    BY DEF Shape
  <1>3. DOMAIN bundles' = 1 .. Len(bundles) + 1
    BY <1>1
  <1>4. \A i \in 1 .. Len(bundles) + 1 : i \in 1 .. Len(bundles) \/ i = Len(bundles) + 1
    BY <1>2
  <1>. QED
    BY <1>1, <1>2, <1>3, <1>4, Zenon

\* The keys in use were there before, or are the one just numbered.
LEMMA NumberedStep == Shape /\ Process /\ Numbered /\ [Next]_vars => Numbered'
  <1>. SUFFICES ASSUME Shape, Process, Numbered, [Next]_vars
                PROVE  Numbered'
    OBVIOUS
  <1>. Shape'
    BY ShapeStep
  <1>0. /\ \A q \in requests : q.key \in Key /\ Used(q.key)'
        /\ \A o \in pool : o.key \in Key /\ Used(o.key)'
        /\ \A i \in DOMAIN bundles, k \in Key : bundles[i].key = k => Used(k)'
    <2>1. /\ \A q \in requests : q.key \in Key /\ Used(q.key)
          /\ \A o \in pool : o.key \in Key /\ Used(o.key)
          /\ \A i \in DOMAIN bundles, k \in Key : bundles[i].key = k => Used(k)
      BY DirectoryAssumption DEF Numbered, Shape, Request, OneTimePreKey
    <2>2. \A k \in Key : Used(k) => Used(k)'
      BY UsedStays
    <2>. QED
      BY <2>1, <2>2
  <1>1. CASE requests' \subseteq requests /\ UNCHANGED <<pool, bundles>>
    BY <1>0, <1>1, NumberedNext
  <1>2. CASE Publish
    <2>1. PICK id \in Nat, key \in Key : Published(id, key)
      BY <1>2, PublishEffect
    <2>2. Used(key)'
      BY <1>2, <2>1, PublishFresh
    <2>3. \A q \in requests' : q \in requests \/ q.key = key
      BY <2>1 DEF Published
    <2>4. \A q \in requests' : Used(q.key)'
      BY <1>0, <2>2, <2>3
    <2>. QED
      BY <1>0, <1>2, <2>4, NumberedNext DEF Publish
  <1>3. ASSUME NEW q \in requests, RegisterFind(q)
        PROVE  Numbered'
    <2>1. \A p \in requests' : \E r \in requests : p.key = r.key
      BY <1>3 DEF RegisterFind, Shape, Request
    <2>2. \A p \in requests' : Used(p.key)'
      BY <1>0, <2>1
    <2>. QED
      BY <1>0, <1>3, <2>2, NumberedNext DEF RegisterFind
  <1>4. ASSUME NEW q \in requests, RegisterCommit(q)
        PROVE  Numbered'
    <2>1. PICK row \in Nat : Filed(q, row)
      BY <1>4, CommitEffect
    <2>2. \A o \in pool' : o \in pool \/ o.key = q.key
      BY <2>1 DEF Filed
    <2>3. \A o \in pool' : Used(o.key)'
      BY <1>0, <2>2
    <2>4. requests' \subseteq requests /\ bundles' = bundles
      BY <1>4 DEF RegisterCommit
    <2>. QED
      BY <1>0, <2>3, <2>4, NumberedNext
  <1>5. ASSUME NEW f \in fetches, NEW r \in f.left, BuildBundle(f, r)
        PROVE  Numbered'
    <2>1. PICK key \in Key \cup {Null} : Built(f, r, key)
      BY <1>5, BuildBundleEffect
    <2>2. requests' = requests /\ pool' \subseteq pool
      BY <1>5, <2>1 DEF BuildBundle, Built
    <2>3. key # Null => Used(key)'
      <3>1. key # Null => \E o \in pool : o.key = key
        <4>1. [row |-> r, key |-> key].key = key
          OBVIOUS
        <4>. QED
          BY <2>1, <4>1 DEF Built
      <3>. QED
        BY <1>0, <3>1
    <2>4. \A i \in DOMAIN bundles', k \in Key : bundles'[i].key = k => Used(k)'
      <3>1. \A i \in DOMAIN bundles' : \/ i \in DOMAIN bundles /\ bundles'[i].key = bundles[i].key
                                       \/ i = Len(bundles) + 1 /\ bundles'[i].key = key
        BY <2>1, BuiltKeys
      <3>2. \A k \in Key : k = key => Used(k)'
        BY <2>3, DirectoryAssumption
      <3>. QED
        BY <1>0, <3>1, <3>2
    <2>. QED
      BY <1>0, <2>2, <2>4, NumberedNext
  <1>6. ASSUME NEW f \in fetches,
               \/ \E r \in f.left : BuildBundle(f, r)
               \/ PeerAnswered(f) \/ PeekSuffices(f) \/ Replenish(f)
        PROVE  Numbered'
    BY <1>1, <1>5, <1>6 DEF PeerAnswered, PeekSuffices, Replenish, FetchEnds
  <1>7. CASE Signup \/ ReregisterDevice \/ PublishFails \/ Persist \/ Crash \/ Resume
    BY <1>1, <1>7 DEF Signup, ReregisterDevice, Provision, PublishFails, Persist, Crash, Resume
  <1>8. CASE Peek \/ \E p \in Peers : PeerFetch(p)
    BY <1>1, <1>8 DEF Peek, PeerFetch, FetchBegin
  <1>9. CASE \E i \in DOMAIN bundles : OpenPreKey(i)
    BY <1>1, <1>9 DEF OpenPreKey
  <1>10. CASE UNCHANGED vars
    BY <1>1, <1>10 DEF vars
  <1>. QED
    BY <1>2, <1>3, <1>4, <1>6, <1>7, <1>8, <1>9, <1>10 DEF Next, HandlePublish

---------------------------------------------------------------------------
(***************************************************************************)
(* OneHolder                                                               *)
(***************************************************************************)
\* No key is held to begin with.
LEMMA OneHolderInit == Init => OneHolder
  BY DEF Init, OneHolder, OtpHandedOutOnce

\* A key moves from request to pool to bundle; a new one is fresh.
LEMMA OneHolderStep == Shape /\ Process /\ Numbered /\ OneHolder /\ [Next]_vars => OneHolder'
  <1>. SUFFICES ASSUME Shape, Process, Numbered, OneHolder, [Next]_vars
                PROVE  OneHolder'
    OBVIOUS
  <1>1. CASE requests' \subseteq requests /\ UNCHANGED <<pool, bundles>>
    BY <1>1 DEF OneHolder, OtpHandedOutOnce
  <1>2. CASE Publish
    <2>1. PICK id \in Nat, key \in Key : Published(id, key)
      BY <1>2, PublishEffect
    <2>2. ~Used(key) /\ UNCHANGED <<pool, bundles>>
      BY <1>2, <2>1, PublishFresh DEF Publish
    <2>3. PICK new : requests' = requests \cup {new} /\ new.key = key
      <3>1. [boot |-> app.boot, key |-> key, found |-> Null].key = key
        OBVIOUS
      <3>. QED
        BY <2>1, <3>1, Zenon DEF Published
    <2>4. /\ \A q \in requests : q.key # key
          /\ \A o \in pool : o.key # key
          /\ \A i \in DOMAIN bundles : bundles[i].key # Null => bundles[i].key # key
      BY <2>2 DEF Numbered
    <2>. QED
      BY <2>2, <2>3, <2>4 DEF OneHolder, OtpHandedOutOnce
  <1>3. ASSUME NEW q \in requests, RegisterFind(q)
        PROVE  OneHolder'
    <2>1. PICK new : requests' = (requests \ {q}) \cup {new} /\ new.key = q.key
      <3>1. PICK t : requests' = (requests \ {q}) \cup {[q EXCEPT !.found = t]}
        BY <1>3 DEF RegisterFind
      <3>2. [q EXCEPT !.found = t].key = q.key
        BY DEF Shape, Request
      <3>. QED
        BY <3>1, <3>2, Zenon
    <2>2. UNCHANGED <<pool, bundles>>
      BY <1>3 DEF RegisterFind
    <2>. QED
      BY <2>1, <2>2 DEF OneHolder, OtpHandedOutOnce
  <1>4. ASSUME NEW q \in requests, RegisterCommit(q)
        PROVE  OneHolder'
    <2>1. PICK row \in Nat : Filed(q, row)
      BY <1>4, CommitEffect
    <2>2. PICK new : pool' = pool \cup {new} /\ new.key = q.key
      <3>1. [row |-> row, key |-> q.key].key = q.key
        OBVIOUS
      <3>. QED
        BY <2>1, <3>1, Zenon DEF Filed
    <2>3. requests' = requests \ {q} /\ bundles' = bundles
      BY <1>4 DEF RegisterCommit
    <2>. QED
      BY <2>2, <2>3 DEF OneHolder, OtpHandedOutOnce
  <1>5. ASSUME NEW f \in fetches, NEW r \in f.left, BuildBundle(f, r)
        PROVE  OneHolder'
    <2>1. PICK key \in Key \cup {Null} : Built(f, r, key)
      BY <1>5, BuildBundleEffect
    <2>2. requests' = requests /\ pool' \subseteq pool
      BY <1>5, <2>1 DEF BuildBundle, Built
    <2>3. key # Null => /\ \A q \in requests : q.key # key
                        /\ \A o \in pool' : o.key # key
                        /\ \A i \in DOMAIN bundles : bundles[i].key # key
      <3>1. key # Null => \E p \in pool : p.key = key /\ pool' = pool \ {p}
        BY <2>1 DEF Built
      <3>. QED
        BY <3>1 DEF OneHolder
    <2>4. \A i \in DOMAIN bundles' : \/ i \in DOMAIN bundles /\ bundles'[i].key = bundles[i].key
                                     \/ i = Len(bundles) + 1 /\ bundles'[i].key = key
      BY <2>1, BuiltKeys
    <2>5. OtpHandedOutOnce'
      BY <2>3, <2>4 DEF OneHolder, OtpHandedOutOnce
    <2>6. \A i \in DOMAIN bundles' : bundles'[i].key # Null =>
             /\ \A q \in requests : q.key # bundles'[i].key
             /\ \A o \in pool' : o.key # bundles'[i].key
      BY <2>2, <2>3, <2>4 DEF OneHolder
    <2>. QED
      BY <2>2, <2>5, <2>6 DEF OneHolder
  <1>6. ASSUME NEW f \in fetches,
               \/ \E r \in f.left : BuildBundle(f, r)
               \/ PeerAnswered(f) \/ PeekSuffices(f) \/ Replenish(f)
        PROVE  OneHolder'
    BY <1>1, <1>5, <1>6 DEF PeerAnswered, PeekSuffices, Replenish, FetchEnds
  <1>7. CASE Signup \/ ReregisterDevice \/ PublishFails \/ Persist \/ Crash \/ Resume
    BY <1>1, <1>7 DEF Signup, ReregisterDevice, Provision, PublishFails, Persist, Crash, Resume
  <1>8. CASE Peek \/ \E p \in Peers : PeerFetch(p)
    BY <1>1, <1>8 DEF Peek, PeerFetch, FetchBegin
  <1>9. CASE \E i \in DOMAIN bundles : OpenPreKey(i)
    BY <1>1, <1>9 DEF OpenPreKey
  <1>10. CASE UNCHANGED vars
    BY <1>1, <1>10 DEF vars
  <1>. QED
    BY <1>2, <1>3, <1>4, <1>6, <1>7, <1>8, <1>9, <1>10 DEF Next, HandlePublish

---------------------------------------------------------------------------
(***************************************************************************)
(* Kept                                                                    *)
(***************************************************************************)
\* No key has been saved to begin with.
LEMMA KeptInit == Init => Kept
  BY DEF Init, Kept

\* What a store holds are one-time prekeys within the bounds.
LEMMA HeldKeys ==
  ASSUME NEW s, s.held \in SUBSET Key, NEW n \in Nat, n <= MaxBoots, NEW B, Store(s, n, B)
  PROVE  \A k \in s.held : k \in Keys /\ k[1] <= n
  <1>. TAKE k \in s.held
  <1>1. k \in Nat \X Nat \X Nat /\ MaxBoots \in Nat /\ MaxId \in Nat
    BY DirectoryAssumption DEF Key
  <1>2. k[1] \in 1 .. n /\ k[2] \in 1 .. n /\ k[3] \in 1 .. s.next - 1 /\ s.next \in 1 .. MaxId + 1
    BY DEF Store
  <1>3. k[1] \in 1 .. MaxBoots /\ k[2] \in 1 .. MaxBoots /\ k[3] \in 1 .. MaxId
    BY <1>1, <1>2
  <1>4. k = <<k[1], k[2], k[3]>>
    BY <1>1
  <1>. QED
    BY <1>2, <1>3, <1>4 DEF Keys

\* Whether a store covers the saved keys depends on its contents only.
LEMMA CoversSame ==
  ASSUME NEW s, NEW t, NEW saved, NEW given, Covers(s, saved, given),
         t.identity = s.identity, t.held = s.held, t.opened = s.opened
  PROVE  Covers(t, saved, given)
  BY DEF Covers

\* A held key is replaced by itself only, or spent on a bundle.
LEMMA KeptStep == Shape /\ Process /\ Kept /\ [Next]_vars => Kept'
  <1>. SUFFICES ASSUME Shape, Process, Kept, [Next]_vars
                PROVE  Kept'
    OBVIOUS
  <1>0. boots \in Nat /\ boots <= MaxBoots /\ \A k \in ever : k \in Keys /\ k \in Key /\ k[1] \in Nat /\ k[1] <= boots
    BY DEF Shape, Kept, Key
  <1>1. CASE UNCHANGED <<boots, ever, app, disk, bundles>>
    BY <1>1 DEF Kept
  <1>2. CASE Provision
    <2>1. /\ boots' = boots + 1 /\ app'.identity = boots' /\ UNCHANGED <<ever, disk, bundles>>
      BY <1>2, ProvisionEffect DEF Provision
    <2>2. \A k \in ever : k[1] <= boots' /\ k[1] # boots'
      BY <1>0, <2>1
    <2>3. Covers(app', ever, bundles)
      BY <2>1, <2>2 DEF Covers
    <2>. QED
      BY <1>0, <2>1, <2>2, <2>3 DEF Kept
  <1>3. CASE Publish
    <2>1. PICK id \in Nat, key \in Key : Published(id, key)
      BY <1>3, PublishEffect
    <2>2. UNCHANGED <<boots, ever, disk, bundles>>
      BY <1>3 DEF Publish
    <2>3. Store(app, boots, DOMAIN bundles) /\ Counters /\ Covers(app, ever, bundles) /\ app.next \in Nat
      BY <2>1 DEF Published, Process, Kept, App
    <2>4. ASSUME NEW k \in app.held
          PROVE  k \in app'.held
      <3>1. k \in Key /\ key = <<app.identity, app.boot, id>>
        BY <2>1 DEF Published, App
      <3>2. k[1] = app.identity /\ k[3] \in 1 .. app.next - 1
        BY <2>3 DEF Store
      <3>3. CASE app.up
        <4>1. k[3] # id
          BY <2>1, <2>3, <3>2, <3>3 DEF Published
        <4>. QED
          BY <2>1, <4>1 DEF Published
      <3>4. CASE ~app.up
        <4>1. k[3] = id => k = key
          BY <2>3, <3>1, <3>2, <3>4 DEF Counters, Key
        <4>. QED
          BY <2>1, <4>1 DEF Published
      <3>. QED
        BY <3>3, <3>4
    <2>5. app'.identity = app.identity /\ app'.opened = app.opened
      BY <2>1 DEF Published
    <2>6. Covers(app', ever, bundles)
      BY <2>3, <2>4, <2>5 DEF Covers
    <2>. QED
      BY <2>2, <2>6 DEF Kept
  <1>4. CASE /\ app # Null /\ UNCHANGED <<boots, ever, disk, bundles>>
             /\ app'.identity = app.identity /\ app'.held = app.held /\ app'.opened = app.opened
    <2>1. Covers(app', ever, bundles)
      BY <1>4, CoversSame DEF Kept
    <2>. QED
      BY <1>4, <2>1 DEF Kept
  <1>5. CASE PublishFails
    <2>1. app \in App /\ app # Null
      BY <1>5 DEF PublishFails, Shape
    <2>2. CASE app.up
      <3>1. app'.identity = app.identity /\ app'.held = app.held /\ app'.opened = app.opened
        BY <1>5, <2>1, <2>2 DEF PublishFails, App
      <3>. QED
        BY <1>4, <1>5, <2>1, <3>1 DEF PublishFails
    <2>3. CASE ~app.up
      BY <1>5, <2>3 DEF PublishFails, Kept
    <2>. QED
      BY <2>2, <2>3
  <1>6. CASE Persist
    <2>1. /\ app \in App /\ app # Null /\ UNCHANGED <<boots, app, bundles>> /\ ever' = ever \cup app.held
          /\ Covers(app, ever, bundles) /\ Store(app, boots, DOMAIN bundles) /\ app.held \in SUBSET Key
      BY <1>6 DEF Persist, Shape, Kept, Process, App
    <2>2. \A k \in ever' : k \in Keys /\ k[1] <= boots
      BY <1>0, <2>1, HeldKeys
    <2>3. Covers(app, ever', bundles)
      BY <2>1 DEF Covers
    <2>4. disk'.identity = app.identity /\ disk'.held = app.held /\ disk'.opened = app.opened
      BY <1>6 DEF Persist
    <2>5. Covers(disk', ever', bundles)
      BY <2>3, <2>4 DEF Covers
    <2>. QED
      BY <2>1, <2>2, <2>3, <2>5 DEF Kept
  <1>7. CASE Crash
    BY <1>7 DEF Crash, Kept
  <1>8. CASE Resume
    <2>1. /\ disk # Null /\ boots' = boots + 1 /\ UNCHANGED <<ever, disk, bundles>>
          /\ app'.identity = disk.identity /\ app'.held = disk.held /\ app'.opened = disk.opened
      BY <1>8, ResumeEffect DEF Resume
    <2>2. Covers(app', ever, bundles)
      BY <2>1, CoversSame DEF Kept
    <2>3. \A k \in ever : k[1] <= boots'
      BY <1>0, <2>1
    <2>. QED
      BY <1>0, <2>1, <2>2, <2>3 DEF Kept
  <1>9. ASSUME NEW i \in DOMAIN bundles, OpenPreKey(i)
        PROVE  Kept'
    <2>1. app \in App /\ app # Null /\ UNCHANGED <<boots, ever, disk, bundles>>
      BY <1>9 DEF OpenPreKey, Shape
    <2>2. /\ app'.identity = app.identity /\ app'.held = app.held \ {bundles[i].key}
          /\ app'.opened = app.opened \cup {i}
      BY <1>9, <2>1 DEF OpenPreKey, App
    <2>3. Covers(app', ever, bundles)
      BY <2>1, <2>2 DEF Covers, Kept
    <2>. QED
      BY <2>1, <2>3 DEF Kept
  <1>10. ASSUME NEW q \in requests, HandlePublish(q)
         PROVE  Kept'
    <2>1. CASE RegisterFind(q)
      BY <1>1, <2>1 DEF RegisterFind
    <2>2. CASE RegisterCommit(q)
      <3>1. app' = app \/ WentOn
        BY <2>2, AnsweredEffect DEF RegisterCommit
      <3>2. UNCHANGED <<boots, ever, disk, bundles>>
        BY <2>2 DEF RegisterCommit
      <3>. QED
        BY <1>1, <1>4, <3>1, <3>2 DEF WentOn
    <2>. QED
      BY <1>10, <2>1, <2>2 DEF HandlePublish
  <1>11. ASSUME NEW f \in fetches, NEW r \in f.left, BuildBundle(f, r)
         PROVE  Kept'
    <2>1. PICK key \in Key \cup {Null} : Built(f, r, key)
      BY <1>11, BuildBundleEffect
    <2>2. UNCHANGED <<boots, ever, app, disk>>
      BY <1>11 DEF BuildBundle
    <2>3. \A i \in DOMAIN bundles : bundles'[i].key = bundles[i].key
      BY <2>1 DEF Built, Shape
    <2>4. app # Null => Covers(app, ever, bundles')
      BY <2>3 DEF Kept, Covers, Process, Store
    <2>5. disk # Null => Covers(disk, ever, bundles')
      BY <2>3 DEF Kept, Covers, Process, Store
    <2>. QED
      BY <2>2, <2>4, <2>5 DEF Kept
  <1>12. ASSUME NEW f \in fetches, Replenish(f)
         PROVE  Kept'
    <2>1. app \in App /\ app # Null
      BY <1>12 DEF Replenish, Self, Shape
    <2>2. app'.identity = app.identity /\ app'.held = app.held /\ app'.opened = app.opened
      BY <1>12, <2>1 DEF Replenish, App
    <2>. QED
      BY <1>4, <1>12, <2>1, <2>2 DEF Replenish, FetchEnds
  <1>13. ASSUME NEW f \in fetches, PeerAnswered(f) \/ PeekSuffices(f)
         PROVE  Kept'
    BY <1>1, <1>13 DEF PeerAnswered, PeekSuffices, FetchEnds
  <1>14. CASE Peek \/ \E p \in Peers : PeerFetch(p)
    BY <1>1, <1>14 DEF Peek, PeerFetch, FetchBegin
  <1>15. CASE UNCHANGED vars
    BY <1>1, <1>15 DEF vars
  <1>. QED
    BY <1>2, <1>3, <1>5, <1>6, <1>7, <1>8, <1>9, <1>10, <1>11, <1>12, <1>13, <1>14, <1>15
       DEF Next, Signup, ReregisterDevice

---------------------------------------------------------------------------
(***************************************************************************)
(* The properties                                                          *)
(***************************************************************************)

\* The layers together are inductive.
Directory == Shape /\ RowKeys /\ Process /\ Numbered /\ OneHolder /\ Kept

\* The layers hold in every reachable state.
LEMMA Invariance == Spec => []Directory
  <1>1. Init => Directory
    BY ShapeInit, RowKeysInit, ProcessInit, NumberedInit, OneHolderInit, KeptInit DEF Directory
  <1>2. Directory /\ [Next]_vars => Directory'
    BY ShapeStep, RowKeysStep, ProcessStep, NumberedStep, OneHolderStep, KeptStep DEF Directory
  <1>. QED
    BY <1>1, <1>2, PTL DEF Spec

\* registerDevice, fetchPreKeyBundles and the client's stores keep their types
\* and bounds: every key on file was generated, a request or a fetch under way
\* refers to rows that exist, and a store has one key per id.
THEOREM DirectoryTypes == Spec => []TypeOK
  <1>1. ASSUME Directory PROVE TypeOK
    <2>. USE <1>1
    <2>1. /\ taken \in BOOLEAN /\ boots \in 0 .. MaxBoots /\ count \in 0 .. MaxFetches
          /\ ever \subseteq Keys
      BY DirectoryAssumption DEF Directory, Shape, Kept
    <2>2. \A o \in pool : o.row \in DOMAIN rows /\ o.key \in Keys
      BY DEF Directory, RowKeys, Numbered, Used
    <2>3. \A q \in requests : q.key \in Keys /\ (q.found = Null \/ q.found \in 0 .. Len(rows))
      BY DEF Directory, Shape, Numbered, Used
    <2>4. \A f \in fetches : f.left \subseteq DOMAIN rows /\ f.by \in Peers \cup {Self}
      BY DEF Directory, Shape, Fetch, Self
    <2>5. boots \in Nat /\ boots <= MaxBoots
      BY DEF Directory, Shape
    <2>6. app # Null => /\ app.held \subseteq Keys
                        /\ \A k, l \in app.held : IdOf(k) = IdOf(l) => k = l
      <3>1. app # Null => app.held \in SUBSET Key /\ Store(app, boots, DOMAIN bundles)
        BY DEF Directory, Shape, Process, App
      <3>2. app # Null => \A k \in app.held : k \in Keys
        BY <2>5, <3>1, HeldKeys
      <3>. QED
        BY <3>1, <3>2 DEF Store, IdOf
    <2>7. disk # Null => /\ disk.held \subseteq Keys
                         /\ \A k, l \in disk.held : IdOf(k) = IdOf(l) => k = l
      <3>1. disk # Null => disk.held \in SUBSET Key /\ Store(disk, boots, DOMAIN bundles)
        BY DEF Directory, Shape, Process, Save
      <3>2. disk # Null => \A k \in disk.held : k \in Keys
        BY <2>5, <3>1, HeldKeys
      <3>. QED
        BY <3>1, <3>2 DEF Store, IdOf
    <2>. QED
      BY <2>1, <2>2, <2>3, <2>4, <2>6, <2>7 DEF TypeOK
  <1>. QED
    BY <1>1, Invariance, PTL

\* registerDevice against fetchPreKeyBundles: for any overlap of registrations
\* and fetches, a bundle is of one install.
THEOREM OneInstall == Spec => []BundleOfOneInstall
  <1>1. Directory => BundleOfOneInstall
    BY DEF Directory, RowKeys
  <1>. QED
    BY <1>1, Invariance, PTL

\* consumeOneTimePreKey together with the numbering of ids: no one-time prekey
\* is handed out twice, by any number of concurrent fetches.
THEOREM HandedOutOnce == Spec => []OtpHandedOutOnce
  <1>1. Directory => OtpHandedOutOnce
    BY DEF Directory, OneHolder
  <1>. QED
    BY <1>1, Invariance, PTL

\* nextPreKeyId and the stores saved together: through crashes, restarts and
\* reinstalls, a saved one-time prekey opens the message of the peer given it.
THEOREM SavedOpens == Spec => []SavedPreKeyOpens
  <1>1. ASSUME Directory PROVE SavedPreKeyOpens
    <2>. SUFFICES ASSUME app # Null, NEW i \in DOMAIN bundles,
                         bundles[i].identity = app.identity, bundles[i].key \in ever
                  PROVE  i \in app.opened \/ bundles[i].key \in app.held
      BY DEF SavedPreKeyOpens
    <2>1. bundles[i].key # Null
      BY <1>1, DirectoryAssumption DEF Directory, Shape
    <2>2. bundles[i].key[1] = app.identity
      BY <1>1, <2>1 DEF Directory, RowKeys, BundleOfOneInstall
    <2>3. bundles[i].key \in app.held \/ \E j \in app.opened : bundles[j].key = bundles[i].key
      BY <1>1, <2>2 DEF Directory, Kept, Covers
    <2>4. \A j \in app.opened : j \in DOMAIN bundles
      BY <1>1 DEF Directory, Process, Store
    <2>5. \A j \in DOMAIN bundles : bundles[j].key = bundles[i].key => j = i
      BY <1>1, <2>1 DEF Directory, OneHolder, OtpHandedOutOnce
    <2>. QED
      BY <2>3, <2>4, <2>5
  <1>. QED
    BY <1>1, Invariance, PTL

---------------------------------------------------------------------------
(***************************************************************************)
(* Registrations that do not overlap                                       *)
(***************************************************************************)

\* A registration reads the active row only while no other is between its read
\* and its commit, as under a lock on the device or serialisable isolation.
OneRegistration ==
  \A q \in requests : RegisterFind(q) => \A other \in requests : other.found = Null

\* The one registration under way has found the active row, if there is one.
Serial ==
    /\ \A q, r \in requests : q.found # Null /\ r.found # Null => q = r
    /\ \A q \in requests : q.found # Null => ActiveRows \subseteq {q.found}
    /\ \A r, s \in ActiveRows : r = s

\* findFirst comes upon the only active row.
LEMMA SerialFind ==
  ASSUME Shape, Serial, OneRegistration, NEW q \in requests, RegisterFind(q)
  PROVE  Serial'
  <1>1. PICK r \in IF ActiveRows = {} THEN {0} ELSE ActiveRows :
          requests' = (requests \ {q}) \cup {[q EXCEPT !.found = r]}
    BY DEF RegisterFind
  <1>2. rows' = rows /\ \A other \in requests : other.found = Null
    BY DEF RegisterFind, OneRegistration
  <1>. DEFINE n == [q EXCEPT !.found = r]
  <1>3. n.found = r
    BY DEF Shape, Request
  <1>. HIDE DEF n
  <1>4. \A x \in requests' : x = n \/ x.found = Null
    BY <1>1, <1>2 DEF n
  <1>5. ActiveRows' = ActiveRows
    BY <1>2 DEF ActiveRows
  <1>6. ActiveRows \subseteq {r}
    BY <1>1 DEF Serial
  <1>7. \A x, y \in requests' : x.found # Null /\ y.found # Null => x = y
    BY <1>4
  <1>8. \A x \in requests' : x.found # Null => ActiveRows' \subseteq {x.found}
    BY <1>3, <1>4, <1>5, <1>6
  <1>9. \A x, y \in ActiveRows' : x = y
    BY <1>5 DEF Serial
  <1>. QED
    BY <1>7, <1>8, <1>9 DEF Serial

\* The commit refreshes that row or puts another in its place.
LEMMA SerialCommit ==
  ASSUME Shape, Serial, NEW q \in requests, RegisterCommit(q)
  PROVE  Serial'
  <1>1. q.found # Null /\ requests' = requests \ {q}
    BY DEF RegisterCommit
  <1>2. \A x \in requests' : x.found = Null
    BY <1>1 DEF Serial
  <1>3. q.found \in 0 .. Len(rows) /\ rows \in Seq(Row) /\ q.key[1] \in Nat
    BY <1>1 DEF Shape, Request, Key
  <1>4. \A r \in 1 .. Len(rows) : r # q.found => ~rows[r].active
    BY <1>1, <1>3 DEF Serial, ActiveRows
  <1>5. \A r, s \in ActiveRows' : r = s
    <2>1. CASE SameIdentity(q)
      <3>1. rows' = rows
        BY <2>1 DEF RegisterCommit
      <3>. QED
        BY <3>1 DEF Serial, ActiveRows
    <2>2. CASE ~SameIdentity(q)
      <3>1. /\ CloseOut(q) \in Seq(Row) /\ Len(CloseOut(q)) = Len(rows)
            /\ \A r \in 1 .. Len(rows) : ~CloseOut(q)[r].active
        <4>1. CASE q.found = 0
          BY <1>3, <1>4, <4>1 DEF CloseOut
        <4>2. CASE q.found # 0
          <5>. DEFINE closed == [rows[q.found] EXCEPT !.active = FALSE]
          <5>1. closed \in Row /\ ~closed.active
            <6>1. rows[q.found] \in Row
              BY <1>3, <4>2
            <6>. QED
              BY <6>1 DEF Row
          <5>2. CloseOut(q) = [rows EXCEPT ![q.found] = closed]
            BY <4>2 DEF CloseOut
          <5>. HIDE DEF closed
          <5>3. /\ CloseOut(q) \in Seq(Row) /\ Len(CloseOut(q)) = Len(rows)
                /\ \A r \in 1 .. Len(rows) :
                      CloseOut(q)[r] = IF r = q.found THEN closed ELSE rows[r]
            BY <1>3, <4>2, <5>1, <5>2
          <5>. QED
            BY <1>4, <5>1, <5>3
        <4>. QED
          BY <4>1, <4>2
      <3>. DEFINE new == [identity |-> IdentityOf(q), active |-> TRUE]
      <3>2. new \in Row
        BY <1>3 DEF IdentityOf, Row
      <3>3. rows' = Append(CloseOut(q), new)
        BY <2>2 DEF RegisterCommit
      <3>. HIDE DEF new
      <3>4. /\ DOMAIN rows' = 1 .. (Len(rows) + 1) /\ Len(rows) \in Nat
            /\ \A r \in 1 .. Len(rows) : rows'[r] = CloseOut(q)[r]
        BY <1>3, <3>1, <3>2, <3>3
      <3>5. \A r \in ActiveRows' : r = Len(rows) + 1
        BY <3>1, <3>4 DEF ActiveRows
      <3>. QED
        BY <3>5
    <2>. QED
      BY <2>1, <2>2
  <1>. QED
    BY <1>2, <1>5 DEF Serial

\* No other step touches the rows or a registration that has read them.
LEMMA SerialStep ==
  ASSUME Shape, Serial, OneRegistration, [Next]_vars
  PROVE  Serial'
  <1>1. ASSUME rows' = rows, \A q \in requests' : q \in requests \/ q.found = Null
        PROVE  Serial'
    <2>1. ActiveRows' = ActiveRows
      BY <1>1 DEF ActiveRows
    <2>. QED
      BY <1>1, <2>1 DEF Serial
  <1>2. CASE Publish
    <2>. DEFINE key == <<app.identity, app.boot, IF app.up THEN app.next ELSE Batch + 1 - app.todo>>
    <2>1. rows' = rows
          /\ requests' = requests \cup {[boot |-> app.boot, key |-> key, found |-> Null]}
      BY <1>2 DEF Publish
    <2>. HIDE DEF key
    <2>. QED
      BY <1>1, <2>1
  <1>3. ASSUME NEW q \in requests, HandlePublish(q)
        PROVE  Serial'
    BY <1>3, SerialFind, SerialCommit DEF HandlePublish
  <1>4. ASSUME NEW f \in fetches,
               \/ \E r \in f.left : BuildBundle(f, r)
               \/ PeerAnswered(f) \/ PeekSuffices(f) \/ Replenish(f)
        PROVE  Serial'
    BY <1>1, <1>4 DEF BuildBundle, PeerAnswered, PeekSuffices, Replenish, FetchEnds
  <1>5. CASE Signup \/ ReregisterDevice \/ PublishFails \/ Persist \/ Crash \/ Resume
    BY <1>1, <1>5 DEF Signup, ReregisterDevice, Provision, PublishFails, Persist, Crash, Resume
  <1>6. CASE Peek \/ \E p \in Peers : PeerFetch(p)
    BY <1>1, <1>6 DEF Peek, PeerFetch, FetchBegin
  <1>7. CASE \E i \in DOMAIN bundles : OpenPreKey(i)
    BY <1>1, <1>7 DEF OpenPreKey
  <1>8. CASE UNCHANGED vars
    BY <1>1, <1>8 DEF vars
  <1>. QED
    BY <1>2, <1>3, <1>4, <1>5, <1>6, <1>7, <1>8 DEF Next

\* Two active rows come from overlapping registrations and from nothing else:
\* whatever is lost, crashes and is reinstalled, a device has at most one active
\* row as long as registerDevice's transactions (db.ts:46-76) are serialised.
THEOREM SerialRegistrationsOneRow ==
  Spec /\ [][OneRegistration]_vars => []OneActiveRow
  <1>1. Init => Serial
    BY DEF Init, Serial, ActiveRows
  <1>2. Directory /\ Serial /\ [Next]_vars /\ [OneRegistration]_vars => Serial'
    <2>. SUFFICES ASSUME Directory, Serial, [Next]_vars, [OneRegistration]_vars
                  PROVE  Serial'
      OBVIOUS
    <2>1. CASE OneRegistration
      BY <2>1, SerialStep DEF Directory
    <2>2. CASE UNCHANGED vars
      <3>1. UNCHANGED <<rows, requests>>
        BY <2>2 DEF vars
      <3>2. ActiveRows' = ActiveRows
        BY <3>1 DEF ActiveRows
      <3>. QED
        BY <3>1, <3>2 DEF Serial
    <2>. QED
      BY <2>1, <2>2
  <1>3. Serial => OneActiveRow
    <2>. SUFFICES ASSUME Serial PROVE Cardinality(ActiveRows) <= 1
      BY DEF OneActiveRow
    <2>1. CASE ActiveRows = {}
      <3>1. Cardinality(ActiveRows) = 0
        BY <2>1, FS_EmptySet
      <3>. QED
        BY <3>1
    <2>2. CASE ActiveRows # {}
      <3>1. PICK r : ActiveRows = {r}
        BY <2>2 DEF Serial
      <3>2. Cardinality(ActiveRows) = 1
        BY <3>1, FS_Singleton
      <3>. QED
        BY <3>2
    <2>. QED
      BY <2>1, <2>2
  <1>. QED
    BY <1>1, <1>2, <1>3, Invariance, PTL DEF Spec
=============================================================================
