---------------------------- MODULE SessionStores ----------------------------
(***************************************************************************)
(* The pairwise sessions of one client (packages/core): the identity and   *)
(* the session store, the operations of SessionManager on them and the     *)
(* promise chain storeTail that runs these one at a time.                  *)
(*                                                                         *)
(* libsignal is external.  Each of its calls reads the session, saves the  *)
(* peer's identity and saves the session, in three steps that other tasks  *)
(* may come between.  Of a session record we keep the identity key it is   *)
(* bound to, the sending chain (every new session has its own) and the     *)
(* position in it, which together are the key a message is sealed with.    *)
(***************************************************************************)
EXTENDS Naturals, Sequences, FiniteSets, SequencesExt

CONSTANTS
    Null,
    Contacts,       \* the peers' devices
    Slots,          \* the commands that may be under way at once
    Inbox           \* the task that handles incoming envelopes

Tasks == Slots \cup {Inbox}

ASSUME SessionAssumption == Inbox \notin Slots /\ Null \notin Contacts

VARIABLES
    known,          \* remoteIdentities: the identity key on file
    sess,           \* the session records
    changes,        \* peers of the ReplacedExisting entries past the cursor of changeLog
    storeTail,      \* the tasks whose operations wait for or hold the stores
    op,             \* the operation of each task
    chains,         \* sending chains started
    made            \* the keys that messages were sealed with, in order

storeVars == <<known, sess, changes, storeTail, op, chains, made>>

NoOp == [kind |-> "none", peer |-> Null, key |-> Null, at |-> "none", rec |-> Null]

\* Who is known, and the sessions with them, are given by the client's Init.
StoreInit ==
    /\ changes = {} /\ storeTail = <<>> /\ op = [t \in Tasks |-> NoOp]
    /\ chains = 0 /\ made = <<>>

---------------------------------------------------------------------------
\* runExclusive appends the operation to the chain.
RunExclusive(t, kind, c, key) ==
    /\ storeTail' = Append(storeTail, t)
    /\ op' = [op EXCEPT ![t] = [kind |-> kind, peer |-> c, key |-> key, at |-> "queued",
                                 rec |-> Null]]
    /\ UNCHANGED <<known, sess, changes, chains, made>>

\* Mutant: the one before it has yet to save the session.
StartsEarly(t) ==
    op[t].at = "queued" /\ (Head(storeTail) = t \/ op[Head(storeTail)].at = "identity")

\* storeTail.then(op): the ones before it have ended.
Starts(t) == op[t].at = "queued" /\ Head(storeTail) = t

\* A new session from a bundle, or from a message that opens one.
NewSession(key) == [key |-> key, chain |-> chains + 1, n |-> 0]

Opens(t) == op[t].kind \in {"establish", "decryptPreKey"}

\* getSession, and the ratchet step on what it returned.
OpRead(t) ==
    /\ Starts(t)
    /\ Opens(t) \/ sess[op[t].peer] # Null
    /\ op' = [op EXCEPT ![t].at = "read",
                        ![t].rec = CASE Opens(t) -> NewSession(op[t].key)
                                     [] op[t].kind = "encrypt" -> [sess[op[t].peer] EXCEPT !.n = @ + 1]
                                     [] OTHER -> sess[op[t].peer]]
    /\ chains' = IF Opens(t) THEN chains + 1 ELSE chains
    /\ UNCHANGED <<known, sess, changes, storeTail, made>>

\* Mutant: the chain is left rejected and nothing after it runs.
OpThrowsForGood(t) ==
    /\ Starts(t)
    /\ op[t].kind = "encrypt" => sess[op[t].peer] = Null
    /\ op' = [op EXCEPT ![t].at = "failed"]
    /\ UNCHANGED <<known, sess, changes, storeTail, chains, made>>

\* There is no session, the ciphertext does not decrypt, or the bundle is not
\* signed as it must be; the chain goes on.
OpThrows(t) ==
    /\ Starts(t)
    /\ op[t].kind = "encrypt" => sess[op[t].peer] = Null
    /\ op' = [op EXCEPT ![t].at = "failed"]
    /\ storeTail' = Tail(storeTail)
    /\ UNCHANGED <<known, sess, changes, chains, made>>

\* saveIdentity: any key is trusted, and a replaced one is logged.
SaveIdentity(t) ==
    LET c == op[t].peer
        key == op[t].rec.key
    IN  /\ op[t].at = "read"
        /\ known' = [known EXCEPT ![c] = key]
        /\ changes' = IF known[c] \notin {Null, key} THEN changes \cup {c} ELSE changes
        /\ op' = [op EXCEPT ![t].at = "identity"]
        /\ UNCHANGED <<sess, storeTail, chains, made>>

\* saveSession, with which the operation ends.
SaveSession(t) ==
    LET c == op[t].peer
        rec == op[t].rec
    IN  /\ op[t].at = "identity"
        /\ sess' = [sess EXCEPT ![c] = rec]
        /\ made' = IF op[t].kind = "encrypt" THEN Append(made, <<c, rec.chain, rec.n>>) ELSE made
        /\ op' = [op EXCEPT ![t].at = "done"]
        /\ storeTail' = Tail(storeTail)
        /\ UNCHANGED <<known, changes, chains>>

StoreStep(t) == OpRead(t) \/ OpThrows(t) \/ SaveIdentity(t) \/ SaveSession(t)

---------------------------------------------------------------------------
StoreTypeOK ==
    LET Session == [key : Nat, chain : 0 .. chains, n : Nat]
    IN  /\ known \in [Contacts -> Nat \cup {Null}]
        /\ \A c \in Contacts : sess[c] # Null => sess[c] \in Session
        /\ changes \subseteq Contacts
        /\ storeTail \in Seq(Tasks)
        /\ \A t \in Tasks :
              /\ op[t].kind \in {"none", "establish", "encrypt", "decryptPreKey", "decrypt"}
              /\ op[t].at \in {"none", "queued", "read", "identity", "done", "failed"}
              /\ op[t].rec # Null => op[t].rec \in Session

\* Within one life of the process no two messages to a peer are sealed with the
\* same key: the ratchet step of an encryption is never lost to another
\* operation on the session that read it before (what the mutex of
\* SessionManager is for).  Across a crash, which may restore an older session,
\* nothing is said here.
RatchetAdvances == Cardinality(ToSet(made)) = Len(made)

\* The chain of operations moves on whatever becomes of one of them: its head
\* is an operation still to do, and every operation waiting is in it.
QueueMoves ==
    /\ storeTail # <<>> => op[Head(storeTail)].at \notin {"none", "done", "failed"}
    /\ \A t \in Tasks : op[t].at \in {"queued", "read", "identity"} => t \in ToSet(storeTail)
===============================================================================
