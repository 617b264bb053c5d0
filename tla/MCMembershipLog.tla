--------------------------- MODULE MCMembershipLog ---------------------------
(***************************************************************************)
(* MembershipLog on the chains two founders can sign, equivocation         *)
(* included, and on those chains with their last operation damaged in each *)
(* way verifyChain looks for.                                              *)
(***************************************************************************)
EXTENDS MembershipLog

\* "f" founds the conversation with key "kf"; "m" signs with a key of its own.
MCSenders == {"f", "m", "a"}

Genesis(conv, author, key, initial) ==
    [type |-> "create", conversationId |-> conv, seq |-> 0, prevHash |-> GenesisZero,
     author |-> author, subject |-> Null, aiMode |-> FALSE,
     initialMembers |-> initial, key |-> key, sig |-> key]

\* The operation a writer following service.ts would put after chain.
After(chain, type, subject) ==
    LET prev == chain[Len(chain)]
    IN  [type |-> type, conversationId |-> prev.conversationId, seq |-> prev.seq + 1,
         prevHash |-> HashOp(prev), author |-> prev.author, subject |-> subject,
         aiMode |-> IF type = "setAiMode" THEN TRUE ELSE Null,
         initialMembers |-> Null, key |-> prev.key, sig |-> prev.sig]

Extensions(chains) ==
    {Append(c, After(c, t, "a")) : c \in chains, t \in {"invite", "remove"}}
      \cup {Append(c, After(c, "setAiMode", Null)) : c \in chains}

\* Two genesis operations of the founder, one of another key under the
\* founder's name, one for another conversation.
Roots == {<<Genesis("c1", "f", "kf", {"a"})>>, <<Genesis("c1", "f", "kf", {})>>,
          <<Genesis("c1", "f", "km", {"m"})>>, <<Genesis("c2", "f", "kf", {"m"})>>}

Honest1 == Extensions(Roots)
Honest2 == Extensions({c \in Honest1 : c[1].key = "kf" /\ c[1].conversationId = "c1"})
Honest == Roots \cup Honest1 \cup Honest2

Damage(op) ==
    {[op EXCEPT !.sig = "none"], [op EXCEPT !.seq = @ + 1],
     [op EXCEPT !.prevHash = HashOp([op EXCEPT !.seq = 0])],
     [op EXCEPT !.key = "km", !.sig = "km"], [op EXCEPT !.author = "m"],
     [op EXCEPT !.conversationId = "c2"], [op EXCEPT !.aiMode = TRUE, !.subject = "m"]}

Shortest == CHOOSE c \in Honest1 : c[1] = Genesis("c1", "f", "kf", {"a"}) /\ c[2].type = "invite"

\* Chains whose middle was replaced, the head left as it is: only the hash links
\* tell them from the original.
Spliced ==
    LET chains == {c \in Honest2 : c[1].initialMembers = {"a"}}
    IN  {[c EXCEPT ![2] = d[2]] : c, d \in chains}

MCCandidates ==
    Honest \cup {<<>>} \cup Spliced \cup {[Shortest EXCEPT ![2] = op] : op \in Damage(Shortest[2])}
           \cup {[c EXCEPT ![3] = op] : c \in {Append(Shortest, After(Shortest, "remove", "a"))},
                                        op \in Damage(After(Shortest, "remove", "a"))}

MCPins == {InviteFor(c) : c \in {d \in Honest : d[1].key = "kf"}}
=============================================================================
