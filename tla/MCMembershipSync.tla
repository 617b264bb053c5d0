--------------------------- MODULE MCMembershipSync --------------------------
(* MembershipSync for TLC: users are interchangeable model values. *)
EXTENDS MembershipSync

Symmetry == Permutations(Others)

\* What decides how the system goes on: all but the variables that only record
\* what happened, for a run none of whose properties but TypeOK reads them.
WithoutHistory == <<signed, clientVars, relayVars, netVars, faults, restarts>>
=============================================================================
