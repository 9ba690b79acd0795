----------------------------- MODULE MCBusinessApi -----------------------------
(* The business API with small pools and two senders, for TLC. *)
EXTENDS BusinessApi, TLC

CONSTANTS k1, d1

\* Two email accounts, or two mailboxes of one domain.
Accounts == {1, 2}
AccountsOrMailboxes == {[a \in Accounts |-> NoDomain], [a \in Accounts |-> d1]}

Anything == SUBSET (Keys \X Pool)

Scoped == {Pool, {1}}

Symmetry == Permutations(Requests)
=============================================================================
