------------------------------- MODULE MCConsole -------------------------------
(* The console with small accounts, for TLC. *)
EXTENDS Console, TLC

AnAccount(must, twoFactor, super) ==
  [version |-> 1, must |-> must, twoFactor |-> twoFactor, waits |-> FALSE, super |-> super]

\* A super administrator whose password must change beside a portal user, and the reverse.
MCAccounts ==
  {[admin |-> AnAccount(TRUE, FALSE, TRUE), portal |-> AnAccount(FALSE, TRUE, FALSE)],
   [admin |-> AnAccount(FALSE, TRUE, FALSE), portal |-> AnAccount(TRUE, FALSE, FALSE)]}
=============================================================================
