--------------------------- MODULE MCRequestRuntime ---------------------------
(* An instance of RequestRuntime for TLC: the list of accounts and the list of  *)
(* groups, both cached, and the reader's list of mails, which is not; writes     *)
(* that drop both lists, one of them or nothing.                               *)
EXTENDS RequestRuntime, TLC

MCReads == {emailApi.getList, groupApi.getList, emailApi.viewMails}
MCWrites == {emailApi.update, emailMailApi.deleteSelectedMails, emailMailApi.clearMailbox}
Symmetry == Permutations(Flights) \cup Permutations(Attempts) \cup Permutations(Users)
=============================================================================
