----------------------------- MODULE MCAccounts -----------------------------
(* Small instances of Accounts: one email, and the subjects it is given    *)
(* out for one after another.                                              *)
EXTENDS Accounts, TLC

CONSTANT TheEmail
OneEmail == {TheEmail}
EmailOfAll == [sub \in Subject |-> TheEmail]

Symmetry ==
  Permutations(Session) \cup Permutations(Subject) \cup Permutations(File) \cup Permutations(Upload \ TooLarge)
=============================================================================
