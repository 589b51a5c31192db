----------------------------- MODULE MCAccounts -----------------------------
(* A small instance of the accounts. *)
EXTENDS Accounts, TLC

Interchangeable == Permutations(Handlers) \cup Permutations(Logins)
=============================================================================
