----------------------------- MODULE MCMessages -----------------------------
(* Small instances of messages. *)
EXTENDS Messages, TLC

(* Handlers and users are interchangeable. *)
Interchangeable == Permutations(Handlers) \cup Permutations(Users)
=============================================================================
