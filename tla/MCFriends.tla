----------------------------- MODULE MCFriends -----------------------------
(* Small instances of friends and friend requests. *)
EXTENDS Friends, TLC

(* Handlers and users are interchangeable. *)
Interchangeable == Permutations(Handlers) \cup Permutations(Users)
=============================================================================
