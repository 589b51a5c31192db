--------------------------- MODULE MCPostCounters ---------------------------
(* Small instances of the post counters. *)
EXTENDS PostCounters, TLC

(* Requests and users are interchangeable. *)
Interchangeable == Permutations(Requests) \cup Permutations(Users)
=============================================================================
