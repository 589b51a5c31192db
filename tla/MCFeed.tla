------------------------------- MODULE MCFeed -------------------------------
(* Small instances of the feed. *)
EXTENDS Feed

(* Handlers are interchangeable. *)
Interchangeable == Permutations(Handlers)
=============================================================================
