----------------------------- MODULE MCLibrary -----------------------------
(* Small instances of the library. *)
EXTENDS Library, TLC

(* Handlers are interchangeable. *)
Interchangeable == Permutations(Handlers)
=============================================================================
