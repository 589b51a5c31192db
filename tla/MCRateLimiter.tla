--------------------------- MODULE MCRateLimiter ---------------------------
(* Small instances of the rate limiters. *)
EXTENDS RateLimiter, TLC

(* Requests and addresses are interchangeable. *)
Interchangeable == Permutations(Requests) \cup Permutations(Addresses)
=============================================================================
