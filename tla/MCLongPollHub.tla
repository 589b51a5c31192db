--------------------------- MODULE MCLongPollHub ---------------------------
(* Small instances of the long poll hub. *)
EXTENDS LongPollHub, TLC

CONSTANTS u1, u2, d1, d2

(* d1 and d2 belong to one user / to two users. *)
SharedOwner == (d1 :> u1) @@ (d2 :> u1)
SplitOwner == (d1 :> u1) @@ (d2 :> u2)

(* Goroutines are interchangeable. *)
Goroutines == Permutations(Polls) \cup Permutations(Pushers)

(* So are the devices, when they all belong to one user. *)
SharedDevices == Goroutines \cup Permutations(Devices)
=============================================================================
