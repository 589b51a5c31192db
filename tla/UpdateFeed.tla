----------------------------- MODULE UpdateFeed -----------------------------
(***************************************************************************)
(* What the long poll promises to one client, without queues, channels or  *)
(* locks: an update published while the client is joined is owed to it     *)
(* until it is handed over, updates are handed over in publication order,  *)
(* each of them once.  Updates are the time stamps the hub gives them.     *)
(* A device that is not alone with its queue, or whose connection may      *)
(* break, can lose what is owed to it, but is never handed a thing twice,  *)
(* out of order, or of before it joined.                                   *)
(***************************************************************************)
EXTENDS Naturals

CONSTANTS Devices,
          Stamps,     \* the time stamps there are, natural numbers
          Lossy       \* the devices that can lose updates

VARIABLES joined, \* the devices that are in a session
          owed,   \* owed[d]: published for d, not yet received by it
          seen    \* seen[d]: received by d since it joined

feedVars == <<joined, owed, seen>>

Init == /\ joined = {}
        /\ owed = [d \in Devices |-> {}]
        /\ seen = [d \in Devices |-> {}]

(* A new update for some of the devices is later than all they know of. *)
Publish(D, t) ==
    /\ D \subseteq joined
    /\ \A d \in D : \A s \in owed[d] \cup seen[d] : s < t
    /\ owed' = [d \in Devices |-> IF d \in D THEN owed[d] \cup {t} ELSE owed[d]]
    /\ UNCHANGED <<joined, seen>>

(* An answer hands over the oldest updates owed to d, in one batch. *)
Deliver(d) ==
    \E batch \in (SUBSET owed[d]) \ {{}} :
        /\ \A b \in batch, rest \in owed[d] \ batch : b < rest
        /\ \A b \in batch, s \in seen[d] : s < b
        /\ owed' = [owed EXCEPT ![d] = @ \ batch]
        /\ seen' = [seen EXCEPT ![d] = @ \cup batch]
        /\ UNCHANGED joined

(* Nothing published before it is owed to a device that joins. *)
Join(d) ==
    /\ d \notin joined
    /\ joined' = joined \cup {d}
    /\ UNCHANGED <<owed, seen>>

(* The devices D end their sessions, all of them when the server is        *)
(* restarted: nothing is owed to them any more.                            *)
Part(D) ==
    /\ joined' = joined \ D
    /\ owed' = [d \in Devices |-> IF d \in D THEN {} ELSE owed[d]]
    /\ seen' = [d \in Devices |-> IF d \in D THEN {} ELSE seen[d]]

(* What an answer on a broken connection holds is lost, and so is what     *)
(* another device of the user was handed, or has passed over.              *)
Lose ==
    /\ owed' \in [Devices -> SUBSET Nat]
    /\ \A d \in Devices : owed'[d] \subseteq owed[d] /\ (d \notin Lossy => owed'[d] = owed[d])
    /\ UNCHANGED <<joined, seen>>

Next == \/ Lose
        \/ \E D \in SUBSET Devices : Part(D) \/ \E t \in Stamps : Publish(D, t)
        \/ \E d \in Devices : Deliver(d) \/ Join(d)

FeedSpec == Init /\ [][Next]_feedVars

FairFeedSpec == FeedSpec /\ \A d \in Devices : WF_feedVars(Deliver(d))
=============================================================================
