----------------------------- MODULE MCStoreIds -----------------------------
(* A small instance of the store's ids. *)
EXTENDS StoreIds
=============================================================================
