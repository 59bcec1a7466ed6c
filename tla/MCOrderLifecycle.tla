------------------------ MODULE MCOrderLifecycle ------------------------
(* OrderLifecycle on a small instance. *)
EXTENDS OrderPage
=============================================================================
