---------------------------- MODULE MCPayments ----------------------------
(* TLC instances of Payments: the checkout, the settlement, and the four claims of the repository they contradict. *)
EXTENDS Payments
=============================================================================
