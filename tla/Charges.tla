------------------------------ MODULE Charges ------------------------------
(***************************************************************************)
(* What a payment provider promises of a charge, whatever calls are lost,   *)
(* repeated or settled late: it is captured or ended once, its principal is *)
(* paid out only while it is captured and only as far as something is left  *)
(* of it, a payment under way is settled or bounces once, and no more is    *)
(* taken back than was paid.  No operation ids, no journal, no events.      *)
(* CardProvider (the provider's own ledger) and Payments (the provider as   *)
(* the rail of an order sees it) both implement it.                         *)
(***************************************************************************)
EXTENDS Integers

CONSTANT Ids     \* the charges

VARIABLE charge  \* charge[i]: [status, method, amount, pending, paid, back]; back is what was taken back from a payee

NoCharge == [status |-> "NONE", method |-> "NONE", amount |-> 0, pending |-> 0, paid |-> 0, back |-> 0]

Init == charge = [i \in Ids |-> NoCharge]

-----------------------------------------------------------------------------
(* The steps of a charge, from c to d. *)

Created(c, d) ==
    /\ c.status = "NONE" /\ d.method \in {"CARD", "BANK_TRANSFER"} /\ d.amount > 0
    /\ d = [c EXCEPT !.status = "REQUIRES_ACTION", !.method = d.method, !.amount = d.amount]

\* A cancelled attempt may still be captured; a bank transfer cannot be called back once sent, only returned after capture.
Moved(c, d) ==
    /\ \/ c.status \in {"REQUIRES_ACTION", "PROCESSING"} /\ d.status \in {"SUCCEEDED", "FAILED"}
       \/ c.status = "REQUIRES_ACTION" /\ d.status \in {"PROCESSING", "CANCELED"}
       \/ c.status = "PROCESSING" /\ d.status = "CANCELED" /\ c.method = "CARD"
       \/ c.status = "CANCELED" /\ d.status = "SUCCEEDED"
       \/ c.status = "SUCCEEDED" /\ d.status = "RETURNED" /\ c.method = "BANK_TRANSFER"
    /\ d = [c EXCEPT !.status = d.status]

\* Principal of a captured charge that is neither paid nor on its way.
Left(c) == IF c.status = "SUCCEEDED" THEN c.amount - c.pending - c.paid + c.back ELSE 0

PaidOut(c, d) == \E a \in 1..Left(c) : d = [c EXCEPT !.pending = @ + a] \/ d = [c EXCEPT !.paid = @ + a]

Settled(c, d) == \E a \in 1..c.pending : d = [c EXCEPT !.pending = @ - a] \/ d = [c EXCEPT !.pending = @ - a, !.paid = @ + a]

TakenBack(c, d) == \E a \in 1..(c.paid - c.back) : d = [c EXCEPT !.back = @ + a]

Step(c, d) == Created(c, d) \/ Moved(c, d) \/ PaidOut(c, d) \/ Settled(c, d) \/ TakenBack(c, d)

Next == \A i \in Ids : charge'[i] = charge[i] \/ Step(charge[i], charge'[i])

Spec == Init /\ [][Next]_charge
=============================================================================
