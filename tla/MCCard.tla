------------------------------- MODULE MCCard -------------------------------
(***************************************************************************)
(* The card provider's own ledger on one charge, under two accounts: cards *)
(* only or bank transfers as well, settled at once or later.               *)
(***************************************************************************)
EXTENDS CardProvider

MCFund(m) == [kind |-> "funding.create", order |-> "o", payee |-> "p", amount |-> 3, currency |-> "USD", fee |-> 0, method |-> m]
MCRelease == [kind |-> "release.create", on |-> "f", order |-> "o", payee |-> "p", amount |-> 2, currency |-> "USD", fee |-> 0]
MCRefund(a, s) == [kind |-> "refund.create", on |-> "f", order |-> "o", amount |-> a, currency |-> "USD", source |-> s]
MCAsked == ({"f"} \X {MCFund("CARD"), MCFund("BANK_TRANSFER")})
           \union ({"c"} \X {[kind |-> "funding.cancel", on |-> "f"]})
           \union ({"r1"} \X {MCRelease})
           \union ({"r2"} \X {MCRelease, [MCRelease EXCEPT !.order = "other"]})
           \union ({"b1"} \X {MCRefund(3, "PRINCIPAL"), MCRefund(1, "PRINCIPAL")})
           \union ({"b2"} \X {MCRefund(2, "PLATFORM_BALANCE")})
           \union ({"v"} \X {[kind |-> "reversal.create", on |-> "r1", order |-> "o", amount |-> 2, currency |-> "USD"]})
MCConfigs == {[release |-> "pending", refund |-> "immediate", partial |-> TRUE, bank |-> TRUE],
              [release |-> "immediate", refund |-> "pending", partial |-> FALSE, bank |-> FALSE]}

\* At most five operations on one charge, four with a cancellation or a second release; a dispute or a late fee is met
\* before the other operations.
Charging == LET Used == {o \in Operations : journal[o] # NotMade} IN
            /\ CardNext /\ cardVars' # cardVars
            /\ Cardinality(Used') <= (IF {"c", "r2"} \cap Used' = {} THEN 5 ELSE 4)
            /\ Cardinality({o \in Operations : LookupOperation(o)' = "NOT_APPLIED"}) <= 1
            /\ disputes' # <<>> \/ (\E f \in Made : fundings'[f].cost = 1) => Cardinality(Used') = 1
            /\ payeeBalance' # payeeBalance => transfers'["r1"] # NotMade

CardScenario == CardInit /\ [][Charging]_cardVars
=============================================================================
