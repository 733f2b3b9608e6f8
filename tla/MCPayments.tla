----------------------------- MODULE MCPayments -----------------------------
(***************************************************************************)
(* Instances of the invoices: two part payments of one invoice and one of  *)
(* another, sent by two requests at a time.                                *)
(***************************************************************************)
EXTENDS Payments

CONSTANTS i1, i2, k1, k2, k3

Pay(i, n) == [invoice |-> i, amount |-> n]

PartPayments == [k \in Keys |-> CASE k = k1 -> Pay(i1, 2)
                                  [] k = k2 -> Pay(i1, 1)
                                  [] OTHER  -> Pay(i2, 1)]

OneLine(n, price) == <<[quantity |-> n, unitPrice |-> price]>>

Typed == [i \in Invoices |-> IF i = i1 THEN OneLine(1, 1) \o OneLine(2, 1)
                                       ELSE OneLine(1, 2)]
=============================================================================
