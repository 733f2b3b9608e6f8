--------------------------- MODULE MCBillingPlan ----------------------------
(***************************************************************************)
(* Instances of the billing plan: orders of one-time lines, of recurring   *)
(* lines and of both.                                                      *)
(***************************************************************************)
EXTENDS BillingPlan

CONSTANTS q1, q2, q3, once, again, yearly

Mixed == [q \in Quotations |-> CASE q = q1 -> {once, again, yearly}
                                 [] q = q2 -> {again}
                                 [] OTHER  -> {once}]
=============================================================================
