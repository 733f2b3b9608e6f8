------------------------------ MODULE MCOrders ------------------------------
(* Instances of what follows a confirmed quotation.                                                  *)
(*   crossed        two orders whose lines cross each other's products                               *)
(*   forms          one order, and an administrator who saves one set of figures                     *)
(*   subscriptions  changes up and down, early and late, by two members of staff at a time           *)
(*   billing        two orders, of one-time and recurring lines and of a recurring line              *)
EXTENDS OrderFlow

Cycle == [c \in Cycles |-> IF c = "MONTHLY" THEN 3 ELSE 6]
To(cycle, amount, day) ==
  [op |-> "modify", cycle |-> cycle, amount |-> amount, day |-> day, immediate |-> FALSE]
EndOn(day, now) == [op |-> "cancel", cycle |-> "MONTHLY", amount |-> 0, day |-> day, immediate |-> now]
\* One takes effect before the first cycle, at a lower price.
SomeChanges == {To("QUARTERLY", 9, 1), To("MONTHLY", 4, -1), To("MONTHLY", 0, 5),
                EndOn(-2, TRUE), EndOn(4, TRUE), EndOn(1, FALSE)}
SeededRule == [refundEligible |-> TRUE, minimumDays |-> 1, creditNote |-> TRUE]

L(product, qty) == [product |-> product, qty |-> qty]
S(warehouse, qty) == [warehouse |-> warehouse, qty |-> qty]
Units(n) == [exists |-> TRUE, available |-> n, reserved |-> 0, version |-> 1]
NoUnits == [Units(0) EXCEPT !.exists = FALSE]

TwoOrders == [o1 |-> <<L("widget", 2), L("cable", 1)>>, o2 |-> <<L("cable", 1), L("widget", 3)>>]
StockOfTwo ==
  [r \in {"w1", "w2"} \X {"widget", "cable"} |->
     CASE r = <<"w1", "widget">> -> Units(3) [] r = <<"w2", "widget">> -> Units(1)
       [] r = <<"w1", "cable">> -> Units(2)  [] OTHER -> NoUnits]

OneOrder == [o1 |-> <<L("widget", 2)>>]
StockOfOne == [r \in {"w1", "w2"} \X {"widget"} |-> IF r[1] = "w1" THEN Units(2) ELSE Units(1)]
\* Either warehouse alone, both, and too much.
SomeSplits == {<<S("w1", 2)>>, <<S("w1", 1), S("w2", 1)>>, <<S("w1", 2), S("w2", 1)>>, <<S("w2", 1), S("w1", 2)>>}
SomeFigures == {[available |-> 2, reserved |-> 1]}

PlannedOrders == [q1 |-> {"once", "again", "yearly"}, q2 |-> {"again"}]
=============================================================================
