--------------------------------- MODULE Risk ---------------------------------
(***************************************************************************)
(* Discounts, margins and the risk of a quotation: what the submission and *)
(* the customer's confirmation compute and the approval rules are chosen   *)
(* by (discount-risk/domain).                                              *)
(*                                                                         *)
(* Discounts go in steps of 5 %, from 0 to 6.  Percentages are counted in  *)
(* quarters of a percent and amounts in 1/400, so that they are exact; the *)
(* program computes in floating point, and what that does to a discount    *)
(* exactly at its ceiling is kept.  The submission works on the figures of *)
(* the quotation's DTO, discounts and the margin rounded to 4 decimals and *)
(* amounts to 2 (quotationDto), the confirmation on the floating-point     *)
(* numbers themselves: a discount's error of rounding is gone for the one  *)
(* and there for the other.  What rounding does to amounts and to the      *)
(* margin is left out.                                                     *)
(***************************************************************************)
EXTENDS Integers, FiniteSetsExt, Functions

(* A ceiling nobody configured is above every discount.                    *)
NoRule == 101

(* Fault: the higher of the two ceilings.                                  *)
HigherCeiling(tier, category) ==
    IF tier = NoRule \/ category = NoRule THEN Min({tier, category})
    ELSE Max({tier, category})

(* The allowed discount of a line, in percent: the lower ceiling, and the  *)
(* other one where only one is configured.                                 *)
ResolveDiscountCeiling(tier, category) == Min({tier, category})

(* A line discount and the discount of the order, one after the other:     *)
(* what is left of the price, and what is taken off.                       *)
Keeps(line, order) == (20 - line) * (20 - order)

CombineDiscounts(line, order) == 400 - Keeps(line, order)

Occasions == {"submission", "confirmation"}

(* The discounts for which (1 - (1 - line) * (1 - order)) * 100 comes out  *)
(* above its exact value in IEEE doubles, by less than 10^-13: (1 - 0.95)  *)
(* * 100 is 5.000000000000004.                                             *)
RoundedUp ==
    {<<0, 1>>, <<0, 3>>, <<0, 6>>, <<1, 0>>, <<1, 1>>, <<1, 2>>, <<1, 5>>,
     <<1, 6>>, <<2, 1>>, <<3, 0>>, <<3, 3>>, <<3, 5>>, <<4, 6>>, <<5, 1>>,
     <<5, 3>>, <<5, 6>>, <<6, 0>>, <<6, 1>>, <<6, 4>>, <<6, 5>>}

(* line = [price, cost, discount, tier, category]; the quantity is part of *)
(* price and cost.                                                         *)
NetBeforeTax(line, order) == line.price * Keeps(line.discount, order)

CostTotal(line) == 400 * line.cost

SumOf(lines, Of(_)) == SumFunction([i \in DOMAIN lines |-> Of(lines[i])])

QuoteNet(lines, order) == SumOf(lines, LAMBDA l : NetBeforeTax(l, order))

(* How far a discount is above the ceiling, and whether it counts as above *)
(* it: on confirmation the difference need only be an error of rounding.   *)
Above(line, order) ==
    CombineDiscounts(line.discount, order)
      - 4 * ResolveDiscountCeiling(line.tier, line.category)

Excess(line, order) == Max({0, Above(line, order)})

Exceeds(line, order, on) ==
    \/ Above(line, order) > 0
    \/ /\ on = "confirmation" /\ Above(line, order) = 0
       /\ <<line.discount, order>> \in RoundedUp

(* max(0, (20 - margin) / 20) clamped to 1, times the net amount; without  *)
(* revenue there is no margin and no pressure.                             *)
MarginPressure(lines, order) ==
    LET net  == QuoteNet(lines, order)
        cost == SumOf(lines, CostTotal)
    IN  IF net = 0 THEN 0 ELSE Min({net, Max({0, 5 * cost - 4 * net})})

(* The weights and thresholds are RISK_CONFIG_V1's.  The score is kept as  *)
(* a fraction, [top, bottom], of a number between 0 and 100.               *)
ScoreRisk(lines, order, on) ==
    LET net      == QuoteNet(lines, order)
        whole    == IF net = 0 THEN 1 ELSE net
        excess   == SumOf(lines, LAMBDA l : NetBeforeTax(l, order) * Excess(l, order))
        breadth  == SumOf(lines, LAMBDA l : IF Exceeds(l, order, on)
                                          THEN NetBeforeTax(l, order) ELSE 0)
        greatest == Max({Excess(lines[i], order) : i \in DOMAIN lines})
    IN  [top    |-> 40 * excess + 10000 * breadth + 25 * greatest * whole
                    + 4000 * MarginPressure(lines, order),
         bottom |-> 400 * whole]

ReachesScore(score, n) == score.top >= n * score.bottom

Violates(lines, order, on) == \E i \in DOMAIN lines : Exceeds(lines[i], order, on)

(* 1 for LOW, 2 for MEDIUM, 3 for HIGH.  A line above its ceiling is at    *)
(* least MEDIUM.                                                           *)
Band(lines, order, on) ==
    LET score == ScoreRisk(lines, order, on)
    IN  IF ReachesScore(score, 60) THEN 3
        ELSE IF ReachesScore(score, 30) \/ Violates(lines, order, on) THEN 2 ELSE 1
=============================================================================
