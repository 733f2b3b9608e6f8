------------------------------- MODULE Scoring -------------------------------
(***************************************************************************)
(* What is ranked on the screens: deal-health findings and their priority  *)
(* (deal-health/domain) and the candidates of a quotation's                *)
(* recommendations (recommendation/domain).  Exact numbers stand for the   *)
(* program's floating point; the constants are those of the V1 configs.    *)
(***************************************************************************)
EXTENDS Integers, Sequences, FiniteSetsExt, Functions

(***************************************************************************)
(* Deal health.  A finding is a severity: 0 none, 1 LOW, 2 MEDIUM, 3 HIGH, *)
(* 4 CRITICAL.                                                             *)
(***************************************************************************)
StalledQuotation(terminal, days) ==
    IF terminal \/ days <= 14 THEN 0 ELSE IF days >= 28 THEN 4 ELSE 3

DeliverySlippage(daysLate) ==
    IF daysLate <= 0 THEN 0
    ELSE IF daysLate > 10 THEN 4 ELSE IF daysLate > 3 THEN 3 ELSE 2

(* Finance approval is overdue after 48 hours.                             *)
HighRiskDeal(highBand, pendingHours) ==
    LET overdue == IF pendingHours <= 48 THEN 0
                   ELSE IF pendingHours >= 144 THEN 4
                   ELSE IF pendingHours >= 96 THEN 3 ELSE 2
    IN  Max({overdue, IF highBand THEN 3 ELSE 0})

(* Times the number of samples n: the distance to the mean, and times its  *)
(* square the variance.  Distances and deviations are compared squared.    *)
DiscountAnomaly(current, history) ==
    LET n        == Len(history)
        total    == SumFunction(history)
        squares  == SumFunction([i \in 1 .. n |-> history[i] * history[i]])
        delta    == n * current - total
        variance == n * squares - total * total
        by(k)    == \* delta is at least k/2 times a threshold
                    \/ delta * 2 >= k * 10 * n
                    \/ variance > 0 /\ delta >= 0 /\ delta * delta >= k * k * variance
        fires    == \/ delta > 10 * n
                    \/ variance > 0 /\ delta > 0 /\ delta * delta > 4 * variance
    IN  IF n < 5 \/ ~fires THEN 0
        ELSE IF by(5) THEN 4 ELSE IF by(3) THEN 3 ELSE 2

(* Fault: value alone can lift an alert past the next severity.            *)
PriorityOfValue(severity, value, age) ==
    Min({100, 25 * severity + Min({20, value \div 10000}) + Min({10, age \div 3})})

ComputePriorityScore(severity, value, age) ==
    Min({100, 25 * severity + Min({15, value \div 10000}) + Min({10, age \div 3})})

(***************************************************************************)
(* Recommendations.  A candidate is [co, promotion, margin, stock, same,   *)
(* total]: how often it was bought with the products of the quotation, the *)
(* discount in percent of a promotion or 0, its margin, free stock, and    *)
(* how many of its buyers are of the customer's tier.                      *)
(***************************************************************************)
(* Why a candidate is not offered: no margin of 15 %, or nothing in stock. *)
FindExclusionReason(c) == c.margin < 15 \/ c.stock <= 0

Portion(part, whole) == IF whole <= 0 THEN 0 ELSE (1800 * Min({part, whole})) \div whole

(* The score, times 6000.  Compatibility is 1 for every candidate.         *)
ScoreCandidate(c, maxCo) ==
    Portion(c.co, maxCo) + 18 * Min({50, c.promotion})
      + 20 * Max({0, Min({60, c.margin})}) + 600 + 18 * Min({50, c.stock})
      + Portion(c.same, c.total) \div 3
=============================================================================
