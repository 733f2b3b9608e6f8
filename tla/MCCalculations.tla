---------------------------- MODULE MCCalculations ----------------------------
(***************************************************************************)
(* Calculations over every small input.                                    *)
(***************************************************************************)
EXTENDS Calculations

CONSTANTS MaxLength, MaxAmount, Margin \* bounds of cycles, amounts, dates outside

(* Free stock may be below zero: screens overwrite figures.                *)
MCStocks == [Warehouses -> {-1, 0, 1, 2, 4}]

MCOrders == {<<[product |-> p, qty |-> m], [product |-> q, qty |-> n]>> :
               p, q \in Products, m, n \in 1 .. 4}

(* A warehouse may be named twice, the splits be too much or too little.   *)
MCTyped == UNION {[1 .. n -> [warehouse : Warehouses, qty : 1 .. 2]] : n \in 0 .. 3}

MCSchedules == [start : {0}, end : 0 .. MaxLength, amount : 0 .. MaxAmount]

MCDays == -Margin .. MaxLength + Margin

MCAmounts == 0 .. MaxAmount

(* A line of any kind beside one that is at most a little above its ceiling. *)
RiskLines == [price : 0 .. 2, cost : {0, 2}, discount : {0, 1, 2, 6},
              tier : {5, 20, NoRule}, category : {5, 10, NoRule}]

OtherLines == [price : {1}, cost : {0}, discount : {0, 2},
               tier : {5, NoRule}, category : {NoRule}]

MCQuotes == {[lines |-> <<l, m>>, order |-> o] :
               l \in RiskLines, m \in OtherLines, o \in {0, 1}}

MCCeilings == {5, 10, 20, NoRule}

(* Days, hours and percentages around the thresholds of the findings.      *)
MCDegrees == {0, 1, 3, 4, 10, 11, 14, 15, 20, 28, 48, 49, 96, 144}

MCHistories == {<<0, 0, 0, 0>>, <<5, 5, 5, 5, 5>>, <<0, 0, 0, 0, 10>>, <<20, 0, 20, 0, 20>>}

(* Many candidates that differ in one respect, two that differ in all.     *)
Many == [co : 0 .. 2, promotion : {0}, margin : {60}, stock : {60}, same : {0}, total : {1}]

Two == [co : {0, 2}, promotion : {0, 50}, margin : {14, 15, 60},
        stock : {0, 60}, same : {0, 1}, total : {1}]

MCOffers == [candidates : UNION {[1 .. n -> Many] : n \in 0 .. 6}, k : 0 .. 4, threshold : {0, 4}]
              \union [candidates : [1 .. 2 -> Two], k : {1}, threshold : {0, 4}]

(* Terms that fit inside the ceilings, as the submission found, fit inside *)
(* them when the customer confirms, and need no approval then              *)
(* (docs/ORDERS_FLOW.md, line 68).                                         *)
AtTheCeilingIsWithin ==
    Asked("risk") =>
      (Violates(input.lines, input.order, "confirmation") =>
         Violates(input.lines, input.order, "submission"))
=============================================================================
