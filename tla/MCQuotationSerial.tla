------------------------- MODULE MCQuotationSerial -------------------------
(***************************************************************************)
(* Instances of the quotation operations for TLC.  A raised order discount *)
(* is above the ceiling: the strict rule set sends it to approval, the     *)
(* lenient one lets it pass.                                               *)
(***************************************************************************)
EXTENDS QuotationSerial

CONSTANTS manager, finance

BothRoles == {manager, finance}
Discounts == {0, 1}
ThreeDiscounts == {0, 1, 2}

NeedsApproval(terms) == terms.disc # DefaultPct
ChainOf(chain) == [t \in Terms |-> IF NeedsApproval(t) THEN chain ELSE << >>]

(* MEDIUM: the manager decides.                                            *)
OneStep == [r \in RuleSets |->
    IF r = "strict" THEN ChainOf(<<manager>>) ELSE ChainOf(<< >>)]

(* HIGH: the manager, then Finance.                                        *)
TwoSteps == [r \in RuleSets |->
    IF r = "strict" THEN ChainOf(<<manager, finance>>) ELSE ChainOf(<< >>)]
=============================================================================
