------------------------------ MODULE OrderFlow ------------------------------
(***************************************************************************)
(* What follows a confirmed quotation.  Each part runs on its own, for the *)
(* parts share no row:                                                     *)
(*   crossed        orders that are spread as the screen suggests, and     *)
(*                  shipped, while nobody touches the stock otherwise      *)
(*   forms          orders whose splits are typed in by hand, too, beside  *)
(*                  stock screens that save figures and late decisions     *)
(*   subscriptions  changes and cancellations of subscriptions             *)
(*   billing        the billing plans of orders                            *)
(***************************************************************************)
EXTENDS Subscription, Naturals

CONSTANTS Warehouses,
          CrossedOrders, CrossedProducts, CrossedLines, CrossedStock,
          FormOrders, FormProducts, FormLines, FormStock,
          TypedSplits,     \* what staff may type in as splits, and
          StockFigures,    \* administrators as stock
          MaxStockVersion, \* bound on versions, with the forms
          Quotations, Lines, Recurring, LinesOf, Planners, MaxTyped

VARIABLES part, stock, order, fulfillment, tx, subscriptions, invoices, asked, planned

Crossed == INSTANCE Fulfillment_proofs WITH
    Orders <- CrossedOrders, Products <- CrossedProducts, OrderLines <- CrossedLines,
    FirstStock <- CrossedStock, Overrides <- {}, StockForms <- {}, MaxVersion <- 1

Forms == INSTANCE Fulfillment_proofs WITH
    Orders <- FormOrders, Products <- FormProducts, OrderLines <- FormLines,
    FirstStock <- FormStock, Overrides <- TypedSplits, StockForms <- StockFigures,
    MaxVersion <- MaxStockVersion

Plan == INSTANCE BillingPlan WITH Requests <- Planners, req <- asked

ASSUME PartsAreInstances == /\ Crossed!FulfillmentConstants /\ Forms!FulfillmentConstants
                            /\ Plan!PlanConstants

stockVars == <<stock, order, fulfillment, tx>>
planVars  == <<subscriptions, invoices, asked, planned>>
flow      == <<part, vars, stockVars, planVars>>

OrdersInit == /\ part \in {"crossed", "forms", "subscriptions", "billing"}
              /\ Init
              /\ IF part = "forms" THEN Forms!Init ELSE Crossed!Init
              /\ Plan!Init

OrdersNext ==
    /\ UNCHANGED part
    /\ \/ part = "crossed" /\ Crossed!Next /\ UNCHANGED <<vars, planVars>>
       \/ part = "forms" /\ Forms!Next /\ UNCHANGED <<vars, planVars>>
       \/ part = "subscriptions" /\ Next /\ UNCHANGED <<stockVars, planVars>>
       \/ part = "billing" /\ Plan!Next /\ UNCHANGED <<vars, stockVars>>

OrdersSpec == OrdersInit /\ [][OrdersNext]_flow

(***************************************************************************)
(* Properties                                                              *)
(***************************************************************************)
(* The units, lines and statuses of orders add up; where administrators    *)
(* type in stock, its rows need not (persistAllocation, markShipped).  Of  *)
(* subscriptions the types are checked.                                    *)
AllocationsAddUp ==
    CASE part = "crossed" -> /\ Crossed!TypeOK
                             /\ Crossed!UnitsAreAccountedFor
                             /\ Crossed!LinesAreCovered
                             /\ Crossed!OrderFollowsFulfillment
      [] part = "forms" -> Forms!TypeOK /\ Forms!LinesAreCovered
      [] part = "subscriptions" -> TypeOK
      [] OTHER -> TRUE

(* What an order was allocated stays, whatever staff and administrators do *)
(* meanwhile.                                                              *)
AllocationIsKept ==
    [][IF part = "forms" THEN Forms!KeepsAllocations
       ELSE Crossed!KeepsAllocations]_<<part, stockVars>>

(* The transactions implement the ledger of StockLedger, where allocating  *)
(* and shipping are one step.                                              *)
LedgerSpec ==
    /\ IF part = "forms" THEN Forms!Ledger!LedgerInit ELSE Crossed!Ledger!LedgerInit
    /\ [][IF part = "forms" THEN Forms!Ledger!LedgerNext \/ UNCHANGED Forms!Ledger!ledger
          ELSE Crossed!Ledger!LedgerNext \/ UNCHANGED Crossed!Ledger!ledger]_<<part, stockVars>>

(* Whoever was given a billing plan finds every line of the order billed,  *)
(* though several ask at once and any of them may stop anywhere            *)
(* (createFromQuotation in prisma-subscription-repository.ts).             *)
PlansAreComplete == Plan!TypeOK /\ Plan!PlanIsComplete
=============================================================================
