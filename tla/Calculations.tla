----------------------------- MODULE Calculations ----------------------------
(***************************************************************************)
(* The calculations, one question after the other: the split of one        *)
(* product and the items its lines take of it, prorations and refunds of a *)
(* schedule, the risk of a quotation, deal-health findings, and the choice *)
(* of recommendations.                                                     *)
(***************************************************************************)
EXTENDS ItemLoop, TopK, Proration, Risk

CONSTANTS
    Warehouses, Products,
    Stocks, Orders, Typed,       \* of the split: free stock, lines, splits typed in
    Schedules, Days, Amounts,    \* of refunds: cycles, dates and new prices
    Quotes, Ceilings,            \* of the risk: [lines, order], percentages
    Degrees, Histories,          \* of findings: indicators, past discounts,
    Values, Ages,                \*   what a deal is worth and how old it is
    Offers                       \* of recommendations: candidates

(* A line of a quotation, discounts in steps of 5 percent.                 *)
QuoteLine == [price : Nat, cost : Nat, discount : 0 .. 20, tier : Ceilings, category : Ceilings]

Candidate == [co : Nat, promotion : Nat, margin : Int, stock : Int, same : Nat, total : Nat]

ASSUME CalculationsAssumption ==
    /\ IsFiniteSet(Warehouses) /\ Product \in Products
    /\ Stocks \subseteq [Warehouses -> Int]
    /\ Orders \subseteq Seq([product : Products, qty : Nat])
    /\ Typed \subseteq Seq([warehouse : Warehouses, qty : Nat])
    /\ Schedules \subseteq [start : Int, end : Int, amount : Nat]
    /\ Days \subseteq Int /\ Amounts \subseteq Nat
    /\ Ceilings \subseteq Nat
    /\ \A q \in Quotes : /\ q.lines \in Seq(QuoteLine) /\ q.lines # << >>
                         /\ q.order \in 0 .. 20
    /\ Degrees \subseteq Int /\ Histories \subseteq Seq(Int)
    /\ Values \subseteq Nat /\ Ages \subseteq Nat
    /\ Offers \subseteq [candidates : Seq(Candidate), k : Nat, threshold : Nat]

VARIABLES question, \* which calculation is asked
          input,    \* what the risk and the findings are asked about
          free,     \* free[w]: units of the product warehouse w can give
          schedule, day

vars == <<question, input, free, schedule, day, loopVars, selectVars>>

Want == Ordered(lines, Product)

NoInput == [k |-> 0]

OneDay == [start |-> 0, end |-> 1, amount |-> 0]

NoStock == [w \in Warehouses |-> 0]

InitSplit == /\ \/ question = "split" /\ free \in Stocks
                \/ question = "typed" /\ free = NoStock
             /\ lines \in Orders /\ schedule = OneDay /\ SelectInit(NoOffer)

InitRefund == /\ question = "refund" /\ schedule \in Schedules
              /\ lines = << >> /\ free = NoStock /\ SelectInit(NoOffer)

InitInput == /\ question \in {"risk", "trouble"} /\ schedule = OneDay
             /\ lines = << >> /\ free = NoStock /\ SelectInit(NoOffer)

InitOffer == /\ question = "offer" /\ schedule = OneDay
             /\ lines = << >> /\ free = NoStock /\ \E o \in Offers : SelectInit(o)

Init == /\ InitSplit \/ InitRefund \/ InitInput \/ InitOffer
        /\ input = NoInput /\ day = 0 /\ LoopInit

(* Two values of an indicator, one of them worse, for the same deal.       *)
Troubles == [less : Degrees, more : Degrees, history : Histories,
             highBand : BOOLEAN, value : Values, age : Ages]

Ask == /\ input = NoInput
       /\ \/ question = "risk" /\ input' \in Quotes
          \/ question = "trouble" /\ input' \in {t \in Troubles : t.less <= t.more}
       /\ UNCHANGED <<question, free, schedule, day, loopVars, selectVars>>

AskOn == /\ question = "refund"
         /\ day' \in Days
         /\ UNCHANGED <<question, input, free, schedule, loopVars, selectVars>>

Suggest == question = "split" /\ \E asked \in Splits(Want, free) : StartLoop(asked)

TypeIn == question = "typed" /\ \E asked \in Typed : StartLoop(asked)

HandOut == /\ Suggest \/ TypeIn \/ LoopNext
           /\ UNCHANGED <<question, input, free, schedule, day, selectVars>>

Offer == /\ question = "offer" /\ SelectNext
         /\ UNCHANGED <<question, input, free, schedule, day, loopVars>>

Next == Ask \/ AskOn \/ HandOut \/ Offer

Spec == Init /\ [][Next]_vars

Asked(q) == question = q /\ input # NoInput

Rule == [refundEligible |-> TRUE, minimumDays |-> 1, creditNote |-> TRUE]

(* A refund lies between nothing and the whole amount, is the whole amount *)
(* before the cycle and nothing after it, and shrinks from day to day      *)
(* (calculateCancellationRefund).  A dearer plan is never called a         *)
(* downgrade; a cheaper one is called an upgrade by a cent of rounding at  *)
(* most, as what was used and what is left of a cycle are rounded each on  *)
(* its own (calculateProration).                                           *)
MoneyFollowsTime ==
    LET refund(d) == Credit(schedule, d, Rule)
    IN  /\ refund(day) \in 0 .. schedule.amount
        /\ refund(day + 1) <= refund(day)
        /\ day <= schedule.start => refund(day) = schedule.amount
        /\ day >= schedule.end /\ schedule.end > schedule.start => refund(day) = 0
        /\ \A new \in Amounts :
              LET net == NetAdjustment(schedule, day, new)
              IN  /\ new >= schedule.amount => net >= 0
                  /\ new <= schedule.amount => net <= 1

(* A ceiling configured where there was none, or lowered, for the tier or  *)
(* the category of a line, never lets a quotation off with a lower score   *)
(* or band; and no quotation with a line above its ceiling is LOW, however *)
(* small its share (scoreRisk.ts, lines 164 to 167): when it is submitted  *)
(* and when it is confirmed.                                               *)
StricterRulesNeverRelax ==
    Asked("risk") => \A on \in Occasions :
      LET band(ls)  == Band(ls, input.order, on)
          score(ls) == ScoreRisk(ls, input.order, on)
      IN  /\ \A i \in DOMAIN input.lines, t, c \in Ceilings :
                LET stricter == [input.lines EXCEPT ![i].tier = t, ![i].category = c]
                IN  t <= input.lines[i].tier /\ c <= input.lines[i].category
                      => /\ band(stricter) >= band(input.lines)
                         /\ score(stricter).top >= score(input.lines).top
          /\ Violates(input.lines, input.order, on) => band(input.lines) >= 2

Findings(highBand, history, n) ==
    <<StalledQuotation(FALSE, n), DeliverySlippage(n),
      HighRiskDeal(highBand, n), DiscountAnomaly(n, history)>>

(* A deal that gets worse, by any of the four indicators, is never         *)
(* reported as less severe, and an alert that is less severe never stands  *)
(* above one that is more so, whatever the value and the age of its deal   *)
(* (priority-score.ts: severity sets the base tier).                       *)
WorseNeverRanksLower ==
    Asked("trouble") =>
      LET low  == Findings(input.highBand, input.history, input.less)
          high == Findings(input.highBand, input.history, input.more)
      IN  \A f, g \in 1 .. 4 :
            /\ low[f] <= high[f]
            /\ 0 < low[f] /\ low[f] < high[g]
                 => ComputePriorityScore(low[f], input.value, input.age)
                      <= ComputePriorityScore(high[g], 0, 0)

(* What has stock to give.                                                 *)
Stocked == {w \in Warehouses : free[w] > 0}

(* A suggestion names each warehouse once, asks it for no more than it has *)
(* free, and covers the order as far as all stock together allows; the     *)
(* shortfall is the rest.  No smaller set of warehouses covers as much     *)
(* (allocate-stock.ts, header: minimizes the warehouses involved).         *)
SuggestionIsBest ==
    LET all == SumFunctionOnSet(free, Stocked)
    IN  /\ \A i, j \in DOMAIN splits : i # j => splits[i].warehouse # splits[j].warehouse
        /\ \A i \in DOMAIN splits : /\ splits[i].warehouse \in Stocked
                                    /\ splits[i].qty \in 1 .. free[splits[i].warehouse]
        /\ Total(splits) = Min({Want, all})
        /\ Shortfall(Want, splits) = Want - Min({Want, all})
        /\ \A ws \in SUBSET Stocked :
              Cardinality(ws) < Len(splits) => SumFunctionOnSet(free, ws) < Total(splits)

(* A suggested split is the best there is, and any split is handed out as  *)
(* the loop hands it out (persistAllocation).                              *)
SplitsAreRight == /\ question = "split" /\ line > 0 => SuggestionIsBest
                  /\ ItemsAreTheLoops
=============================================================================
