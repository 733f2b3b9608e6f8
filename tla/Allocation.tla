----------------------------- MODULE Allocation -----------------------------
(***************************************************************************)
(* How one order's quantities are spread over warehouses: the pure part of *)
(* the fulfillment module (domain/allocate-stock.ts) and the loop of       *)
(* persistAllocation that hands each line its share of the splits.         *)
(*                                                                         *)
(* A line is [product, qty], a split [warehouse, qty].  The database       *)
(* returns stock rows in no stated order, so warehouses with equal free    *)
(* stock may come in any order: Splits is a set.                           *)
(***************************************************************************)
EXTENDS Integers, Sequences, SequencesExt

Total(splits) == SumFunction([i \in DOMAIN splits |-> splits[i].qty])

Positive(splits) ==
    FlattenSeq([i \in DOMAIN splits |->
                  IF splits[i].qty > 0 THEN <<splits[i]>> ELSE << >>])

(* Fault: the sort is ascending.                                           *)
SmallestFirst(free) ==
    {ws \in SetToSeqs({w \in DOMAIN free : free[w] > 0}) :
        \A i, j \in DOMAIN ws : i < j => free[ws[i]] <= free[ws[j]]}

(* The warehouses with free stock, largest first.                          *)
LargestFirst(free) ==
    {ws \in SetToSeqs({w \in DOMAIN free : free[w] > 0}) :
        \A i, j \in DOMAIN ws : i < j => free[ws[i]] >= free[ws[j]]}

(* Fault: the last warehouse gives all it has.                             *)
TakeWhole(want, free, ws) ==
    LET before(i) == SumFunctionOnSet(free, ToSet(SubSeq(ws, 1, i - 1)))
    IN  Positive([i \in DOMAIN ws |->
            [warehouse |-> ws[i],
             qty |-> IF before(i) < want THEN free[ws[i]] ELSE 0]])

(* Take from each warehouse in turn until want is covered.                 *)
Take(want, free, ws) ==
    LET before(i) == SumFunctionOnSet(free, ToSet(SubSeq(ws, 1, i - 1)))
    IN  Positive([i \in DOMAIN ws |->
            [warehouse |-> ws[i],
             qty |-> Max({0, Min({free[ws[i]], want - before(i)})})]])

Splits(want, free) == {Take(want, free, ws) : ws \in LargestFirst(free)}

(* Fault: only an order no warehouse can serve has a shortfall.            *)
ShortfallAllOrNothing(want, splits) == IF splits = << >> THEN want ELSE 0

Shortfall(want, splits) == want - Total(splits)

(***************************************************************************)
(* remainingByWarehouse is a map: of two splits that name one warehouse    *)
(* the last quantity stays, and is consumed where the first one stood.     *)
(***************************************************************************)
(* Fault: the quantities of such splits are added up.                      *)
EffectiveAdded(splits) ==
    LET named(i) == {j \in DOMAIN splits :
                       splits[j].warehouse = splits[i].warehouse}
        kept(i)  == IF i # Min(named(i)) THEN 0
                    ELSE SumFunctionOnSet([j \in DOMAIN splits |-> splits[j].qty],
                                          named(i))
    IN  [i \in DOMAIN splits |-> [splits[i] EXCEPT !.qty = kept(i)]]

Effective(splits) ==
    LET named(i)  == {j \in DOMAIN splits :
                        splits[j].warehouse = splits[i].warehouse}
        kept(i)   == IF i = Min(named(i)) THEN splits[Max(named(i))].qty ELSE 0
    IN  [i \in DOMAIN splits |-> [splits[i] EXCEPT !.qty = kept(i)]]

(***************************************************************************)
(* Lines consume the splits of their product in order, so that line i      *)
(* takes from split j where their intervals of the running totals overlap. *)
(***************************************************************************)
QtyOf(lines, p, n) ==
    SumFunctionOnSet([i \in DOMAIN lines |-> lines[i].qty],
                     {i \in 1 .. n : lines[i].product = p})

Overlap(lines, i, splits, j) ==
    LET p == lines[i].product
    IN  Max({0, Min({QtyOf(lines, p, i), Total(SubSeq(splits, 1, j))})
              - Max({QtyOf(lines, p, i - 1), Total(SubSeq(splits, 1, j - 1))})})

Items(lines, p, asked) ==
    LET splits == Effective(asked)
        item(i, j) == [line |-> i, row |-> <<splits[j].warehouse, p>>,
                       qty |-> Overlap(lines, i, splits, j)]
        ofLine(i)  == IF lines[i].product = p
                      THEN [j \in DOMAIN splits |-> item(i, j)] ELSE << >>
    IN  Positive(FlattenSeq([i \in DOMAIN lines |-> ofLine(i)]))

ProductsOf(lines) == {lines[i].product : i \in DOMAIN lines}

Ordered(lines, p) == QtyOf(lines, p, Len(lines))

(* Every item of an order, given the splits decided for each product; the  *)
(* products go in the order the lines name them.                           *)
AllItems(lines, decided) ==
    LET p(i)     == lines[i].product
        first(i) == \A j \in 1 .. i - 1 : p(j) # p(i)
    IN  FlattenSeq([i \in DOMAIN lines |->
            IF first(i) THEN Items(lines, p(i), decided[p(i)]) ELSE << >>])

(* What the items cover of line k.                                         *)
CoveredBy(items, k) ==
    SumFunctionOnSet([n \in DOMAIN items |-> items[n].qty],
                     {n \in DOMAIN items : items[n].line = k})

(* What no item covers of each line becomes its backorder, as far as the   *)
(* product's shortfall goes; earlier lines are served first.               *)
Backorders(lines, decided, short) ==
    [i \in DOMAIN lines |->
        LET p       == lines[i].product
            open    == [k \in DOMAIN lines |->
                          lines[k].qty - CoveredBy(AllItems(lines, decided), k)]
            earlier == {k \in 1 .. i - 1 : lines[k].product = p}
        IN  Max({0, Min({open[i], short[p] - SumFunctionOnSet(open, earlier)})})]
=============================================================================
