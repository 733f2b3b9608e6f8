------------------------------- MODULE ItemLoop ------------------------------
(***************************************************************************)
(* How the lines of an order take their items of one product: the loop of  *)
(* persistAllocation over lines and splits, statement by statement.        *)
(* Fulfillment takes Items, which states the result of the loop.           *)
(***************************************************************************)
EXTENDS Allocation

CONSTANTS Product \* the product that is handed out

VARIABLES lines,     \* of the order
          splits,    \* decided for the product
          line,      \* the line that takes, 0 until the splits are decided
          split,     \* the split it looks at next
          left,      \* what the line still wants: lineRemaining
          remaining, \* by warehouse: remainingByWarehouse
          items      \* created so far

loopVars == <<lines, splits, line, split, left, remaining, items>>

(* Lines of other products are filtered out.                               *)
Wanted(i) == IF i \in DOMAIN lines /\ lines[i].product = Product
             THEN lines[i].qty ELSE 0

LoopInit == /\ splits = << >> /\ line = 0 /\ split = 1 /\ left = 0
            /\ remaining = << >> /\ items = << >>

LastOfWarehouse(asked, w) == Max({j \in DOMAIN asked : asked[j].warehouse = w})

StartLoop(asked) ==
    /\ line = 0
    /\ splits' = asked
    /\ remaining' = [w \in {asked[j].warehouse : j \in DOMAIN asked} |->
                        asked[LastOfWarehouse(asked, w)].qty]
    /\ line' = 1 /\ split' = 1 /\ left' = Wanted(1)
    /\ UNCHANGED <<lines, items>>

NextLine ==
    /\ line \in DOMAIN lines /\ (left <= 0 \/ split > Len(splits))
    /\ line' = line + 1 /\ split' = 1 /\ left' = Wanted(line')
    /\ UNCHANGED <<lines, splits, remaining, items>>

NextSplit ==
    /\ line \in DOMAIN lines /\ left > 0 /\ split <= Len(splits)
    /\ split' = split + 1
    /\ LET w    == splits[split].warehouse
           take == Min({left, remaining[w]})
       IN  \/ remaining[w] <= 0 /\ UNCHANGED <<left, remaining, items>>
           \/ /\ remaining[w] > 0
              /\ left' = left - take
              /\ remaining' = [remaining EXCEPT ![w] = @ - take]
              /\ items' = Append(items, [line |-> line, row |-> <<w, Product>>, qty |-> take])
    /\ UNCHANGED <<lines, splits, line>>

LoopNext == NextLine \/ NextSplit

(* Lines take their items as the loop hands them out, whatever the splits, *)
(* such as name a warehouse twice or more than the lines want included.    *)
ItemsAreTheLoops == line > Len(lines) => items = Items(lines, Product, splits)
=============================================================================
