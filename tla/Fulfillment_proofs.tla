------------------------- MODULE Fulfillment_proofs --------------------------
(***************************************************************************)
(* Allocating and shipping, for any orders, warehouses, products, splits   *)
(* and number of requests: what an order was allocated stays and a         *)
(* shipment is final; every unit of an order is in an item or in a         *)
(* backorder; the transactions implement the ledger; where nobody types in *)
(* figures, every reserved unit is waited for by an order.                 *)
(*                                                                         *)
(* One fulfillment row per order keeps allocations apart, its version      *)
(* keeps shipments apart; neither depends on the stock.  What a request    *)
(* wrote still fits when it commits, for it holds those rows and no other  *)
(* request does.                                                           *)
(*                                                                         *)
(* The lines of a product take consecutive pieces of what its splits give, *)
(* so the pieces that no split reaches are the backorder.                  *)
(***************************************************************************)
EXTENDS Fulfillment, Sums, SequenceTheorems

-----------------------------------------------------------------------------
(* Splits that an order may be given: each product's name a warehouse once *)
(* and do not exceed what is ordered; short is the difference.             *)
Serves(W, lines, decided, short) ==
    \A p \in ProductsOf(lines) :
        /\ decided[p] \in Seq(Splitting(W))
        /\ NamesOnce(decided[p])
        /\ Total(decided[p]) <= Ordered(lines, p)
        /\ short[p] = Ordered(lines, p) - Total(decided[p])

Beyond(b, x) == IF x <= b THEN 0 ELSE x - b

Open(lines, decided) ==
    [k \in DOMAIN lines |-> lines[k].qty - CoveredBy(AllItems(lines, decided), k)]

LEMMA OpenIsBeyond ==
    ASSUME NEW W, NEW P, NEW lines \in Seq(OrderLine(P)), NEW decided, NEW short,
           Serves(W, lines, decided, short), NEW k \in DOMAIN lines
    PROVE  /\ Open(lines, decided)[k] \in Nat
           /\ Open(lines, decided)[k] =
                 Beyond(Total(decided[lines[k].product]), QtyOf(lines, lines[k].product, k))
                 - Beyond(Total(decided[lines[k].product]), QtyOf(lines, lines[k].product, k - 1))
<1>0. PICK p, b : p = lines[k].product /\ b = Total(decided[p])
  OBVIOUS
<1>1. p \in ProductsOf(lines)
  BY <1>0 DEF ProductsOf
<1>2. decided[p] \in Seq(Splitting(W)) /\ NamesOnce(decided[p])
  BY <1>1 DEF Serves
<1>3. b \in Nat /\ Total(Effective(decided[p])) = b
  BY <1>0, <1>2, TotalType, EffectiveIsAll
<1>4. PICK x \in Nat, y \in Nat, q \in Nat :
         /\ x = QtyOf(lines, p, k - 1) /\ y = QtyOf(lines, p, k) /\ q = lines[k].qty
         /\ y = x + q
  BY <1>0, QtyRises
<1>5. PICK items : items = AllItems(lines, decided)
  OBVIOUS
<1>6. \A r \in ProductsOf(lines) : decided[r] \in Seq(Splitting(W))
  BY DEF Serves
<1>7. CoveredBy(items, k) = Handed(lines, Effective(decided[p]), k)
  BY <1>0, <1>5, <1>6, AllItemsCover
<1>8. Handed(lines, Effective(decided[p]), k) = Reach(x, y, b) - x
  BY <1>0, <1>3, <1>4 DEF Handed
<1>9. Open(lines, decided)[k] = q - (Reach(x, y, b) - x)
  BY <1>4, <1>5, <1>7, <1>8 DEF Open
<1>10. /\ Reach(x, y, b) = IF b >= y THEN y ELSE IF b <= x THEN x ELSE b
       /\ Beyond(b, x) = (IF x <= b THEN 0 ELSE x - b)
       /\ Beyond(b, y) = (IF y <= b THEN 0 ELSE y - b)
  BY DEF Reach, Beyond
<1>11. q - (Reach(x, y, b) - x) \in Nat /\ q - (Reach(x, y, b) - x) = Beyond(b, y) - Beyond(b, x)
  <2>1. CASE b >= y
    BY <1>3, <1>4, <1>10, <2>1
  <2>2. CASE b <= x
    BY <1>3, <1>4, <1>10, <2>2
  <2>3. CASE x < b /\ b < y
    BY <1>3, <1>4, <1>10, <2>3
  <2> QED
    BY <1>3, <1>4, <2>1, <2>2, <2>3
<1> QED
  BY <1>0, <1>4, <1>9, <1>11

(* What the lines of a product up to the n-th leave open.                  *)
LEMMA OpenAddsUp ==
    ASSUME NEW W, NEW P, NEW lines \in Seq(OrderLine(P)), NEW decided, NEW short,
           Serves(W, lines, decided, short), NEW p \in ProductsOf(lines), NEW n \in 0 .. Len(lines)
    PROVE  SumFunctionOnSet(Open(lines, decided), {k \in 1 .. n : lines[k].product = p})
              = Beyond(Total(decided[p]), QtyOf(lines, p, n))
<1>1. PICK f : f = Open(lines, decided)
  OBVIOUS
<1>2. PICK b \in Nat : b = Total(decided[p])
  BY TotalType DEF Serves
<1>3. PICK T : T = {k \in 1 .. n : lines[k].product = p}
  OBVIOUS
<1>4. PICK g : g = [k \in 1 .. n |-> IF k \in T THEN f[k] ELSE 0]
  OBVIOUS
<1>5. PICK c : c = [k \in 0 .. n |-> Beyond(b, QtyOf(lines, p, k))]
  OBVIOUS
<1>6. \A k \in 0 .. n : c[k] \in Int
  <2>1. SUFFICES ASSUME NEW k \in 0 .. n PROVE Beyond(b, QtyOf(lines, p, k)) \in Int
    BY <1>5
  <2>2. k \in 0 .. Len(lines)
    OBVIOUS
  <2>3. QtyOf(lines, p, k) \in Nat
    BY <2>2, QuantitiesRise
  <2> QED
    BY <2>3 DEF Beyond
<1>7. ASSUME NEW k \in 1 .. n PROVE f[k] \in Int /\ g[k] = c[k] - c[k - 1]
  <2>1. k \in DOMAIN lines /\ k \in 0 .. n /\ k - 1 \in 0 .. n
    OBVIOUS
  <2>2. f[k] \in Int
    <3>1. Open(lines, decided)[k] \in Nat
      BY <2>1, OpenIsBeyond
    <3> QED
      BY <1>1, <3>1
  <2>3. CASE lines[k].product = p
    <3>0. f[k] = Beyond(Total(decided[lines[k].product]), QtyOf(lines, lines[k].product, k))
                 - Beyond(Total(decided[lines[k].product]), QtyOf(lines, lines[k].product, k - 1))
      BY <1>1, <2>1, OpenIsBeyond
    <3>1. f[k] = Beyond(b, QtyOf(lines, p, k)) - Beyond(b, QtyOf(lines, p, k - 1))
      BY <1>2, <2>3, <3>0
    <3> QED
      BY <1>3, <1>4, <1>5, <2>1, <2>2, <2>3, <3>1
  <2>4. CASE lines[k].product # p
    <3>1. QtyOf(lines, p, k) = QtyOf(lines, p, k - 1)
      BY <2>1, <2>4, QtyRises
    <3>2. c[k] = c[k - 1] /\ c[k] \in Int
      BY <1>5, <1>6, <2>1, <3>1
    <3>3. g[k] = 0
      BY <1>3, <1>4, <2>4
    <3> QED
      BY <2>2, <3>2, <3>3
  <2> QED
    BY <2>3, <2>4
<1>8. Climbs(c, g, n) /\ n \in Nat
  <2>1. \A k \in 1 .. n : g[k] = c[k] - c[k - 1]
    BY <1>7
  <2> QED
    BY <1>6, <2>1 DEF Climbs
<1>9. SumFunctionOnSet(g, 1 .. n) = c[n] - c[0]
  BY <1>8, Telescopes
<1>10. SumFunctionOnSet(f, T) = SumFunctionOnSet(g, 1 .. n)
  <2>1. IsFiniteSet(1 .. n)
    BY FS_Interval
  <2>2. T \in SUBSET (1 .. n)
    BY <1>3
  <2>3. \A k \in 1 .. n : f[k] \in Int
    BY <1>7
  <2>4. \A k \in 1 .. n : g[k] = IF k \in T THEN f[k] ELSE 0
    BY <1>4
  <2>5. PartOf(g, f, T, 1 .. n)
    BY <2>2, <2>3, <2>4 DEF PartOf
  <2> QED
    BY <2>1, <2>5, SumOfPart
<1>11. c[0] = 0 /\ c[n] = Beyond(b, QtyOf(lines, p, n)) /\ c[n] \in Int
  <2>1. 0 \in 0 .. n /\ n \in 0 .. n
    OBVIOUS
  <2>2. QtyOf(lines, p, 0) = 0
    BY QuantitiesRise
  <2>3. Beyond(b, 0) = 0
    BY DEF Beyond
  <2> QED
    BY <1>5, <1>6, <2>1, <2>2, <2>3
<1> QED
  BY <1>1, <1>2, <1>3, <1>9, <1>10, <1>11

LEMMA QtyIsPart ==
    ASSUME NEW P, NEW lines \in Seq(OrderLine(P)), NEW p, NEW n \in 0 .. Len(lines)
    PROVE  QtyOf(lines, p, n) <= Ordered(lines, p)
<1>1. PICK f : f = [i \in DOMAIN lines |-> lines[i].qty]
  OBVIOUS
<1>2. PICK S, T : /\ S = {i \in 1 .. Len(lines) : lines[i].product = p}
                  /\ T = {i \in 1 .. n : lines[i].product = p}
  OBVIOUS
<1>3. IsFiniteSet(S) /\ T \in SUBSET S
  <2>1. IsFiniteSet(1 .. Len(lines)) /\ S \subseteq 1 .. Len(lines)
    BY <1>2, FS_Interval
  <2>2. IsFiniteSet(S)
    BY <2>1, FS_Subset
  <2>3. 1 .. n \subseteq 1 .. Len(lines)
    OBVIOUS
  <2> QED
    BY <1>2, <2>2, <2>3
<1>4. \A x \in S : f[x] \in Nat
  <2>1. SUFFICES ASSUME NEW x \in 1 .. Len(lines) PROVE lines[x].qty \in Nat /\ x \in DOMAIN lines
    BY <1>1, <1>2
  <2>2. lines[x] \in OrderLine(P)
    OBVIOUS
  <2> QED
    BY <2>2 DEF OrderLine
<1>5. \A x \in T : f[x] <= f[x]
  BY <1>3, <1>4
<1>6. SumFunctionOnSet(f, T) <= SumFunctionOnSet(f, S)
  BY <1>3, <1>4, <1>5, SumGrows
<1> QED
  BY <1>1, <1>2, <1>6 DEF Ordered, QtyOf

(* The backorder of a line is what no item covers of it.                   *)
LEMMA BackorderIsOpen ==
    ASSUME NEW W, NEW P, NEW lines \in Seq(OrderLine(P)), NEW decided, NEW short,
           Serves(W, lines, decided, short), NEW i \in DOMAIN lines
    PROVE  /\ Backorders(lines, decided, short)[i] = Open(lines, decided)[i]
           /\ Open(lines, decided)[i] \in Nat
<1>1. PICK p : p = lines[i].product
  OBVIOUS
<1>2. p \in ProductsOf(lines)
  BY <1>1 DEF ProductsOf
<1>3. PICK b \in Nat : b = Total(decided[p])
  BY <1>2, TotalType DEF Serves
<1>4. PICK f : f = Open(lines, decided)
  OBVIOUS
<1>5. i \in 0 .. Len(lines) /\ i - 1 \in 0 .. Len(lines) /\ Len(lines) \in 0 .. Len(lines)
  OBVIOUS
<1>6. PICK x \in Nat, y \in Nat, z \in Nat :
        /\ x = QtyOf(lines, p, i - 1) /\ y = QtyOf(lines, p, i) /\ z = Ordered(lines, p)
        /\ x <= y /\ y <= z
  <2>1. QtyOf(lines, p, i - 1) \in Nat /\ QtyOf(lines, p, i) \in Nat /\ QtyOf(lines, p, i - 1) <= QtyOf(lines, p, i)
    BY QtyRises
  <2>2. Ordered(lines, p) \in Nat
    BY <1>5, QtyOfType DEF Ordered
  <2>3. QtyOf(lines, p, i) <= Ordered(lines, p)
    BY <1>5, QtyIsPart
  <2> QED
    BY <2>1, <2>2, <2>3
<1>7. PICK o \in Nat : o = f[i] /\ o = Beyond(b, y) - Beyond(b, x)
  <2>1. /\ f[i] \in Nat
        /\ f[i] = Beyond(Total(decided[lines[i].product]), QtyOf(lines, lines[i].product, i))
                   - Beyond(Total(decided[lines[i].product]), QtyOf(lines, lines[i].product, i - 1))
    BY <1>4, OpenIsBeyond
  <2> QED
    BY <1>1, <1>3, <1>6, <2>1
<1>8. PICK e \in Int : /\ e = SumFunctionOnSet(f, {k \in 1 .. i - 1 : lines[k].product = p})
                       /\ e = Beyond(b, x)
  <2>1. Beyond(b, x) \in Int
    BY DEF Beyond
  <2>2. PICK n : n = i - 1 /\ n \in 0 .. Len(lines)
    BY <1>5
  <2>3. SumFunctionOnSet(f, {k \in 1 .. n : lines[k].product = p})
           = Beyond(Total(decided[p]), QtyOf(lines, p, n))
    BY <1>2, <1>4, <2>2, OpenAddsUp
  <2> QED
    BY <1>3, <1>6, <2>1, <2>2, <2>3
<1>9. short[p] = z - b /\ b <= z
  BY <1>2, <1>3, <1>6 DEF Serves
<1>10. PICK d \in Int : d = short[p] - e
  BY <1>9
<1>11. o <= d
  <2>1. /\ Beyond(b, x) = (IF x <= b THEN 0 ELSE x - b)
        /\ Beyond(b, y) = (IF y <= b THEN 0 ELSE y - b)
    BY DEF Beyond
  <2>2. d = (z - b) - Beyond(b, x)
    BY <1>8, <1>9, <1>10
  <2>3. CASE y <= b
    BY <1>6, <1>7, <1>9, <2>1, <2>2, <2>3
  <2>4. CASE b < y
    BY <1>6, <1>7, <1>9, <2>1, <2>2, <2>4
  <2> QED
    BY <1>6, <2>3, <2>4
<1>12. Min({o, d}) = o
  <2>1. o \in Int /\ d \in Int
    OBVIOUS
  <2>2. Min({o, d}) = IF o <= d THEN o ELSE d
    BY <2>1, MaxOfTwo
  <2> QED
    BY <1>11, <2>2
<1>13. Max({0, o}) = o
  <2>1. Max({0, o}) = IF 0 >= o THEN 0 ELSE o
    BY MaxOfTwo
  <2> QED
    BY <2>1
<1>14. Backorders(lines, decided, short)[i] = Max({0, Min({f[i], short[p] - e})})
  BY <1>1, <1>4, <1>8 DEF Backorders, Open
<1> QED
  BY <1>4, <1>7, <1>10, <1>12, <1>13, <1>14

-----------------------------------------------------------------------------
(* A product's shortfall is what its lines leave open.                     *)
ShortShows(lines, decided, short, p) ==
    /\ short[p] \in Nat
    /\ short[p] = 0 => \A k \in DOMAIN lines :
                          lines[k].product = p => Open(lines, decided)[k] = 0
    /\ short[p] # 0 => \E k \in DOMAIN lines : Open(lines, decided)[k] # 0

LEMMA ShortIsOpen ==
    ASSUME NEW W, NEW P, NEW lines \in Seq(OrderLine(P)), NEW decided, NEW short,
           Serves(W, lines, decided, short), NEW p \in ProductsOf(lines)
    PROVE  ShortShows(lines, decided, short, p)
<1>1. PICK f : f = Open(lines, decided)
  OBVIOUS
<1>2. PICK n \in Nat : n = Len(lines) /\ n \in 0 .. Len(lines) /\ DOMAIN lines = 1 .. n
  OBVIOUS
<1>3. PICK T : T = {k \in 1 .. n : lines[k].product = p}
  OBVIOUS
<1>4. PICK b \in Nat : b = Total(decided[p])
  BY TotalType DEF Serves
<1>5. PICK z \in Nat : z = Ordered(lines, p) /\ z = QtyOf(lines, p, n)
  BY <1>2, QtyOfType DEF Ordered
<1>6. short[p] = z - b /\ b <= z
  BY <1>4, <1>5 DEF Serves
<1>7. SumFunctionOnSet(f, T) = Beyond(b, z)
  BY <1>1, <1>2, <1>3, <1>4, <1>5, OpenAddsUp
<1>8. Beyond(b, z) = short[p] /\ short[p] \in Nat
  BY <1>6 DEF Beyond
<1>9. IsFiniteSet(T) /\ T \subseteq DOMAIN lines
  <2>1. IsFiniteSet(1 .. n) /\ T \subseteq 1 .. n
    BY <1>3, FS_Interval
  <2> QED
    BY <1>2, <2>1, FS_Subset
<1>10. \A k \in DOMAIN lines : f[k] \in Nat
  BY <1>1, OpenIsBeyond
<1>11. ASSUME short[p] = 0, NEW k \in DOMAIN lines, lines[k].product = p PROVE f[k] = 0
  <2>1. k \in T /\ IsFiniteSet(T \ {k})
    BY <1>2, <1>3, <1>9, <1>11, FS_Subset
  <2>2. \A x \in T : f[x] \in Int
    BY <1>9, <1>10
  <2>3. SumFunctionOnSet(f, T) = f[k] + SumFunctionOnSet(f, T \ {k})
    BY <1>9, <2>1, <2>2, SumRemove
  <2>4. \A x \in T \ {k} : f[x] \in Nat
    BY <1>9, <1>10
  <2>5. SumFunctionOnSet(f, T \ {k}) \in Nat
    BY <2>1, <2>4, SumType
  <2> QED
    BY <1>7, <1>8, <1>10, <1>11, <2>3, <2>5
<1>12. ASSUME short[p] # 0 PROVE \E k \in DOMAIN lines : f[k] # 0
  <2>1. SUFFICES ASSUME \A k \in DOMAIN lines : f[k] = 0 PROVE FALSE
    OBVIOUS
  <2>2. \A k \in T : f[k] = 0
    BY <1>9, <2>1
  <2>3. SumFunctionOnSet(f, T) = 0
    BY <1>9, <2>2, SumOfZeros
  <2> QED
    BY <1>7, <1>8, <1>12, <2>3
<1> QED
  BY <1>1, <1>8, <1>11, <1>12 DEF ShortShows

LEMMA ProductsFinite ==
    ASSUME NEW P, NEW lines \in Seq(OrderLine(P)) PROVE IsFiniteSet(ProductsOf(lines))
<1>1. IsFiniteSet(DOMAIN lines)
  BY FS_Interval
<1>2. PICK g : g = [i \in DOMAIN lines |-> lines[i].product]
  OBVIOUS
<1>3. g \in Surjection(DOMAIN lines, ProductsOf(lines))
  BY <1>2 DEF Surjection, ProductsOf
<1> QED
  BY <1>1, <1>3, FS_Surjection

-----------------------------------------------------------------------------
(* One allocation of an order at a time, one shipment.                     *)

RowFields == {"status", "version", "items", "backorders"}
TxFields  == {"pc", "op", "order", "seen", "fulfillment", "next", "peeked"}

IsRow(f) == f = [k \in RowFields |-> f[k]] /\ f.version \in Nat

IsTx(q) == q = [k \in TxFields |-> q[k]]

(* An allocation that has created the order's row is alone in that, and    *)
(* a shipment that saw the present version saw the present row.            *)
TxOK(t) ==
    LET o == tx[t].order
        f == tx[t].fulfillment
    IN  tx[t].pc # "idle" =>
          /\ o \in Orders /\ IsRow(f) /\ tx[t].op \in {"allocate", "ship"}
          /\ tx[t].pc \in {"create", "peek", "write"}
          /\ tx[t].pc = "create" => tx[t].op = "allocate"
          /\ Begun(t, o) => /\ fulfillment[o] = NoFulfillment
                            /\ \A u \in Requests \ {t} : ~Begun(u, o)
          /\ tx[t].op = "ship" =>
                /\ fulfillment[o] # NoFulfillment
                /\ f.status # "SHIPPED" /\ f.version <= fulfillment[o].version
                /\ f.version = fulfillment[o].version => f = fulfillment[o]

FulfillmentInv ==
    /\ fulfillment = [o \in Orders |-> fulfillment[o]]
    /\ tx = [t \in Requests |-> tx[t]]
    /\ \A o \in Orders : IsRow(fulfillment[o])
    /\ \A t \in Requests : IsTx(tx[t]) /\ TxOK(t)

LEMMA NoFulfillmentRow == IsRow(NoFulfillment) /\ NoFulfillment.status = "NONE"
BY DEF IsRow, NoFulfillment, RowFields

LEMMA IdleTx == IsTx(Idle) /\ Idle.pc = "idle"
BY DEF IsTx, Idle, TxFields

LEMMA StartsRight == Init => FulfillmentInv
<1> SUFFICES ASSUME Init PROVE FulfillmentInv
  OBVIOUS
<1>1. /\ fulfillment = [o \in Orders |-> NoFulfillment]
      /\ tx = [t \in Requests |-> Idle]
  BY DEF Init
<1> QED
  BY <1>1, NoFulfillmentRow, IdleTx DEF FulfillmentInv, TxOK

-----------------------------------------------------------------------------
(* Steps that leave the fulfillment rows alone.                            *)

(* A request takes its next state and no other is concerned.               *)
LEMMA OneRequest ==
    ASSUME FulfillmentInv, NEW t \in Requests, NEW q, IsTx(q),
           tx' = [tx EXCEPT ![t] = q], fulfillment' = fulfillment,
           TxOK(t)',
           Begun(t, q.order)' =>
              \/ Begun(t, q.order)
              \/ \A u \in Requests : ~Begun(u, q.order)
    PROVE  FulfillmentInv'
<1>1. /\ tx'[t] = q /\ \A u \in Requests \ {t} : tx'[u] = tx[u]
      /\ tx' = [u \in Requests |-> tx'[u]]
  BY DEF FulfillmentInv
<1>2. ASSUME NEW u \in Requests \ {t} PROVE IsTx(tx'[u]) /\ TxOK(u)'
  <2>1. tx'[u] = tx[u] /\ IsTx(tx[u]) /\ TxOK(u)
    BY <1>1 DEF FulfillmentInv
  <2>2. ASSUME tx[u].pc # "idle", Begun(u, tx[u].order) PROVE ~Begun(t, tx[u].order)'
    <3>1. ~Begun(t, tx[u].order)
      BY <2>1, <2>2 DEF TxOK
    <3>2. Begun(t, tx[u].order)' => q.order = tx[u].order
      BY <1>1 DEF Begun
    <3> QED
      BY <2>2, <3>1, <3>2
  <2> QED
    BY <1>1, <2>1, <2>2 DEF TxOK, Begun
<1> QED
  BY <1>1, <1>2 DEF FulfillmentInv

LEMMA Closing ==
    ASSUME FulfillmentInv, NEW t \in Requests, Close(t), fulfillment' = fulfillment
    PROVE  FulfillmentInv'
<1>1. tx' = [tx EXCEPT ![t] = Idle]
  BY DEF Close
<1>2. tx'[t] = Idle
  BY <1>1 DEF FulfillmentInv
<1>3. TxOK(t)' /\ ~Begun(t, Idle.order)'
  BY <1>2, IdleTx DEF TxOK, Begun
<1> QED
  BY <1>1, <1>3, IdleTx, OneRequest

LEMMA Beginning ==
    ASSUME FulfillmentInv, NEW t \in Requests, NEW o \in Orders, NEW decided, NEW short,
           BeginAllocation(t, o, decided, short)
    PROVE  FulfillmentInv'
<1>1. PICK f : f = PlannedRow(o, decided, short)
  OBVIOUS
<1>2. IsRow(f)
  BY <1>1 DEF PlannedRow, IsRow, RowFields
<1>3. PICK q : q = [pc |-> "create", op |-> "allocate", order |-> o, seen |-> order[o].version,
                    fulfillment |-> f, next |-> 1, peeked |-> 0]
  OBVIOUS
<1>4. tx' = [tx EXCEPT ![t] = q] /\ fulfillment' = fulfillment
  BY <1>1, <1>3 DEF BeginAllocation, db
<1>5. tx'[t] = q
  BY <1>4 DEF FulfillmentInv
<1>6. IsTx(q)
  BY <1>3 DEF IsTx, TxFields
<1>7. TxOK(t)' /\ ~Begun(t, q.order)'
  BY <1>2, <1>3, <1>5 DEF TxOK, Begun
<1> QED
  BY <1>4, <1>6, <1>7, OneRequest

LEMMA Shipping ==
    ASSUME FulfillmentInv, NEW t \in Requests, NEW o \in Orders, MarkShipped(t, o)
    PROVE  FulfillmentInv'
<1>1. PICK q : q = [pc |-> "peek", op |-> "ship", order |-> o, seen |-> order[o].version,
                    fulfillment |-> fulfillment[o], next |-> 1, peeked |-> 0]
  OBVIOUS
<1>2. tx' = [tx EXCEPT ![t] = q] /\ fulfillment' = fulfillment
  BY <1>1 DEF MarkShipped, db
<1>3. tx'[t] = q /\ IsRow(fulfillment[o])
  BY <1>2 DEF FulfillmentInv
<1>4. IsTx(q)
  BY <1>1 DEF IsTx, TxFields
<1>5. fulfillment[o] # NoFulfillment /\ fulfillment[o].status # "SHIPPED"
  BY NoFulfillmentRow DEF MarkShipped
<1>6. fulfillment[o].version <= fulfillment[o].version
  BY <1>3 DEF IsRow
<1>7. TxOK(t)' /\ ~Begun(t, q.order)'
  BY <1>1, <1>2, <1>3, <1>5, <1>6 DEF TxOK, Begun
<1> QED
  BY <1>2, <1>4, <1>7, OneRequest

LEMMA Creating ==
    ASSUME FulfillmentInv, NEW t \in Requests, CreateFulfillment(t)
    PROVE  FulfillmentInv'
<1>1. PICK q : q = [tx[t] EXCEPT !.pc = "peek"]
  OBVIOUS
<1>2. IsTx(tx[t]) /\ TxOK(t) /\ tx[t].pc = "create"
  BY DEF FulfillmentInv, CreateFulfillment
<1>3. /\ IsTx(q) /\ q.pc = "peek" /\ q.op = tx[t].op /\ q.order = tx[t].order
      /\ q.fulfillment = tx[t].fulfillment
  BY <1>1, <1>2 DEF IsTx, TxFields
<1>4. tx' = [tx EXCEPT ![t] = q] /\ fulfillment' = fulfillment
  BY <1>1 DEF CreateFulfillment, db
<1>5. tx'[t] = q /\ \A u \in Requests \ {t} : tx'[u] = tx[u]
  BY <1>4 DEF FulfillmentInv
<1>6. /\ fulfillment[q.order] = NoFulfillment
      /\ \A u \in Requests : ~Begun(u, q.order)
  BY <1>3 DEF CreateFulfillment
<1>7. TxOK(t)'
  BY <1>2, <1>3, <1>4, <1>5, <1>6 DEF TxOK, Begun
<1> QED
  BY <1>3, <1>4, <1>6, <1>7, OneRequest

LEMMA Writing ==
    ASSUME FulfillmentInv, NEW t \in Requests, Peek(t) \/ WriteStock(t)
    PROVE  FulfillmentInv'
<1>1. IsTx(tx[t]) /\ TxOK(t) /\ tx[t].pc \in {"peek", "write"}
  BY DEF FulfillmentInv, Peek, WriteStock
<1>2. PICK q : /\ tx' = [tx EXCEPT ![t] = q]
               /\ \/ q = [tx[t] EXCEPT !.pc = "write",
                                       !.peeked = stock[NextItem(t).row].version]
                  \/ q = [tx[t] EXCEPT !.pc = "peek", !.next = @ + 1]
  BY DEF Peek, WriteStock
<1>3. /\ IsTx(q) /\ q.pc \in {"peek", "write"} /\ q.op = tx[t].op
      /\ q.order = tx[t].order /\ q.fulfillment = tx[t].fulfillment
  BY <1>1, <1>2 DEF IsTx, TxFields
<1>4. fulfillment' = fulfillment
  BY DEF Peek, WriteStock, db
<1>5. tx'[t] = q /\ \A u \in Requests \ {t} : tx'[u] = tx[u]
  BY <1>2 DEF FulfillmentInv
<1>6. Begun(t, q.order)' => Begun(t, q.order)
  BY <1>1, <1>3, <1>5 DEF Begun
<1>7. TxOK(t)'
  BY <1>1, <1>3, <1>4, <1>5 DEF TxOK, Begun
<1> QED
  BY <1>2, <1>3, <1>4, <1>6, <1>7, OneRequest

-----------------------------------------------------------------------------
(* Commits: the row of one order changes, and its writer is done.          *)

LEMMA OneRow ==
    ASSUME FulfillmentInv, NEW t \in Requests, NEW o \in Orders, NEW f, IsRow(f),
           Close(t), fulfillment' = [fulfillment EXCEPT ![o] = f],
           \A u \in Requests \ {t} : tx[u].pc # "idle" /\ tx[u].order = o =>
              /\ ~Begun(u, o)
              /\ tx[u].op = "ship" =>
                    f # NoFulfillment /\ tx[u].fulfillment.version < f.version
    PROVE  FulfillmentInv'
<1>1. /\ tx'[t] = Idle /\ \A u \in Requests \ {t} : tx'[u] = tx[u]
      /\ tx' = [u \in Requests |-> tx'[u]]
  BY DEF FulfillmentInv, Close
<1>2. /\ fulfillment'[o] = f /\ \A p \in Orders \ {o} : fulfillment'[p] = fulfillment[p]
      /\ fulfillment' = [p \in Orders |-> fulfillment'[p]]
  BY DEF FulfillmentInv
<1>3. TxOK(t)' /\ IsTx(tx'[t]) /\ \A p \in Orders : ~Begun(t, p)'
  BY <1>1, IdleTx DEF TxOK, Begun
<1>4. ASSUME NEW u \in Requests \ {t} PROVE IsTx(tx'[u]) /\ TxOK(u)'
  <2>1. tx'[u] = tx[u] /\ IsTx(tx[u]) /\ TxOK(u)
    BY <1>1 DEF FulfillmentInv
  <2>2. SUFFICES ASSUME tx[u].pc # "idle" PROVE TxOK(u)'
    BY <2>1 DEF TxOK
  <2>3. \A v \in Requests, p \in Orders : Begun(v, p)' => Begun(v, p)
    BY <1>1, <1>3 DEF Begun
  <2>4. tx[u].order \in Orders
    BY <2>1, <2>2 DEF TxOK
  <2>5. CASE tx[u].order # o
    <3>1. fulfillment'[tx[u].order] = fulfillment[tx[u].order]
      BY <1>2, <2>4, <2>5
    <3> QED
      BY <2>1, <2>2, <2>3, <2>4, <3>1 DEF TxOK, Begun
  <2>6. CASE tx[u].order = o
    <3>1. ~Begun(u, o)'
      BY <2>2, <2>3, <2>6
    <3>2. /\ IsRow(tx[u].fulfillment) /\ tx[u].op \in {"allocate", "ship"}
          /\ tx[u].pc \in {"create", "peek", "write"}
          /\ tx[u].pc = "create" => tx[u].op = "allocate"
          /\ tx[u].op = "ship" => tx[u].fulfillment.status # "SHIPPED"
      BY <2>1, <2>2 DEF TxOK
    <3>3. tx[u].op = "ship" => /\ f # NoFulfillment
                               /\ tx[u].fulfillment.version <= f.version
                               /\ tx[u].fulfillment.version # f.version
      BY <2>2, <2>6, <3>2 DEF IsRow
    <3> QED
      BY <1>2, <2>1, <2>6, <3>1, <3>2, <3>3 DEF TxOK
  <2> QED
    BY <2>5, <2>6
<1>5. \A p \in Orders : IsRow(fulfillment'[p])
  BY <1>2 DEF FulfillmentInv
<1> QED
  BY <1>1, <1>2, <1>3, <1>4, <1>5 DEF FulfillmentInv

LEMMA Allocating ==
    ASSUME FulfillmentInv, NEW t \in Requests, CommitAllocation(t)
    PROVE  FulfillmentInv' /\ fulfillment[tx[t].order] = NoFulfillment
<1>1. /\ tx[t].pc = "peek" /\ tx[t].op = "allocate" /\ Close(t)
      /\ fulfillment' = [fulfillment EXCEPT ![tx[t].order] = tx[t].fulfillment]
  BY DEF CommitAllocation
<1>2. TxOK(t) /\ Begun(t, tx[t].order)
  BY <1>1 DEF FulfillmentInv, Begun
<1>3. /\ tx[t].order \in Orders /\ IsRow(tx[t].fulfillment)
      /\ fulfillment[tx[t].order] = NoFulfillment
      /\ \A u \in Requests \ {t} : ~Begun(u, tx[t].order)
  BY <1>1, <1>2 DEF TxOK
<1>4. \A u \in Requests \ {t} : tx[u].pc # "idle" /\ tx[u].order = tx[t].order =>
         tx[u].op # "ship"
  BY <1>3 DEF FulfillmentInv, TxOK
<1>5. PICK o \in Orders : o = tx[t].order
  BY <1>3
<1>6. PICK f : f = tx[t].fulfillment
  OBVIOUS
<1>7. IsRow(f) /\ fulfillment' = [fulfillment EXCEPT ![o] = f]
  BY <1>1, <1>3, <1>5, <1>6
<1>8. \A u \in Requests \ {t} : tx[u].pc # "idle" /\ tx[u].order = o =>
         /\ ~Begun(u, o)
         /\ tx[u].op = "ship" =>
               f # NoFulfillment /\ tx[u].fulfillment.version < f.version
  BY <1>3, <1>4, <1>5, <1>6
<1>9. FulfillmentInv'
  BY <1>1, <1>7, <1>8, OneRow
<1> QED
  BY <1>3, <1>9

LEMMA ShippingOut ==
    ASSUME FulfillmentInv, NEW t \in Requests, CommitShipment(t)
    PROVE  /\ FulfillmentInv'
           /\ fulfillment[tx[t].order].status # "SHIPPED"
           /\ fulfillment'[tx[t].order].items = fulfillment[tx[t].order].items
<1>1. PICK o : o = tx[t].order
  OBVIOUS
<1>2. /\ tx[t].pc = "peek" /\ tx[t].op = "ship" /\ Close(t)
      /\ fulfillment[o].version = tx[t].fulfillment.version
      /\ fulfillment' = [fulfillment EXCEPT ![o].status = "SHIPPED",
                                            ![o].version = @ + 1]
  BY <1>1 DEF CommitShipment
<1>3. TxOK(t)
  BY DEF FulfillmentInv
<1>4. /\ o \in Orders /\ fulfillment[o] # NoFulfillment
      /\ tx[t].fulfillment = fulfillment[o] /\ fulfillment[o].status # "SHIPPED"
  BY <1>1, <1>2, <1>3 DEF TxOK
<1>5. IsRow(fulfillment[o])
  BY <1>4 DEF FulfillmentInv
<1>6. PICK f : f = [k \in RowFields |->
                     CASE k = "status" -> "SHIPPED"
                       [] k = "version" -> fulfillment[o].version + 1
                       [] OTHER -> fulfillment[o][k]]
  OBVIOUS
<1>7. /\ IsRow(f) /\ f.status = "SHIPPED" /\ f.items = fulfillment[o].items
      /\ f.version = fulfillment[o].version + 1
  BY <1>5, <1>6 DEF IsRow, RowFields
<1>8. fulfillment' = [fulfillment EXCEPT ![o] = f]
  <2>1. fulfillment' = [fulfillment EXCEPT ![o] =
          [fulfillment[o] EXCEPT !.status = "SHIPPED", !.version = @ + 1]]
    BY <1>2
  <2>2. f = [fulfillment[o] EXCEPT !.status = "SHIPPED", !.version = @ + 1]
    BY <1>5, <1>6 DEF IsRow, RowFields
  <2> QED
    BY <2>1, <2>2
<1>9. \A u \in Requests \ {t} : tx[u].pc # "idle" /\ tx[u].order = o =>
         /\ ~Begun(u, o)
         /\ tx[u].op = "ship" =>
              f # NoFulfillment /\ tx[u].fulfillment.version < f.version
  <2> SUFFICES ASSUME NEW u \in Requests \ {t}, tx[u].pc # "idle", tx[u].order = o
               PROVE  /\ ~Begun(u, o)
                      /\ tx[u].op = "ship" =>
                           f # NoFulfillment /\ tx[u].fulfillment.version < f.version
    OBVIOUS
  <2>1. TxOK(u)
    BY DEF FulfillmentInv
  <2>2. ~Begun(u, o)
    BY <1>4, <2>1 DEF TxOK
  <2>3. tx[u].op = "ship" =>
           /\ tx[u].fulfillment.version <= fulfillment[o].version
           /\ IsRow(tx[u].fulfillment)
    BY <2>1 DEF TxOK
  <2> QED
    BY <1>5, <1>7, <2>2, <2>3, NoFulfillmentRow DEF IsRow
<1>10. FulfillmentInv'
  BY <1>2, <1>4, <1>7, <1>8, <1>9, OneRow
<1>11. fulfillment'[o] = f
  BY <1>4, <1>8 DEF FulfillmentInv
<1> QED
  BY <1>1, <1>4, <1>7, <1>10, <1>11

-----------------------------------------------------------------------------
(* The invariant and the property.                                         *)

LEMMA Unconcerned ==
    ASSUME FulfillmentInv, tx' = tx, fulfillment' = fulfillment
    PROVE  FulfillmentInv'
BY DEF FulfillmentInv, TxOK, Begun

(* Who may change a fulfillment row, and how.                              *)
RowsKept ==
    \A o \in Orders :
       /\ fulfillment[o] # NoFulfillment =>
             fulfillment'[o].items = fulfillment[o].items
       /\ Shipped(o) => fulfillment'[o] = fulfillment[o]

LEMMA StaysRight ==
    ASSUME FulfillmentInv, [Next]_vars
    PROVE  FulfillmentInv' /\ RowsKept
<1>1. ASSUME NEW t \in Requests, NEW o \in Orders,
             AcceptSuggestedSplit(t, o) \/ OverrideSplit(t, o)
      PROVE  FulfillmentInv' /\ RowsKept
  <2>1. \E decided, short : BeginAllocation(t, o, decided, short)
    BY <1>1 DEF AcceptSuggestedSplit, OverrideSplit
  <2>2. fulfillment' = fulfillment
    BY <2>1 DEF BeginAllocation, db
  <2> QED
    BY <2>1, <2>2, Beginning DEF RowsKept
<1>2. ASSUME NEW t \in Requests, NEW o \in Orders, MarkShipped(t, o)
      PROVE  FulfillmentInv' /\ RowsKept
  BY <1>2, Shipping DEF RowsKept, MarkShipped, db
<1>3. ASSUME NEW t \in Requests, CreateFulfillment(t)
      PROVE  FulfillmentInv' /\ RowsKept
  BY <1>3, Creating DEF RowsKept, CreateFulfillment, db
<1>4. ASSUME NEW t \in Requests, Peek(t) \/ WriteStock(t)
      PROVE  FulfillmentInv' /\ RowsKept
  BY <1>4, Writing DEF RowsKept, Peek, WriteStock, db
<1>5. ASSUME NEW t \in Requests, CommitAllocation(t)
      PROVE  FulfillmentInv' /\ RowsKept
  <2>1. /\ fulfillment[tx[t].order] = NoFulfillment
        /\ \A o \in Orders \ {tx[t].order} : fulfillment'[o] = fulfillment[o]
    BY <1>5, Allocating DEF CommitAllocation, FulfillmentInv
  <2> QED
    BY <1>5, <2>1, Allocating, NoFulfillmentRow DEF RowsKept, Shipped
<1>6. ASSUME NEW t \in Requests, CommitShipment(t)
      PROVE  FulfillmentInv' /\ RowsKept
  <2>1. \A o \in Orders \ {tx[t].order} : fulfillment'[o] = fulfillment[o]
    BY <1>6 DEF CommitShipment, FulfillmentInv
  <2> QED
    BY <1>6, <2>1, ShippingOut DEF RowsKept, Shipped
<1>7. ASSUME NEW t \in Requests, Abort(t)
      PROVE  FulfillmentInv' /\ RowsKept
  BY <1>7, Closing DEF RowsKept, Abort, db
<1>8. ASSUME Admin PROVE FulfillmentInv' /\ RowsKept
  <2>1. \E rows, fields, figures : Save(rows, fields, figures)
    BY <1>8 DEF Admin, CreateStock, UpdateStock, ImportStock
  <2> QED
    BY <2>1, Unconcerned DEF Save, RowsKept
<1>9. ASSUME NEW r \in Rows, DeleteStock(r) PROVE FulfillmentInv' /\ RowsKept
  BY <1>9, Unconcerned DEF DeleteStock, RowsKept
<1>10. ASSUME NEW o \in Orders, LateDecision(o) \/ ConfirmAgain(o)
       PROVE  FulfillmentInv' /\ RowsKept
  BY <1>10, Unconcerned DEF LateDecision, ConfirmAgain, RowsKept
<1>11. CASE UNCHANGED vars
  BY <1>11, Unconcerned DEF vars, RowsKept
<1> QED
  BY <1>1, <1>2, <1>3, <1>4, <1>5, <1>6, <1>7, <1>8, <1>9, <1>10, <1>11 DEF Next, Staff

(* Requests in flight never hold a stale row they could commit.            *)
THEOREM OneAllocation == Spec => []FulfillmentInv
<1>1. FulfillmentInv /\ [Next]_vars => FulfillmentInv'
  BY StaysRight
<1> QED
  BY StartsRight, <1>1, PTL DEF Spec

(* fulfillment-service.ts: an order's items never change once allocated,   *)
(* and no later request touches a shipment.                                *)
THEOREM AllocationKept == Spec => AllocationIsKept
<1>1. FulfillmentInv /\ [Next]_vars => [RowsKept]_vars
  BY StaysRight
<1>2. [RowsKept]_vars => [KeepsAllocations]_vars
  BY DEF RowsKept, KeepsAllocations
<1> QED
  BY OneAllocation, <1>1, <1>2, PTL DEF Spec, AllocationIsKept

-----------------------------------------------------------------------------
(***************************************************************************)
(* Types, and who holds which stock row.                                   *)
(***************************************************************************)
StockFields == {"exists", "available", "reserved", "version"}

IsStock(s) == /\ s = [k \in StockFields |-> s[k]]
              /\ s.exists \in BOOLEAN /\ s.version \in Nat
              /\ s.available \in Nat /\ s.reserved \in Nat
              /\ s.reserved <= s.available

IsOrder(q) == q = [status |-> q.status, version |-> q.version]
                /\ q.status \in OrderStatuses /\ q.version \in Nat

TypedRow(f) == /\ IsRow(f)
               /\ f.status \in FulfillmentStatuses
               /\ f.items \in Seq(Item) /\ f.backorders \in Seq(Nat)

TypedTx(q) == /\ IsTx(q)
              /\ q.pc \in {"idle", "create", "peek", "write"}
              /\ q.op \in {"allocate", "ship"} /\ q.order \in Orders
              /\ q.seen \in Nat /\ q.next \in Nat /\ q.peeked \in Nat
              /\ TypedRow(q.fulfillment)

TypeInv ==
    /\ stock = [r \in Rows |-> stock[r]] /\ \A r \in Rows : IsStock(stock[r])
    /\ order = [o \in Orders |-> order[o]] /\ \A o \in Orders : IsOrder(order[o])
    /\ fulfillment = [o \in Orders |-> fulfillment[o]]
    /\ \A o \in Orders : TypedRow(fulfillment[o])
    /\ tx = [t \in Requests |-> tx[t]] /\ \A t \in Requests : TypedTx(tx[t])

(* What a request has written so far still fits, each row once.            *)
Fits(q, it) == IF q.op = "allocate" THEN it.qty <= Free(it.row)
                                    ELSE it.qty <= stock[it.row].reserved

WritesOK(t) ==
    LET q     == tx[t]
        items == tx[t].fulfillment.items
    IN  q.pc # "idle" =>
          /\ q.pc = "create" => q.next = 1
          /\ q.pc = "write" => q.next <= Len(items)
          /\ q.next >= 1
          /\ q.op = "allocate" => q.fulfillment.status \notin {"NONE", "SHIPPED"}
          /\ \A i \in Written(t) : Fits(q, items[i])
          /\ \A i, j \in Written(t) : items[i].row = items[j].row => i = j

OneHolder == \A t, u \in Requests, r \in Rows : Holds(t, r) /\ Holds(u, r) => t = u

StockInv == TypeInv /\ (\A t \in Requests : WritesOK(t)) /\ OneHolder

-----------------------------------------------------------------------------
(* The units of one row in an order's items.                               *)

LEMMA UnitsType ==
    ASSUME NEW f, f.items \in Seq(Item), NEW r PROVE UnitsOf(f, r) \in Nat
<1>1. PICK items \in Seq(Item) : items = f.items
  OBVIOUS
<1>2. PICK qty : qty = [i \in DOMAIN items |-> items[i].qty]
  OBVIOUS
<1>3. PICK T : T = {i \in DOMAIN items : items[i].row = r}
  OBVIOUS
<1>4. IsFiniteSet(T)
  BY <1>3, FS_Interval, FS_Subset
<1>5. \A i \in DOMAIN items : items[i] \in Item
  OBVIOUS
<1>6. \A i \in T : qty[i] \in Nat
  BY <1>2, <1>3, <1>5 DEF Item
<1>7. SumFunctionOnSet(qty, T) \in Nat
  BY <1>4, <1>6, SumType
<1> QED
  BY <1>1, <1>2, <1>3, <1>7 DEF UnitsOf

LEMMA UnitsOfOneItem ==
    ASSUME NEW f, f.items \in Seq(Item),
           \A i, j \in DOMAIN f.items : f.items[i].row = f.items[j].row => i = j,
           NEW r
    PROVE  \/ UnitsOf(f, r) = 0
           \/ \E i \in DOMAIN f.items : f.items[i].row = r /\ UnitsOf(f, r) = f.items[i].qty
<1>1. PICK items \in Seq(Item) : items = f.items
  OBVIOUS
<1>2. PICK qty : qty = [i \in DOMAIN items |-> items[i].qty]
  OBVIOUS
<1>3. PICK T : T = {i \in DOMAIN items : items[i].row = r}
  OBVIOUS
<1>4. UnitsOf(f, r) = SumFunctionOnSet(qty, T)
  BY <1>1, <1>2, <1>3 DEF UnitsOf
<1>5. CASE T = {}
  BY <1>4, <1>5, SumOfNone
<1>6. CASE T # {}
  <2>1. PICK i \in T : TRUE
    BY <1>6
  <2>2. \A j \in T \ {i} : qty[j] = 0
    BY <1>1, <1>3, <2>1
  <2>3. items[i] \in Item
    BY <1>3, <2>1
  <2>4. qty[i] \in Int
    BY <1>2, <1>3, <2>1, <2>3 DEF Item
  <2>5. IsFiniteSet(T)
    BY <1>3, FS_Interval, FS_Subset
  <2>6. SumFunctionOnSet(qty, T) = qty[i]
    BY <2>1, <2>2, <2>4, <2>5, SumOfOne
  <2> QED
    BY <1>1, <1>2, <1>3, <1>4, <2>1, <2>6
<1> QED
  BY <1>5, <1>6

LEMMA NoUnits == \A r : UnitsOf(NoFulfillment, r) = 0
<1> SUFFICES ASSUME NEW r PROVE UnitsOf(NoFulfillment, r) = 0
  OBVIOUS
<1>1. NoFulfillment.items = << >> /\ DOMAIN << >> = {}
  BY DEF NoFulfillment
<1>2. PICK qty : qty = [i \in DOMAIN NoFulfillment.items |-> NoFulfillment.items[i].qty]
  OBVIOUS
<1>3. {i \in DOMAIN NoFulfillment.items : NoFulfillment.items[i].row = r} = {}
  BY <1>1
<1> QED
  BY <1>2, <1>3, SumOfNone DEF UnitsOf

-----------------------------------------------------------------------------
(* What an instance has to supply suffices at the start.                   *)

LEMMA NoFulfillmentTyped == TypedRow(NoFulfillment)
BY NoFulfillmentRow DEF TypedRow, NoFulfillment, FulfillmentStatuses

LEMMA IdleTyped ==
    ASSUME FulfillmentConstants
    PROVE  TypedTx(Idle) /\ Idle.pc = "idle"
<1>1. (CHOOSE o \in Orders : TRUE) \in Orders
  BY DEF FulfillmentConstants
<1> QED
  BY <1>1, IdleTx, NoFulfillmentTyped DEF TypedTx, Idle

LEMMA StartsTyped ==
    ASSUME FulfillmentConstants, Init PROVE StockInv
<1>1. /\ stock = FirstStock
      /\ order = [o \in Orders |-> [status |-> "CONFIRMED", version |-> 1]]
      /\ fulfillment = [o \in Orders |-> NoFulfillment]
      /\ tx = [t \in Requests |-> Idle]
  BY DEF Init
<1>2. ASSUME NEW r \in Rows PROVE IsStock(stock[r])
  <2>1. stock[r] \in StockRow /\ stock[r].reserved = 0
    BY <1>1 DEF FulfillmentConstants
  <2> QED
    BY <2>1 DEF StockRow, IsStock, StockFields
<1>3. stock = [r \in Rows |-> stock[r]]
  BY <1>1 DEF FulfillmentConstants
<1>4. \A o \in Orders : IsOrder(order[o])
  BY <1>1 DEF IsOrder, OrderStatuses
<1>5. \A t \in Requests : TypedTx(tx[t]) /\ tx[t].pc = "idle"
  BY <1>1, IdleTyped
<1>6. TypeInv
  BY <1>1, <1>2, <1>3, <1>4, <1>5, NoFulfillmentTyped DEF TypeInv
<1> QED
  BY <1>5, <1>6 DEF StockInv, WritesOK, OneHolder, Holds

-----------------------------------------------------------------------------
(* A request takes its next state, and holds no row that another holds.    *)

LEMMA OneRequestWrites ==
    ASSUME StockInv, NEW t \in Requests, NEW q, TypedTx(q),
           tx' = [tx EXCEPT ![t] = q], UNCHANGED db,
           WritesOK(t)',
           \A r \in Rows : Holds(t, r)' =>
              Holds(t, r) \/ \A u \in Requests : ~Holds(u, r)
    PROVE  StockInv'
<1>1. /\ tx'[t] = q /\ \A u \in Requests \ {t} : tx'[u] = tx[u]
      /\ tx' = [u \in Requests |-> tx'[u]]
  BY DEF StockInv, TypeInv
<1>2. stock' = stock /\ order' = order /\ fulfillment' = fulfillment
  BY DEF db
<1>3. TypeInv'
  BY <1>1, <1>2 DEF StockInv, TypeInv
<1>4. ASSUME NEW u \in Requests \ {t} PROVE WritesOK(u)'
  <2>1. WritesOK(u) /\ tx'[u] = tx[u]
    BY <1>1 DEF StockInv
  <2> QED
    BY <1>2, <2>1 DEF WritesOK, Written, Fits, Free
<1>5. \A u \in Requests \ {t}, r \in Rows : Holds(u, r)' = Holds(u, r)
  BY <1>1 DEF Holds, Written
<1>6. OneHolder'
  <2> SUFFICES ASSUME NEW u \in Requests, NEW v \in Requests, NEW r \in Rows,
                      Holds(u, r)', Holds(v, r)', u # v
               PROVE  FALSE
    BY DEF OneHolder
  <2>1. \A w \in Requests : Holds(w, r)' =>
           Holds(w, r) \/ (w = t /\ \A x \in Requests : ~Holds(x, r))
    BY <1>5
  <2> QED
    BY <1>5, <2>1 DEF StockInv, OneHolder
<1> QED
  BY <1>3, <1>4, <1>6 DEF StockInv

LEMMA FreshRequest ==
    ASSUME StockInv, NEW t \in Requests, NEW q, TypedTx(q),
           q.next = 1, q.pc \in {"idle", "create", "peek"},
           q.op = "allocate" =>
              q.pc = "idle" \/ q.fulfillment.status \notin {"NONE", "SHIPPED"},
           tx' = [tx EXCEPT ![t] = q], UNCHANGED db
    PROVE  StockInv'
<1>1. tx'[t] = q
  BY DEF StockInv, TypeInv
<1>2. PICK n \in Nat : n = Len(q.fulfillment.items) /\ DOMAIN q.fulfillment.items = 1 .. n
  BY DEF TypedTx, TypedRow
<1>3. Written(t)' = {}
  BY <1>1, <1>2 DEF Written
<1>4. WritesOK(t)' /\ \A r \in Rows : ~Holds(t, r)'
  BY <1>1, <1>3 DEF WritesOK, Holds
<1> QED
  BY <1>4, OneRequestWrites

LEMMA ClosingWrites ==
    ASSUME FulfillmentConstants, StockInv, NEW t \in Requests, Close(t), UNCHANGED db
    PROVE  StockInv'
<1>1. tx' = [tx EXCEPT ![t] = Idle]
  BY DEF Close
<1>2. TypedTx(Idle) /\ Idle.pc = "idle" /\ Idle.next = 1 /\ Idle.op = "allocate"
  BY IdleTyped DEF Idle
<1> QED
  BY <1>1, <1>2, FreshRequest

-----------------------------------------------------------------------------
(* A plan has the right shape, whichever splits were decided.              *)

LEMMA ItemIsItem == Item = ItemOf(Warehouses, Products)
BY DEF Item, ItemOf, Rows

LEMMA LinesTyped ==
    ASSUME FulfillmentConstants, NEW o \in Orders
    PROVE  OrderLines[o] \in Seq(OrderLine(Products))
BY DEF FulfillmentConstants, OrderLine

LEMMA PlanTyped ==
    ASSUME FulfillmentConstants, NEW o \in Orders, NEW decided, NEW short,
           \A p \in ProductsOf(OrderLines[o]) :
              decided[p] \in Seq(Splitting(Warehouses)) /\ short[p] \in Int
    PROVE  /\ TypedRow(PlannedRow(o, decided, short))
           /\ PlannedRow(o, decided, short).status \notin {"NONE", "SHIPPED"}
<1>1. PICK lines \in Seq(OrderLine(Products)) : lines = OrderLines[o]
  BY LinesTyped
<1>2. PICK items : items = AllItems(lines, decided)
  OBVIOUS
<1>3. items \in Seq(Item)
  BY <1>1, <1>2, AllItemsType, ItemIsItem
<1>4. PICK open : open = Backorders(lines, decided, short)
  OBVIOUS
<1>5. open \in Seq(Nat)
  BY <1>1, <1>4, BackordersType
<1>6. PICK status : status = StatusOf(items, SumFunction(short))
  OBVIOUS
<1>7. status \in {"ALLOCATED", "BACKORDERED", "PARTIALLY_ALLOCATED"}
  BY <1>6 DEF StatusOf
<1>8. PICK f : f = PlannedRow(o, decided, short)
  OBVIOUS
<1>9. f = [status |-> status, version |-> 1, items |-> items, backorders |-> open]
  BY <1>1, <1>2, <1>4, <1>6, <1>8 DEF PlannedRow
<1>10. TypedRow(f) /\ f.status = status
  BY <1>3, <1>5, <1>7, <1>9 DEF TypedRow, IsRow, RowFields, FulfillmentStatuses
<1> QED
  BY <1>7, <1>8, <1>10

LEMMA SuggestionTyped ==
    ASSUME FulfillmentConstants, TypeInv, NEW o \in Orders, NEW decided \in Suggestions(o),
           NEW p \in ProductsOf(OrderLines[o])
    PROVE  /\ p \in DOMAIN decided
           /\ decided[p] \in Seq(Splitting(Warehouses))
           /\ Shortfall(Ordered(OrderLines[o], p), decided[p]) \in Int
<1>1. PICK lines \in Seq(OrderLine(Products)) : lines = OrderLines[o]
  BY LinesTyped
<1>2. p \in Products
  <2>1. PICK i \in DOMAIN lines : p = lines[i].product
    BY <1>1 DEF ProductsOf
  <2>2. lines[i] \in OrderLine(Products)
    OBVIOUS
  <2> QED
    BY <2>1, <2>2 DEF OrderLine
<1>3. PICK free : free = FreeByWarehouse(p)
  OBVIOUS
<1>4. free \in [Warehouses -> Int]
  <2>1. ASSUME NEW w \in Warehouses PROVE Free(<<w, p>>) \in Int
    <3>1. <<w, p>> \in Rows
      BY <1>2 DEF Rows
    <3>2. IsStock(stock[<<w, p>>])
      BY <3>1 DEF TypeInv
    <3> QED
      BY <3>2 DEF IsStock, Free
  <2> QED
    BY <1>3, <2>1 DEF FreeByWarehouse
<1>5. Len(lines) \in 0 .. Len(lines)
  OBVIOUS
<1>6. PICK want \in Int : want = Ordered(lines, p)
  BY <1>5, QtyOfType DEF Ordered
<1>7. PICK splits : splits = decided[p]
  OBVIOUS
<1>8. p \in DOMAIN decided /\ splits \in Splits(want, free)
  BY <1>1, <1>3, <1>6, <1>7 DEF Suggestions
<1>9. IsFiniteSet(Warehouses)
  BY DEF FulfillmentConstants
<1>10. splits \in Seq(Splitting(Warehouses))
  BY <1>4, <1>8, <1>9, SplitsType
<1>11. PICK n \in Nat : n = Total(splits)
  BY <1>10, TotalType
<1>12. Shortfall(want, splits) \in Int
  BY <1>11 DEF Shortfall
<1> QED
  BY <1>1, <1>6, <1>7, <1>8, <1>10, <1>12

LEMMA PlanningWrites ==
    ASSUME FulfillmentConstants, StockInv, NEW t \in Requests, NEW o \in Orders,
           NEW decided, NEW short, BeginAllocation(t, o, decided, short),
           \A p \in ProductsOf(OrderLines[o]) :
              decided[p] \in Seq(Splitting(Warehouses)) /\ short[p] \in Int
    PROVE  StockInv'
<1>1. PICK f : f = PlannedRow(o, decided, short)
  OBVIOUS
<1>2. TypedRow(f) /\ f.status \notin {"NONE", "SHIPPED"}
  BY <1>1, PlanTyped
<1>3. PICK q : q = [pc |-> "create", op |-> "allocate", order |-> o, seen |-> order[o].version,
                    fulfillment |-> f, next |-> 1, peeked |-> 0]
  OBVIOUS
<1>4. tx' = [tx EXCEPT ![t] = q] /\ UNCHANGED db
  BY <1>1, <1>3 DEF BeginAllocation
<1>5. order[o].version \in Nat
  BY DEF StockInv, TypeInv, IsOrder
<1>6. TypedTx(q) /\ q.next = 1 /\ q.pc = "create" /\ q.fulfillment = f
  BY <1>2, <1>3, <1>5 DEF TypedTx, IsTx, TxFields
<1> QED
  BY <1>2, <1>4, <1>6, FreshRequest

LEMMA SuggestedWrites ==
    ASSUME FulfillmentConstants, StockInv, NEW t \in Requests, NEW o \in Orders,
           AcceptSuggestedSplit(t, o)
    PROVE  StockInv'
<1>1. PICK decided \in Suggestions(o) :
         BeginAllocation(t, o, decided,
            [p \in DOMAIN decided |-> Shortfall(Ordered(OrderLines[o], p), decided[p])])
  BY DEF AcceptSuggestedSplit
<1>2. PICK short :
         short = [p \in DOMAIN decided |-> Shortfall(Ordered(OrderLines[o], p), decided[p])]
  OBVIOUS
<1>3. \A p \in ProductsOf(OrderLines[o]) :
         /\ p \in DOMAIN decided
         /\ decided[p] \in Seq(Splitting(Warehouses))
         /\ Shortfall(Ordered(OrderLines[o], p), decided[p]) \in Int
  BY SuggestionTyped DEF StockInv
<1>4. \A p \in ProductsOf(OrderLines[o]) :
         decided[p] \in Seq(Splitting(Warehouses)) /\ short[p] \in Int
  BY <1>2, <1>3
<1> QED
  BY <1>1, <1>2, <1>4, PlanningWrites

LEMMA OverrideWrites ==
    ASSUME FulfillmentConstants, StockInv, NEW t \in Requests, NEW o \in Orders,
           OverrideSplit(t, o)
    PROVE  StockInv'
<1>1. PICK splits \in Overrides :
         BeginAllocation(t, o, [q \in ProductsOf(OrderLines[o]) |-> splits],
                               [q \in ProductsOf(OrderLines[o]) |-> 0])
  BY DEF OverrideSplit
<1>2. PICK decided, short : /\ decided = [q \in ProductsOf(OrderLines[o]) |-> splits]
                            /\ short = [q \in ProductsOf(OrderLines[o]) |-> 0]
  OBVIOUS
<1>3. splits \in Seq(Splitting(Warehouses))
  BY DEF FulfillmentConstants, Splitting
<1>4. \A p \in ProductsOf(OrderLines[o]) :
         decided[p] \in Seq(Splitting(Warehouses)) /\ short[p] \in Int
  BY <1>2, <1>3
<1> QED
  BY <1>1, <1>2, <1>4, PlanningWrites

LEMMA ShippingWrites ==
    ASSUME StockInv, NEW t \in Requests, NEW o \in Orders, MarkShipped(t, o)
    PROVE  StockInv'
<1>1. PICK q : q = [pc |-> "peek", op |-> "ship", order |-> o, seen |-> order[o].version,
                    fulfillment |-> fulfillment[o], next |-> 1, peeked |-> 0]
  OBVIOUS
<1>2. tx' = [tx EXCEPT ![t] = q] /\ UNCHANGED db
  BY <1>1 DEF MarkShipped
<1>3. TypedRow(fulfillment[o]) /\ order[o].version \in Nat
  BY DEF StockInv, TypeInv, IsOrder
<1>4. TypedTx(q) /\ q.next = 1 /\ q.pc = "peek" /\ q.op = "ship"
  BY <1>1, <1>3 DEF TypedTx, IsTx, TxFields
<1> QED
  BY <1>2, <1>4, FreshRequest

LEMMA CreatingWrites ==
    ASSUME StockInv, NEW t \in Requests, CreateFulfillment(t) PROVE StockInv'
<1>1. PICK q : q = [tx[t] EXCEPT !.pc = "peek"]
  OBVIOUS
<1>2. TypedTx(tx[t]) /\ WritesOK(t) /\ tx[t].pc = "create"
  BY DEF StockInv, TypeInv, CreateFulfillment
<1>3. /\ IsTx(q) /\ q.pc = "peek" /\ q.op = tx[t].op /\ q.order = tx[t].order
      /\ q.seen = tx[t].seen /\ q.peeked = tx[t].peeked
      /\ q.fulfillment = tx[t].fulfillment /\ q.next = tx[t].next
  BY <1>1, <1>2 DEF TypedTx, IsTx, TxFields
<1>4. TypedTx(q)
  BY <1>2, <1>3 DEF TypedTx
<1>5. tx' = [tx EXCEPT ![t] = q] /\ UNCHANGED db
  BY <1>1 DEF CreateFulfillment
<1>6. q.next = 1 /\ (q.op = "allocate" => q.fulfillment.status \notin {"NONE", "SHIPPED"})
  BY <1>2, <1>3 DEF WritesOK
<1> QED
  BY <1>3, <1>4, <1>5, <1>6, FreshRequest

-----------------------------------------------------------------------------
(* Reading the next stock row, and writing it.                             *)

LEMMA NextItemTyped ==
    ASSUME TypeInv, NEW t \in Requests, ItemsLeft(t), tx[t].next >= 1
    PROVE  /\ tx[t].next \in DOMAIN tx[t].fulfillment.items
           /\ NextItem(t) \in Item /\ NextItem(t).row \in Rows
<1>1. PICK n \in Nat : n = tx[t].next
  BY DEF TypeInv, TypedTx
<1>2. PICK items \in Seq(Item) : items = tx[t].fulfillment.items
  BY DEF TypeInv, TypedTx, TypedRow
<1>3. n \in 1 .. Len(items)
  BY <1>1, <1>2 DEF ItemsLeft
<1>4. items[n] \in Item
  BY <1>3
<1> QED
  BY <1>1, <1>2, <1>3, <1>4 DEF NextItem, Item

LEMMA PeekWrites ==
    ASSUME StockInv, NEW t \in Requests, Peek(t) PROVE StockInv'
<1>1. TypedTx(tx[t]) /\ WritesOK(t) /\ tx[t].pc = "peek" /\ ItemsLeft(t)
  BY DEF StockInv, TypeInv, Peek
<1>2. PICK v : v = stock[NextItem(t).row].version
  OBVIOUS
<1>3. v \in Nat
  <2>1. tx[t].next >= 1
    BY <1>1 DEF WritesOK
  <2>2. NextItem(t).row \in Rows
    BY <1>1, <2>1, NextItemTyped DEF StockInv
  <2> QED
    BY <1>2, <2>2 DEF StockInv, TypeInv, IsStock
<1>4. PICK q : q = [tx[t] EXCEPT !.pc = "write", !.peeked = v]
  OBVIOUS
<1>5. /\ IsTx(q) /\ q.pc = "write" /\ q.op = tx[t].op /\ q.order = tx[t].order
      /\ q.seen = tx[t].seen /\ q.peeked = v
      /\ q.fulfillment = tx[t].fulfillment /\ q.next = tx[t].next
  BY <1>1, <1>4 DEF TypedTx, IsTx, TxFields
<1>6. TypedTx(q)
  BY <1>1, <1>3, <1>5 DEF TypedTx
<1>7. tx' = [tx EXCEPT ![t] = q] /\ UNCHANGED db
  BY <1>2, <1>4 DEF Peek
<1>8. tx'[t] = q /\ stock' = stock
  BY <1>7 DEF StockInv, TypeInv, db
<1>9. WritesOK(t)' /\ \A r \in Rows : Holds(t, r)' = Holds(t, r)
  BY <1>1, <1>5, <1>8 DEF WritesOK, Written, Fits, Free, Holds, ItemsLeft
<1> QED
  BY <1>6, <1>7, <1>9, OneRequestWrites

LEMMA WriteWrites ==
    ASSUME StockInv, NEW t \in Requests, WriteStock(t) PROVE StockInv'
<1>1. /\ TypedTx(tx[t]) /\ WritesOK(t) /\ tx[t].pc = "write"
      /\ tx[t].next >= 1 /\ ItemsLeft(t)
  BY DEF StockInv, TypeInv, WriteStock, WritesOK, ItemsLeft
<1>2. PICK n \in Nat : n = tx[t].next
  BY <1>1 DEF TypedTx
<1>3. PICK q : q = [tx[t] EXCEPT !.pc = "peek", !.next = n + 1]
  OBVIOUS
<1>4. /\ IsTx(q) /\ q.pc = "peek" /\ q.op = tx[t].op /\ q.order = tx[t].order
      /\ q.seen = tx[t].seen /\ q.peeked = tx[t].peeked
      /\ q.fulfillment = tx[t].fulfillment /\ q.next = n + 1
  BY <1>1, <1>3 DEF TypedTx, IsTx, TxFields
<1>5. TypedTx(q)
  BY <1>1, <1>4 DEF TypedTx
<1>6. tx' = [tx EXCEPT ![t] = q] /\ UNCHANGED db
  BY <1>2, <1>3 DEF WriteStock
<1>7. tx'[t] = q /\ stock' = stock
  BY <1>6 DEF StockInv, TypeInv, db
<1>8. PICK items \in Seq(Item) : items = tx[t].fulfillment.items
  BY <1>1 DEF TypedTx, TypedRow
<1>9. Written(t)' = Written(t) \union {n} /\ n \in DOMAIN items /\ n \notin Written(t)
  <2>1. n \in DOMAIN items
    BY <1>1, <1>2, <1>8, NextItemTyped DEF StockInv
  <2>2. DOMAIN items \subseteq Nat
    BY <1>8
  <2>3. Written(t) = {i \in DOMAIN items : i < n}
    BY <1>2, <1>8 DEF Written
  <2>4. Written(t)' = {i \in DOMAIN items : i < n + 1}
    BY <1>4, <1>7, <1>8 DEF Written
  <2>5. \A i \in Nat : i < n + 1 <=> i < n \/ i = n
    BY <1>2
  <2>6. \A i : i \in Written(t)' <=> i \in Written(t) \union {n}
    BY <2>1, <2>2, <2>3, <2>4, <2>5
  <2>7. n \notin Written(t)
    BY <1>2, <2>3
  <2> QED
    BY <2>1, <2>6, <2>7
<1>10. items[n] = NextItem(t) /\ Fits(q, items[n])'
  BY <1>2, <1>4, <1>7, <1>8 DEF NextItem, WriteStock, RowFits, Fits, Free
<1>11. /\ ~Holds(t, items[n].row)
       /\ \A u \in Requests : ~Holds(u, items[n].row)
  BY <1>10 DEF WriteStock, Unlocked
<1>12. \A i \in Written(t) : items[i].row # items[n].row
  BY <1>1, <1>8, <1>11 DEF Holds
<1>13. \A i \in Written(t) : Fits(q, items[i])'
  BY <1>1, <1>4, <1>7, <1>8 DEF WritesOK, Fits, Free
<1>14. \A i, j \in Written(t)' : items[i].row = items[j].row => i = j
  BY <1>1, <1>8, <1>9, <1>12 DEF WritesOK
<1>15. WritesOK(t)'
  <2>1. /\ q.next >= 1 /\ q.pc = "peek" /\ q.fulfillment.items = items
        /\ q.op = "allocate" => q.fulfillment.status \notin {"NONE", "SHIPPED"}
    BY <1>1, <1>4, <1>8 DEF WritesOK
  <2>2. \A i \in Written(t)' : Fits(q, items[i])'
    BY <1>9, <1>10, <1>13
  <2> QED
    BY <1>7, <1>14, <2>1, <2>2 DEF WritesOK
<1>16. ASSUME NEW r \in Rows, Holds(t, r)'
       PROVE  Holds(t, r) \/ \A u \in Requests : ~Holds(u, r)
  <2>1. PICK i \in Written(t)' : items[i].row = r
    BY <1>4, <1>7, <1>8, <1>16 DEF Holds
  <2>2. CASE i = n
    BY <1>11, <2>1, <2>2
  <2>3. CASE i \in Written(t)
    BY <1>1, <1>8, <2>1, <2>3 DEF Holds
  <2> QED
    BY <1>9, <2>2, <2>3
<1> QED
  BY <1>5, <1>6, <1>15, <1>16, OneRequestWrites

-----------------------------------------------------------------------------
(* Steps that change the stock: only rows that no other request holds.     *)

LEMMA StockMoves ==
    ASSUME FulfillmentConstants, StockInv,
           stock' = [r \in Rows |-> stock'[r]], \A r \in Rows : IsStock(stock[r])',
           order' = [o \in Orders |-> order'[o]], \A o \in Orders : IsOrder(order[o])',
           fulfillment' = [o \in Orders |-> fulfillment'[o]],
           \A o \in Orders : TypedRow(fulfillment[o])',
           tx' = [u \in Requests |-> tx'[u]],
           \A u \in Requests : tx'[u] = tx[u] \/ tx'[u] = Idle,
           \A r \in Rows : \/ stock'[r] = stock[r]
                           \/ \A u \in Requests : tx'[u] # Idle => ~Holds(u, r)
    PROVE  StockInv'
<1>1. TypedTx(Idle) /\ Idle.pc = "idle"
  BY IdleTyped
<1>2. \A u \in Requests : TypedTx(tx[u])'
  BY <1>1 DEF StockInv, TypeInv
<1>3. TypeInv'
  BY <1>2 DEF TypeInv
<1>4. ASSUME NEW u \in Requests PROVE WritesOK(u)'
  <2>1. SUFFICES ASSUME tx'[u] = tx[u], tx[u] # Idle, tx[u].pc # "idle" PROVE WritesOK(u)'
    BY <1>1 DEF WritesOK
  <2>2. WritesOK(u) /\ TypedTx(tx[u])
    BY DEF StockInv, TypeInv
  <2>3. PICK items \in Seq(Item) : items = tx[u].fulfillment.items
    BY <2>2 DEF TypedTx, TypedRow
  <2>4. Written(u)' = Written(u) /\ Written(u) \subseteq DOMAIN items
    BY <2>1, <2>3 DEF Written
  <2>5. ASSUME NEW i \in Written(u) PROVE Fits(tx[u], items[i])'
    <3>1. items[i] \in Item
      BY <2>4
    <3>2. PICK r \in Rows : r = items[i].row
      BY <3>1 DEF Item
    <3>3. Holds(u, r)
      BY <2>1, <2>3, <2>5, <3>2 DEF Holds
    <3>4. stock'[r] = stock[r]
      BY <2>1, <3>3
    <3>5. Fits(tx[u], items[i])
      BY <2>1, <2>2, <2>3, <2>5 DEF WritesOK
    <3> QED
      BY <2>1, <3>2, <3>4, <3>5 DEF Fits, Free
  <2> QED
    BY <2>1, <2>2, <2>3, <2>4, <2>5 DEF WritesOK
<1>5. OneHolder'
  <2>1. \A u \in Requests, r \in Rows : Holds(u, r)' => Holds(u, r)
    BY <1>1 DEF Holds, Written
  <2> QED
    BY <2>1 DEF StockInv, OneHolder
<1> QED
  BY <1>3, <1>4, <1>5 DEF StockInv

(* What a request that has written all its items may do to a row.          *)
LEMMA AllWritten ==
    ASSUME StockInv, NEW t \in Requests, tx[t].pc = "peek", ~ItemsLeft(t), NEW r \in Rows
    PROVE  LET n == UnitsOf(tx[t].fulfillment, r)
           IN  /\ n \in Nat
               /\ n # 0 => Holds(t, r)
               /\ tx[t].op = "allocate" => n <= stock[r].available - stock[r].reserved
               /\ tx[t].op # "allocate" => n <= stock[r].reserved
<1>1. TypedTx(tx[t]) /\ WritesOK(t) /\ IsStock(stock[r])
  BY DEF StockInv, TypeInv
<1>2. PICK f : f = tx[t].fulfillment
  OBVIOUS
<1>3. f.items \in Seq(Item) /\ tx[t].next \in Nat
  BY <1>1, <1>2 DEF TypedTx, TypedRow
<1>4. PICK items \in Seq(Item) : items = f.items
  BY <1>3
<1>5. Written(t) = DOMAIN items
  BY <1>2, <1>3, <1>4 DEF Written, ItemsLeft
<1>6. /\ \A i \in DOMAIN items : Fits(tx[t], items[i])
      /\ \A i, j \in DOMAIN items : items[i].row = items[j].row => i = j
  BY <1>1, <1>2, <1>4, <1>5 DEF WritesOK
<1>7. PICK n \in Nat : n = UnitsOf(f, r)
  BY <1>3, UnitsType
<1>8. \/ n = 0
      \/ \E i \in DOMAIN items : items[i].row = r /\ n = items[i].qty
  BY <1>3, <1>4, <1>6, <1>7, UnitsOfOneItem
<1>9. /\ tx[t].op = "allocate" => n <= stock[r].available - stock[r].reserved
      /\ tx[t].op # "allocate" => n <= stock[r].reserved
  BY <1>1, <1>6, <1>8 DEF Fits, Free, IsStock
<1>10. n # 0 => Holds(t, r)
  BY <1>2, <1>4, <1>5, <1>8 DEF Holds
<1> QED
  BY <1>2, <1>7, <1>9, <1>10

(* The figures of a row after the units n were reserved, or delivered.     *)
LEMMA RowReserved ==
    ASSUME NEW s, IsStock(s), NEW n \in Nat, n <= s.available - s.reserved,
           NEW z, z = IF n = 0 THEN s ELSE [s EXCEPT !.reserved = @ + n, !.version = @ + 1]
    PROVE  IsStock(z) /\ z.available = s.available /\ z.reserved = s.reserved + n
<1>1. CASE n = 0
  BY <1>1 DEF IsStock
<1>2. CASE n # 0
  <2>1. /\ z = [k \in StockFields |-> z[k]] /\ z.exists = s.exists
        /\ z.available = s.available /\ z.reserved = s.reserved + n
        /\ z.version = s.version + 1
    BY <1>2 DEF IsStock, StockFields
  <2>2. /\ s.available \in Nat /\ s.reserved \in Nat /\ s.version \in Nat
        /\ s.reserved <= s.available
    BY DEF IsStock
  <2>3. /\ z.available \in Nat /\ z.reserved \in Nat /\ z.version \in Nat
        /\ z.reserved <= z.available
    BY <2>1, <2>2
  <2>4. z.exists \in BOOLEAN
    BY <2>1 DEF IsStock
  <2> QED
    BY <2>1, <2>3, <2>4 DEF IsStock
<1> QED
  BY <1>1, <1>2

LEMMA RowDelivered ==
    ASSUME NEW s, IsStock(s), NEW n \in Nat, n <= s.reserved,
           NEW z, z = IF n = 0 THEN s
                      ELSE [s EXCEPT !.available = @ - n, !.reserved = @ - n, !.version = @ + 1]
    PROVE  IsStock(z) /\ z.available = s.available - n /\ z.reserved = s.reserved - n
<1>1. CASE n = 0
  BY <1>1 DEF IsStock
<1>2. CASE n # 0
  <2>1. /\ z = [k \in StockFields |-> z[k]] /\ z.exists = s.exists
        /\ z.available = s.available - n /\ z.reserved = s.reserved - n
        /\ z.version = s.version + 1
    BY <1>2 DEF IsStock, StockFields
  <2>2. /\ s.available \in Nat /\ s.reserved \in Nat /\ s.version \in Nat
        /\ s.reserved <= s.available
    BY DEF IsStock
  <2>3. /\ z.available \in Nat /\ z.reserved \in Nat /\ z.version \in Nat
        /\ z.reserved <= z.available
    BY <2>1, <2>2
  <2>4. z.exists \in BOOLEAN
    BY <2>1 DEF IsStock
  <2> QED
    BY <2>1, <2>3, <2>4 DEF IsStock
<1> QED
  BY <1>1, <1>2

LEMMA OrderAdvanced ==
    ASSUME TypeInv, NEW o \in Orders, NEW status \in OrderStatuses, NEW v, v = order[o].version,
           order' = [order EXCEPT ![o] = [status |-> status, version |-> v + 1]]
    PROVE  /\ order' = [p \in Orders |-> order'[p]]
           /\ \A p \in Orders : IsOrder(order[p])'
<1>1. v \in Nat
  BY DEF TypeInv, IsOrder
<1>2. /\ order'[o] = [status |-> status, version |-> v + 1]
      /\ \A p \in Orders \ {o} : order'[p] = order[p]
      /\ order' = [p \in Orders |-> order'[p]]
  BY DEF TypeInv
<1>3. IsOrder(order[o])'
  BY <1>1, <1>2 DEF IsOrder
<1>4. \A p \in Orders \ {o} : IsOrder(order[p])'
  BY <1>2 DEF TypeInv, IsOrder
<1> QED
  BY <1>2, <1>3, <1>4

LEMMA ReservedEverywhere ==
    ASSUME FulfillmentConstants, StockInv, NEW t \in Requests, CommitAllocation(t)
    PROVE  /\ StockInv'
           /\ \A r \in Rows :
                LET n == UnitsOf(tx[t].fulfillment, r)
                IN  /\ n \in Nat /\ n <= stock[r].available - stock[r].reserved
                    /\ stock'[r].available = stock[r].available
                    /\ stock'[r].reserved = stock[r].reserved + n
<1>1. PICK f : f = tx[t].fulfillment
  OBVIOUS
<1>2. PICK o : o = tx[t].order
  OBVIOUS
<1>3. /\ tx[t].pc = "peek" /\ tx[t].op = "allocate" /\ ~ItemsLeft(t)
      /\ Close(t) /\ stock' = Reserve(f)
      /\ fulfillment' = [fulfillment EXCEPT ![o] = f]
      /\ order' = [order EXCEPT ![o] = [status |-> "FULFILLMENT", version |-> order[o].version + 1]]
  BY <1>1, <1>2 DEF CommitAllocation, AdvanceOrder
<1>4. o \in Orders /\ TypedRow(f) /\ TypeInv
  BY <1>1, <1>2 DEF StockInv, TypeInv, TypedTx
<1>5. ASSUME NEW r \in Rows
      PROVE  /\ IsStock(stock[r])'
             /\ UnitsOf(f, r) \in Nat /\ UnitsOf(f, r) <= stock[r].available - stock[r].reserved
             /\ stock'[r].available = stock[r].available
             /\ stock'[r].reserved = stock[r].reserved + UnitsOf(f, r)
             /\ stock'[r] = stock[r] \/ Holds(t, r)
  <2>1. PICK n : n = UnitsOf(f, r)
    OBVIOUS
  <2>2. /\ n \in Nat /\ n <= stock[r].available - stock[r].reserved
        /\ n # 0 => Holds(t, r)
    BY <1>1, <1>3, <2>1, AllWritten
  <2>3. stock'[r] = IF n = 0 THEN stock[r]
                    ELSE [stock[r] EXCEPT !.reserved = @ + n, !.version = @ + 1]
    BY <1>3, <2>1 DEF Reserve
  <2>4. PICK s, z : s = stock[r] /\ z = stock'[r]
    OBVIOUS
  <2>5. IsStock(s)
    BY <1>4, <2>4 DEF TypeInv
  <2>6. IsStock(z) /\ z.available = s.available /\ z.reserved = s.reserved + n
    <3>1. n \in Nat /\ n <= s.available - s.reserved
      BY <2>2, <2>4
    <3>2. z = IF n = 0 THEN s ELSE [s EXCEPT !.reserved = @ + n, !.version = @ + 1]
      BY <2>3, <2>4
    <3> QED
      BY <2>5, <3>1, <3>2, RowReserved
  <2>7. IsStock(stock[r])'
    BY <2>4, <2>6 DEF IsStock
  <2> QED
    BY <2>1, <2>2, <2>3, <2>4, <2>6, <2>7
<1>6. stock' = [r \in Rows |-> stock'[r]]
  BY <1>3 DEF Reserve
<1>7. /\ order' = [p \in Orders |-> order'[p]]
      /\ \A p \in Orders : IsOrder(order[p])'
  BY <1>3, <1>4, OrderAdvanced DEF OrderStatuses
<1>8. /\ fulfillment' = [p \in Orders |-> fulfillment'[p]]
      /\ \A p \in Orders : TypedRow(fulfillment[p])'
  <2>1. /\ fulfillment' = [p \in Orders |-> fulfillment'[p]] /\ fulfillment'[o] = f
        /\ \A p \in Orders \ {o} : fulfillment'[p] = fulfillment[p]
    BY <1>3, <1>4 DEF TypeInv
  <2> QED
    BY <1>4, <2>1 DEF TypeInv
<1>9. /\ tx' = [u \in Requests |-> tx'[u]] /\ tx'[t] = Idle
      /\ \A u \in Requests \ {t} : tx'[u] = tx[u]
  BY <1>3, <1>4 DEF Close, TypeInv
<1>10. \A r \in Rows : \/ stock'[r] = stock[r]
                       \/ \A u \in Requests : tx'[u] # Idle => ~Holds(u, r)
  BY <1>5, <1>9 DEF StockInv, OneHolder
<1>11. \A u \in Requests : tx'[u] = tx[u] \/ tx'[u] = Idle
  BY <1>9
<1>12. StockInv'
  BY <1>5, <1>6, <1>7, <1>8, <1>9, <1>10, <1>11, StockMoves
<1> QED
  BY <1>1, <1>5, <1>12

LEMMA DeliveredEverywhere ==
    ASSUME FulfillmentConstants, StockInv, FulfillmentInv,
           NEW t \in Requests, CommitShipment(t)
    PROVE  /\ StockInv'
           /\ \A r \in Rows :
                LET n == UnitsOf(tx[t].fulfillment, r)
                IN  /\ n \in Nat /\ n <= stock[r].reserved
                    /\ stock'[r].available = stock[r].available - n
                    /\ stock'[r].reserved = stock[r].reserved - n
<1>1. PICK f : f = tx[t].fulfillment
  OBVIOUS
<1>2. PICK o : o = tx[t].order
  OBVIOUS
<1>3. /\ tx[t].pc = "peek" /\ tx[t].op = "ship" /\ ~ItemsLeft(t)
      /\ Close(t) /\ stock' = Deliver(f)
      /\ fulfillment' = [fulfillment EXCEPT ![o].status = "SHIPPED", ![o].version = @ + 1]
      /\ order' = [order EXCEPT ![o] = [status |-> "BILLING", version |-> order[o].version + 1]]
  BY <1>1, <1>2 DEF CommitShipment, AdvanceOrder
<1>4. o \in Orders /\ TypedRow(f) /\ TypeInv
  BY <1>1, <1>2 DEF StockInv, TypeInv, TypedTx
<1>5. ASSUME NEW r \in Rows
      PROVE  /\ IsStock(stock[r])'
             /\ UnitsOf(f, r) \in Nat /\ UnitsOf(f, r) <= stock[r].reserved
             /\ stock'[r].available = stock[r].available - UnitsOf(f, r)
             /\ stock'[r].reserved = stock[r].reserved - UnitsOf(f, r)
             /\ stock'[r] = stock[r] \/ Holds(t, r)
  <2>1. PICK n : n = UnitsOf(f, r)
    OBVIOUS
  <2>2. /\ n \in Nat /\ n <= stock[r].reserved
        /\ n # 0 => Holds(t, r)
    BY <1>1, <1>3, <2>1, AllWritten
  <2>3. stock'[r] = IF n = 0 THEN stock[r]
                    ELSE [stock[r] EXCEPT !.available = @ - n, !.reserved = @ - n,
                                          !.version = @ + 1]
    BY <1>3, <2>1 DEF Deliver
  <2>4. PICK s, z : s = stock[r] /\ z = stock'[r]
    OBVIOUS
  <2>5. IsStock(s)
    BY <1>4, <2>4 DEF TypeInv
  <2>6. IsStock(z) /\ z.available = s.available - n /\ z.reserved = s.reserved - n
    BY <2>2, <2>3, <2>4, <2>5, RowDelivered
  <2>7. IsStock(stock[r])'
    BY <2>4, <2>6 DEF IsStock
  <2> QED
    BY <2>1, <2>2, <2>3, <2>4, <2>6, <2>7
<1>6. stock' = [r \in Rows |-> stock'[r]]
  BY <1>3 DEF Deliver
<1>7. /\ order' = [p \in Orders |-> order'[p]]
      /\ \A p \in Orders : IsOrder(order[p])'
  BY <1>3, <1>4, OrderAdvanced DEF OrderStatuses
<1>8. /\ fulfillment' = [p \in Orders |-> fulfillment'[p]]
      /\ \A p \in Orders : TypedRow(fulfillment[p])'
  <2>1. TypedRow(fulfillment[o])
    BY <1>4 DEF TypeInv
  <2>2. PICK z : z = [k \in RowFields |->
                       CASE k = "status" -> "SHIPPED"
                         [] k = "version" -> fulfillment[o].version + 1
                         [] OTHER -> fulfillment[o][k]]
    OBVIOUS
  <2>3. /\ IsRow(z) /\ z.status = "SHIPPED" /\ z.items = fulfillment[o].items
        /\ z.backorders = fulfillment[o].backorders
    BY <2>1, <2>2 DEF TypedRow, IsRow, RowFields
  <2>4. TypedRow(z)
    BY <2>1, <2>3 DEF TypedRow, FulfillmentStatuses
  <2>5. fulfillment' = [fulfillment EXCEPT ![o] = z]
    <3>1. fulfillment' = [fulfillment EXCEPT ![o] =
            [fulfillment[o] EXCEPT !.status = "SHIPPED", !.version = @ + 1]]
      BY <1>3
    <3>2. z = [fulfillment[o] EXCEPT !.status = "SHIPPED", !.version = @ + 1]
      BY <2>1, <2>2 DEF TypedRow, IsRow, RowFields
    <3> QED
      BY <3>1, <3>2
  <2>6. /\ fulfillment' = [p \in Orders |-> fulfillment'[p]] /\ fulfillment'[o] = z
        /\ \A p \in Orders \ {o} : fulfillment'[p] = fulfillment[p]
    BY <1>4, <2>5 DEF TypeInv
  <2> QED
    BY <1>4, <2>4, <2>6 DEF TypeInv
<1>9. /\ tx' = [u \in Requests |-> tx'[u]] /\ tx'[t] = Idle
      /\ \A u \in Requests \ {t} : tx'[u] = tx[u]
  BY <1>3, <1>4 DEF Close, TypeInv
<1>10. \A r \in Rows : \/ stock'[r] = stock[r]
                       \/ \A u \in Requests : tx'[u] # Idle => ~Holds(u, r)
  BY <1>5, <1>9 DEF StockInv, OneHolder
<1>11. \A u \in Requests : tx'[u] = tx[u] \/ tx'[u] = Idle
  BY <1>9
<1>12. StockInv'
  BY <1>5, <1>6, <1>7, <1>8, <1>9, <1>10, <1>11, StockMoves
<1> QED
  BY <1>1, <1>5, <1>12

(* The stock screens.                                                      *)
LEMMA SavingWrites ==
    ASSUME FulfillmentConstants, StockInv, NEW rows \in SUBSET Rows,
           NEW fields \in SUBSET Quantities, NEW figures \in StockForms,
           Save(rows, fields, figures)
    PROVE  StockInv'
<1> DEFINE new(r) == [f \in DOMAIN NoRow |->
                        IF f = "exists" THEN TRUE
                        ELSE IF f \in fields THEN figures[f] ELSE stock[r][f]]
<1>1. /\ \A r \in rows : Unlocked(r) /\ new(r).reserved <= new(r).available
      /\ stock' = [r \in Rows |-> IF r \in rows THEN new(r) ELSE stock[r]]
      /\ order' = order /\ fulfillment' = fulfillment /\ tx' = tx
  BY DEF Save
<1>2. figures \in [available : Nat, reserved : Nat] /\ TypeInv
  BY DEF FulfillmentConstants, StockInv
<1>3. ASSUME NEW r \in Rows PROVE IsStock(stock[r])'
  <2>1. PICK s, z : s = stock[r] /\ z = new(r)
    OBVIOUS
  <2>2. IsStock(s)
    BY <1>2, <2>1 DEF TypeInv
  <2>3. DOMAIN NoRow = StockFields
    BY DEF NoRow, StockFields
  <2>4. z = [f \in StockFields |->
               IF f = "exists" THEN TRUE ELSE IF f \in fields THEN figures[f] ELSE s[f]]
    BY <2>1, <2>3
  <2>5. /\ z = [k \in StockFields |-> z[k]] /\ z.exists = TRUE /\ z.version = s.version
        /\ z.available \in Nat /\ z.reserved \in Nat
    BY <1>2, <2>2, <2>4 DEF IsStock, StockFields, Quantities
  <2>6. CASE r \in rows
    <3>1. stock'[r] = z /\ z.reserved <= z.available
      BY <1>1, <2>1, <2>6
    <3> QED
      BY <2>2, <2>5, <3>1 DEF IsStock
  <2>7. CASE r \notin rows
    <3>1. stock'[r] = s
      BY <1>1, <2>1, <2>7
    <3> QED
      BY <2>2, <3>1 DEF IsStock
  <2> QED
    BY <2>6, <2>7
<1>4. stock' = [r \in Rows |-> stock'[r]]
  BY <1>1
<1>5. \A r \in Rows : \/ stock'[r] = stock[r]
                      \/ \A u \in Requests : tx'[u] # Idle => ~Holds(u, r)
  BY <1>1 DEF Unlocked
<1> QED
  BY <1>1, <1>2, <1>3, <1>4, <1>5, StockMoves DEF TypeInv

LEMMA DeletingWrites ==
    ASSUME FulfillmentConstants, StockInv, NEW r \in Rows, DeleteStock(r) PROVE StockInv'
<1>1. /\ stock' = [stock EXCEPT ![r] = [NoRow EXCEPT !.version = stock[r].version + 1]]
      /\ order' = order /\ fulfillment' = fulfillment /\ tx' = tx /\ Unlocked(r)
  BY DEF DeleteStock
<1>2. TypeInv
  BY DEF StockInv
<1>3. PICK z : z = [NoRow EXCEPT !.version = stock[r].version + 1]
  OBVIOUS
<1>4. IsStock(z)
  <2>1. stock[r].version \in Nat
    BY <1>2 DEF TypeInv, IsStock
  <2> QED
    BY <1>3, <2>1 DEF IsStock, NoRow, StockFields
<1>5. /\ stock' = [s \in Rows |-> stock'[s]] /\ stock'[r] = z
      /\ \A s \in Rows \ {r} : stock'[s] = stock[s]
  BY <1>1, <1>2, <1>3 DEF TypeInv
<1>6. \A s \in Rows : IsStock(stock[s])'
  BY <1>2, <1>4, <1>5 DEF TypeInv
<1>7. \A s \in Rows : \/ stock'[s] = stock[s]
                      \/ \A u \in Requests : tx'[u] # Idle => ~Holds(u, s)
  BY <1>1, <1>5 DEF Unlocked
<1> QED
  BY <1>1, <1>2, <1>5, <1>6, <1>7, StockMoves DEF TypeInv

LEMMA OrderMoves ==
    ASSUME FulfillmentConstants, StockInv, NEW o \in Orders, LateDecision(o) \/ ConfirmAgain(o)
    PROVE  StockInv'
<1>1. PICK status \in OrderStatuses :
         order' = [order EXCEPT ![o] = [status |-> status, version |-> order[o].version + 1]]
  BY DEF LateDecision, ConfirmAgain, OrderStatuses
<1>2. stock' = stock /\ fulfillment' = fulfillment /\ tx' = tx /\ TypeInv
  BY DEF LateDecision, ConfirmAgain, StockInv
<1>3. /\ order' = [p \in Orders |-> order'[p]]
      /\ \A p \in Orders : IsOrder(order[p])'
  BY <1>1, <1>2, OrderAdvanced
<1> QED
  BY <1>2, <1>3, StockMoves DEF TypeInv

LEMMA StockStays ==
    ASSUME FulfillmentConstants, FulfillmentInv, StockInv, [Next]_vars
    PROVE  StockInv'
<1>1. ASSUME NEW t \in Requests, NEW o \in Orders, AcceptSuggestedSplit(t, o)
      PROVE  StockInv'
  BY <1>1, SuggestedWrites
<1>2. ASSUME NEW t \in Requests, NEW o \in Orders, OverrideSplit(t, o)
      PROVE  StockInv'
  BY <1>2, OverrideWrites
<1>3. ASSUME NEW t \in Requests, NEW o \in Orders, MarkShipped(t, o)
      PROVE  StockInv'
  BY <1>3, ShippingWrites
<1>4. ASSUME NEW t \in Requests, CreateFulfillment(t) PROVE StockInv'
  BY <1>4, CreatingWrites
<1>5. ASSUME NEW t \in Requests, Peek(t) PROVE StockInv'
  BY <1>5, PeekWrites
<1>6. ASSUME NEW t \in Requests, WriteStock(t) PROVE StockInv'
  BY <1>6, WriteWrites
<1>7. ASSUME NEW t \in Requests, CommitAllocation(t) PROVE StockInv'
  BY <1>7, ReservedEverywhere
<1>8. ASSUME NEW t \in Requests, CommitShipment(t) PROVE StockInv'
  BY <1>8, DeliveredEverywhere
<1>9. ASSUME NEW t \in Requests, Abort(t) PROVE StockInv'
  BY <1>9, ClosingWrites DEF Abort
<1>10. ASSUME Admin PROVE StockInv'
  <2>1. PICK rows \in SUBSET Rows, fields \in SUBSET Quantities, figures \in StockForms :
           Save(rows, fields, figures)
    <3>1. PICK figures \in StockForms :
             \/ \E r \in Rows : CreateStock(r, figures)
             \/ \E r \in Rows, fields \in SUBSET Quantities : UpdateStock(r, fields, figures)
             \/ \E w \in Warehouses, ps \in SUBSET Products : ImportStock(w, ps, figures)
      BY <1>10 DEF Admin
    <3>2. \A r \in Rows : {r} \in SUBSET Rows
      OBVIOUS
    <3>3. \A w \in Warehouses, ps \in SUBSET Products : {w} \X ps \in SUBSET Rows
      BY DEF Rows
    <3> QED
      BY <3>1, <3>2, <3>3 DEF CreateStock, UpdateStock, ImportStock
  <2> QED
    BY <2>1, SavingWrites
<1>11. ASSUME NEW r \in Rows, DeleteStock(r) PROVE StockInv'
  BY <1>11, DeletingWrites
<1>12. ASSUME NEW o \in Orders, LateDecision(o) \/ ConfirmAgain(o) PROVE StockInv'
  BY <1>12, OrderMoves
<1>13. CASE UNCHANGED vars
  BY <1>13, StockMoves DEF vars, StockInv, TypeInv, IsStock, IsOrder, TypedRow, IsRow
<1> QED
  BY <1>1, <1>2, <1>3, <1>4, <1>5, <1>6, <1>7, <1>8, <1>9, <1>10, <1>11, <1>12, <1>13
  DEF Next, Staff

LEMMA TypesFollow == ASSUME StockInv PROVE TypeOK
<1>1. ASSUME NEW r \in Rows PROVE stock[r] \in StockRow
  <2>1. IsStock(stock[r])
    BY DEF StockInv, TypeInv
  <2> QED
    BY <2>1 DEF IsStock, StockRow, StockFields
<1>2. ASSUME NEW o \in Orders PROVE order[o] \in [status : OrderStatuses, version : Nat]
  BY DEF StockInv, TypeInv, IsOrder
<1>3. ASSUME NEW f, TypedRow(f) PROVE f \in FulfillmentRow
  BY <1>3 DEF TypedRow, IsRow, RowFields, FulfillmentRow
<1>4. ASSUME NEW t \in Requests PROVE tx[t] \in Tx
  <2>1. TypedTx(tx[t])
    BY DEF StockInv, TypeInv
  <2>2. tx[t].fulfillment \in FulfillmentRow
    BY <1>3, <2>1 DEF TypedTx
  <2> QED
    BY <2>1, <2>2 DEF TypedTx, IsTx, TxFields, Tx
<1>5. \A o \in Orders : fulfillment[o] \in FulfillmentRow
  BY <1>3 DEF StockInv, TypeInv
<1> QED
  BY <1>1, <1>2, <1>4, <1>5 DEF TypeOK, StockInv, TypeInv

(* Every row a request has written is its own until it ends, and what it   *)
(* wrote still fits: stock.version and the row locks of allocate-stock.    *)
THEOREM StockIsTyped ==
    ASSUME FulfillmentConstants PROVE Spec => [](TypeOK /\ StockInv)
<1>1. Init => FulfillmentInv /\ StockInv
  BY StartsRight, StartsTyped
<1>2. FulfillmentInv /\ StockInv /\ [Next]_vars => FulfillmentInv' /\ StockInv'
  BY StaysRight, StockStays
<1>3. StockInv => TypeOK
  BY TypesFollow
<1> QED
  BY <1>1, <1>2, <1>3, PTL DEF Spec

-----------------------------------------------------------------------------
(* The ledger.                                                             *)

Units == [r \in Rows |-> [available |-> stock[r].available, reserved |-> stock[r].reserved]]

StateOf(f) == IF f = NoFulfillment THEN "none"
              ELSE IF f.status = "SHIPPED" THEN "gone" ELSE "held"

HeldBy(f) == [r \in Rows |-> UnitsOf(f, r)]

Holding == [o \in Orders |-> [state |-> StateOf(fulfillment[o]),
                              held |-> HeldBy(fulfillment[o])]]

LEMMA LedgerStarts ==
    ASSUME FulfillmentConstants, Init PROVE Ledger!LedgerInit
<1>1. /\ stock = FirstStock /\ fulfillment = [o \in Orders |-> NoFulfillment]
      /\ \A r \in Rows : FirstStock[r].reserved = 0
  BY DEF Init, FulfillmentConstants
<1> QED
  BY <1>1, NoUnits DEF Ledger!LedgerInit

LEMMA HoldingTyped ==
    ASSUME StockInv'
    PROVE  Holding' \in [Orders -> [state : Ledger!States, held : [Rows -> Nat]]]
<1>1. ASSUME NEW o \in Orders
      PROVE  HeldBy(fulfillment[o])' \in [Rows -> Nat]
  BY UnitsType DEF StockInv, TypeInv, TypedRow, HeldBy
<1>2. \A o \in Orders : StateOf(fulfillment[o])' \in Ledger!States
  BY DEF StateOf, Ledger!States
<1> QED
  BY <1>1, <1>2 DEF Holding

LEMMA LedgerHolds ==
    ASSUME FulfillmentConstants, FulfillmentInv, StockInv, StockInv',
           NEW t \in Requests, CommitAllocation(t)
    PROVE  \E o \in Orders : Ledger!Hold(o)
<1>1. PICK f : f = tx[t].fulfillment
  OBVIOUS
<1>2. PICK o \in Orders : o = tx[t].order
  BY DEF StockInv, TypeInv, TypedTx
<1>3. /\ tx[t].pc = "peek" /\ tx[t].op = "allocate"
      /\ fulfillment' = [fulfillment EXCEPT ![o] = f]
  BY <1>1, <1>2 DEF CommitAllocation
<1>4. fulfillment[o] = NoFulfillment
  BY <1>2, Allocating
<1>5. f.status \notin {"NONE", "SHIPPED"} /\ f # NoFulfillment
  BY <1>1, <1>3, NoFulfillmentRow DEF StockInv, WritesOK
<1>6. fulfillment'[o] = f /\ \A p \in Orders \ {o} : fulfillment'[p] = fulfillment[p]
  BY <1>3 DEF StockInv, TypeInv
<1>7. PICK got : got = HeldBy(f)
  OBVIOUS
<1>8. \A r \in Rows : /\ got[r] \in Nat /\ got[r] <= stock[r].available - stock[r].reserved
                      /\ stock'[r].available = stock[r].available
                      /\ stock'[r].reserved = stock[r].reserved + got[r]
  BY <1>1, <1>7, ReservedEverywhere DEF HeldBy
<1>9. Holding' = [Holding EXCEPT ![o] = [state |-> "held", held |-> got]]
  BY <1>5, <1>6, <1>7 DEF Holding, StateOf
<1>10. Holding[o].state = "none" /\ Holding'[o].held = got
  BY <1>4, <1>9 DEF Holding, StateOf
<1>11. Units' = [r \in Rows |-> [Units[r] EXCEPT !.reserved = @ + got[r]]]
  BY <1>8 DEF Units
<1>12. \A r \in Rows : got[r] <= Units[r].available - Units[r].reserved
  BY <1>8 DEF Units
<1>13. Holding' \in [Orders -> [state : Ledger!States, held : [Rows -> Nat]]]
  BY HoldingTyped
<1>14. Ledger!Hold(o)
  BY <1>9, <1>10, <1>11, <1>12, <1>13 DEF Ledger!Hold, Holding, Units, StateOf, HeldBy, Shipped
<1> QED
  BY <1>14

LEMMA LedgerShips ==
    ASSUME FulfillmentConstants, FulfillmentInv, StockInv, NEW t \in Requests, CommitShipment(t)
    PROVE  \E o \in Orders : Ledger!Ship(o)
<1>1. PICK f : f = tx[t].fulfillment
  OBVIOUS
<1>2. PICK o \in Orders : o = tx[t].order
  BY DEF StockInv, TypeInv, TypedTx
<1>3. /\ tx[t].pc = "peek" /\ tx[t].op = "ship" /\ fulfillment[o].version = f.version
      /\ fulfillment' = [fulfillment EXCEPT ![o].status = "SHIPPED", ![o].version = @ + 1]
  BY <1>1, <1>2 DEF CommitShipment
<1>4. TxOK(t)
  BY DEF FulfillmentInv
<1>5. fulfillment[o] # NoFulfillment /\ f = fulfillment[o] /\ f.status # "SHIPPED"
  BY <1>1, <1>2, <1>3, <1>4 DEF TxOK
<1>6. \A p \in Orders \ {o} : fulfillment'[p] = fulfillment[p]
  BY <1>3 DEF StockInv, TypeInv
<1>7. fulfillment'[o].items = f.items /\ fulfillment'[o].status = "SHIPPED"
  <2>1. IsRow(fulfillment[o])
    BY DEF FulfillmentInv
  <2> QED
    BY <1>2, <1>3, <1>5, <2>1, ShippingOut DEF FulfillmentInv, IsRow, RowFields
<1>8. PICK held : held = HeldBy(f)
  OBVIOUS
<1>9. \A r \in Rows : /\ held[r] \in Nat /\ held[r] <= stock[r].reserved
                      /\ stock'[r].available = stock[r].available - held[r]
                      /\ stock'[r].reserved = stock[r].reserved - held[r]
  BY <1>1, <1>8, DeliveredEverywhere DEF HeldBy
<1>10. HeldBy(fulfillment[o])' = held /\ StateOf(fulfillment[o])' = "gone"
  BY <1>7, <1>8, NoFulfillmentRow DEF HeldBy, UnitsOf, StateOf
<1>11. Holding[o] = [state |-> "held", held |-> held]
  BY <1>5, <1>8 DEF Holding, StateOf
<1>12. Holding' = [Holding EXCEPT ![o] = [state |-> "gone", held |-> held]]
  BY <1>6, <1>10 DEF Holding
<1>13. Holding' = [Holding EXCEPT ![o].state = "gone"]
  <2>1. [Holding[o] EXCEPT !.state = "gone"] = [state |-> "gone", held |-> held]
    BY <1>11
  <2>2. [Holding EXCEPT ![o].state = "gone"]
          = [Holding EXCEPT ![o] = [Holding[o] EXCEPT !.state = "gone"]]
    OBVIOUS
  <2> QED
    BY <1>12, <2>1, <2>2
<1>14. Units' = [r \in Rows |-> [available |-> Units[r].available - held[r],
                                 reserved |-> Units[r].reserved - held[r]]]
  BY <1>9 DEF Units
<1>15. \A r \in Rows : held[r] <= Units[r].reserved
  BY <1>9 DEF Units
<1>16. Ledger!Ship(o)
  BY <1>11, <1>13, <1>14, <1>15 DEF Ledger!Ship, Holding, Units, StateOf, HeldBy, Shipped
<1> QED
  BY <1>16

LEMMA LedgerAdjusts ==
    ASSUME StockInv, StockInv', fulfillment' = fulfillment
    PROVE  Ledger!Adjust
<1>1. ASSUME NEW r \in Rows
      PROVE  [available |-> stock'[r].available, reserved |-> stock'[r].reserved]
               \in Ledger!Figures
  <2>1. IsStock(stock[r])'
    BY DEF StockInv, TypeInv
  <2> QED
    BY <2>1 DEF IsStock, Ledger!Figures
<1> QED
  BY <1>1 DEF Ledger!Adjust, Shipped, UnitsOf

LEMMA LedgerSteps ==
    ASSUME FulfillmentConstants, FulfillmentInv, StockInv, StockInv', [Next]_vars
    PROVE  [Ledger!LedgerNext]_Ledger!ledger
<1>1. ASSUME fulfillment' = fulfillment PROVE Ledger!LedgerNext
  BY <1>1, LedgerAdjusts DEF Ledger!LedgerNext
<1>2. ASSUME NEW t \in Requests, CommitAllocation(t) PROVE Ledger!LedgerNext
  BY <1>2, LedgerHolds DEF Ledger!LedgerNext
<1>3. ASSUME NEW t \in Requests, CommitShipment(t) PROVE Ledger!LedgerNext
  BY <1>3, LedgerShips DEF Ledger!LedgerNext
<1>4. \/ fulfillment' = fulfillment
      \/ \E t \in Requests : CommitAllocation(t) \/ CommitShipment(t)
  <2>1. ASSUME Admin PROVE fulfillment' = fulfillment
    BY <2>1 DEF Admin, CreateStock, UpdateStock, ImportStock, Save
  <2>2. ASSUME NEW t \in Requests, Staff(t), ~CommitAllocation(t), ~CommitShipment(t)
        PROVE  fulfillment' = fulfillment
    BY <2>2 DEF Staff, AcceptSuggestedSplit, OverrideSplit, BeginAllocation, MarkShipped,
                CreateFulfillment, Peek, WriteStock, Abort, db
  <2> QED
    BY <2>1, <2>2 DEF Next, DeleteStock, LateDecision, ConfirmAgain, vars
<1> QED
  BY <1>1, <1>2, <1>3, <1>4

(* allocate and markShipped, several statements long and interleaved, take *)
(* effect as one step of the ledger each.                                  *)
THEOREM LedgerKept ==
    ASSUME FulfillmentConstants PROVE Spec => LedgerSpec
<1>1. Init => FulfillmentInv /\ StockInv /\ Ledger!LedgerInit
  BY StartsRight, StartsTyped, LedgerStarts
<1>2. FulfillmentInv /\ StockInv /\ [Next]_vars => FulfillmentInv' /\ StockInv'
  BY StaysRight, StockStays
<1>3. FulfillmentInv /\ StockInv /\ StockInv' /\ [Next]_vars
        => [Ledger!LedgerNext]_Ledger!ledger
  BY LedgerSteps
<1> QED
  BY <1>1, <1>2, <1>3, PTL DEF Spec, LedgerSpec, Ledger!LedgerSpec

-----------------------------------------------------------------------------
(* What the orders wait for and what was delivered, as sums over orders.   *)

LEMMA OrderUnitsType ==
    ASSUME StockInv, NEW r
    PROVE  \A o \in Orders : OrderUnits(r)[o] \in Nat
BY UnitsType DEF StockInv, TypeInv, TypedRow, OrderUnits

LEMMA SumsStay ==
    ASSUME fulfillment' = fulfillment, NEW r
    PROVE  Promised(r)' = Promised(r) /\ Delivered(r)' = Delivered(r)
BY DEF Promised, Delivered, OrderUnits, UnitsOf, Shipped

LEMMA SumsAllocated ==
    ASSUME FulfillmentConstants, FulfillmentInv, StockInv, StockInv',
           NEW t \in Requests, CommitAllocation(t), NEW r \in Rows
    PROVE  /\ stock'[r].reserved - stock[r].reserved = Promised(r)' - Promised(r)
           /\ Promised(r) \in Int /\ Promised(r)' \in Int
           /\ Delivered(r)' = Delivered(r)
           /\ stock'[r].available = stock[r].available
<1>1. PICK f : f = tx[t].fulfillment
  OBVIOUS
<1>2. PICK o \in Orders : o = tx[t].order
  BY DEF StockInv, TypeInv, TypedTx
<1>3. /\ tx[t].pc = "peek" /\ tx[t].op = "allocate"
      /\ fulfillment' = [fulfillment EXCEPT ![o] = f]
  BY <1>1, <1>2 DEF CommitAllocation
<1>4. fulfillment[o] = NoFulfillment
  BY <1>2, Allocating
<1>5. f.status \notin {"NONE", "SHIPPED"}
  BY <1>1, <1>3 DEF StockInv, WritesOK
<1>6. fulfillment'[o] = f /\ \A p \in Orders \ {o} : fulfillment'[p] = fulfillment[p]
  BY <1>3 DEF StockInv, TypeInv
<1>7. PICK n \in Nat : /\ n = UnitsOf(f, r) /\ stock'[r].available = stock[r].available
                       /\ stock'[r].reserved = stock[r].reserved + n
  BY <1>1, ReservedEverywhere
<1>8. PICK U, V : U = OrderUnits(r) /\ V = OrderUnits(r)'
  OBVIOUS
<1>9. /\ \A p \in Orders : U[p] \in Nat
      /\ U[o] = 0 /\ V[o] = n /\ \A p \in Orders \ {o} : V[p] = U[p]
  <2>1. \A p \in Orders : U[p] \in Nat
    BY <1>8, OrderUnitsType
  <2>2. U[o] = 0
    BY <1>4, <1>8, NoUnits DEF OrderUnits
  <2>3. V[o] = n
    BY <1>6, <1>7, <1>8 DEF OrderUnits, UnitsOf
  <2>4. \A p \in Orders \ {o} : V[p] = U[p]
    BY <1>6, <1>8 DEF OrderUnits, UnitsOf
  <2> QED
    BY <2>1, <2>2, <2>3, <2>4
<1>10. PICK S, T : S = {p \in Orders : ~Shipped(p)} /\ T = {p \in Orders : Shipped(p)}
  OBVIOUS
<1>11. /\ {p \in Orders : ~Shipped(p)}' = S /\ {p \in Orders : Shipped(p)}' = T
       /\ o \in S /\ o \notin T
  BY <1>4, <1>5, <1>6, <1>10, NoFulfillmentRow DEF Shipped
<1>12. IsFiniteSet(S) /\ IsFiniteSet(T) /\ S \subseteq Orders /\ T \subseteq Orders
  BY <1>10, FS_Subset DEF FulfillmentConstants
<1>13. \A p \in S : U[p] \in Int /\ V[p] \in Int
  BY <1>9, <1>12
<1>14. SumFunctionOnSet(V, S) = SumFunctionOnSet(U, S) - U[o] + V[o]
  BY <1>9, <1>11, <1>12, <1>13, SumUpdate
<1>15. SumFunctionOnSet(U, T) = SumFunctionOnSet(V, T)
  BY <1>9, <1>11, <1>12, SumSame
<1>16. SumFunctionOnSet(U, S) \in Int
  BY <1>12, <1>13, SumType
<1>17. /\ Promised(r) = SumFunctionOnSet(U, S) /\ Promised(r)' = SumFunctionOnSet(V, S)
       /\ Delivered(r) = SumFunctionOnSet(U, T) /\ Delivered(r)' = SumFunctionOnSet(V, T)
  BY <1>8, <1>10, <1>11 DEF Promised, Delivered
<1>18. stock[r].reserved \in Nat
  BY DEF StockInv, TypeInv, IsStock
<1> QED
  BY <1>7, <1>9, <1>14, <1>15, <1>16, <1>17, <1>18

LEMMA SumsShipped ==
    ASSUME FulfillmentConstants, FulfillmentInv, StockInv, StockInv',
           NEW t \in Requests, CommitShipment(t), NEW r \in Rows
    PROVE  \E n \in Nat :
             /\ stock'[r].reserved = stock[r].reserved - n
             /\ stock'[r].available = stock[r].available - n
             /\ Promised(r) \in Int /\ Promised(r)' = Promised(r) - n
             /\ Delivered(r) \in Int /\ Delivered(r)' = Delivered(r) + n
<1>1. PICK f : f = tx[t].fulfillment
  OBVIOUS
<1>2. PICK o \in Orders : o = tx[t].order
  BY DEF StockInv, TypeInv, TypedTx
<1>3. /\ tx[t].pc = "peek" /\ tx[t].op = "ship" /\ fulfillment[o].version = f.version
      /\ fulfillment' = [fulfillment EXCEPT ![o].status = "SHIPPED", ![o].version = @ + 1]
  BY <1>1, <1>2 DEF CommitShipment
<1>4. TxOK(t)
  BY DEF FulfillmentInv
<1>5. f = fulfillment[o] /\ fulfillment[o].status # "SHIPPED"
  BY <1>1, <1>2, <1>3, <1>4 DEF TxOK
<1>6. \A p \in Orders \ {o} : fulfillment'[p] = fulfillment[p]
  BY <1>3 DEF StockInv, TypeInv
<1>7. fulfillment'[o].items = f.items /\ fulfillment'[o].status = "SHIPPED"
  <2>1. IsRow(fulfillment[o])
    BY DEF FulfillmentInv
  <2> QED
    BY <1>2, <1>3, <1>5, <2>1, ShippingOut DEF FulfillmentInv, IsRow, RowFields
<1>8. PICK n \in Nat : /\ n = UnitsOf(f, r)
                       /\ stock'[r].available = stock[r].available - n
                       /\ stock'[r].reserved = stock[r].reserved - n
  BY <1>1, DeliveredEverywhere
<1>9. PICK U, V : U = OrderUnits(r) /\ V = OrderUnits(r)'
  OBVIOUS
<1>10. /\ \A p \in Orders : U[p] \in Nat
       /\ U[o] = n /\ \A p \in Orders : V[p] = U[p]
  <2>1. \A p \in Orders : U[p] \in Nat
    BY <1>9, OrderUnitsType
  <2>2. U[o] = n
    BY <1>5, <1>8, <1>9 DEF OrderUnits
  <2>3. \A p \in Orders : fulfillment'[p].items = fulfillment[p].items
    BY <1>5, <1>6, <1>7
  <2>4. \A p \in Orders : V[p] = U[p]
    BY <1>9, <2>3 DEF OrderUnits, UnitsOf
  <2> QED
    BY <2>1, <2>2, <2>4
<1>11. PICK S, T : S = {p \in Orders : ~Shipped(p)} /\ T = {p \in Orders : Shipped(p)}
  OBVIOUS
<1>12. /\ {p \in Orders : ~Shipped(p)}' = S \ {o}
       /\ {p \in Orders : Shipped(p)}' = T \union {o}
       /\ o \in S /\ o \notin T
  BY <1>5, <1>6, <1>7, <1>11 DEF Shipped
<1>13. /\ IsFiniteSet(S) /\ IsFiniteSet(T) /\ S \subseteq Orders /\ T \subseteq Orders
       /\ IsFiniteSet(S \ {o}) /\ IsFiniteSet(T \union {o})
  BY <1>11, FS_Subset DEF FulfillmentConstants
<1>14. SumFunctionOnSet(U, S) = U[o] + SumFunctionOnSet(U, S \ {o})
  BY <1>10, <1>12, <1>13, SumRemove
<1>15. SumFunctionOnSet(U, T \union {o}) = U[o] + SumFunctionOnSet(U, T)
  <2>1. \A p \in T \union {o} : U[p] \in Int
    BY <1>10, <1>13
  <2> QED
    BY <1>12, <1>13, <2>1, SumAdd
<1>16. /\ SumFunctionOnSet(U, S \ {o}) = SumFunctionOnSet(V, S \ {o})
       /\ SumFunctionOnSet(U, T \union {o}) = SumFunctionOnSet(V, T \union {o})
  BY <1>10, <1>13, SumSame
<1>17. /\ SumFunctionOnSet(U, S \ {o}) \in Int
       /\ SumFunctionOnSet(U, T) \in Int
  BY <1>10, <1>13, SumType
<1>18. /\ Promised(r) = SumFunctionOnSet(U, S) /\ Promised(r)' = SumFunctionOnSet(V, S \ {o})
       /\ Delivered(r) = SumFunctionOnSet(U, T)
       /\ Delivered(r)' = SumFunctionOnSet(V, T \union {o})
  BY <1>9, <1>11, <1>12 DEF Promised, Delivered
<1> QED
  BY <1>8, <1>10, <1>14, <1>15, <1>16, <1>17, <1>18

(* Every unit reserved is waited for by some order, as long as nobody      *)
(* types in figures; rows may be deleted.                                  *)
ReservedIsPromised == \A r \in Rows : stock[r].reserved = Promised(r)

AvailableIsLeft ==
    \A r \in Rows : /\ stock[r].version >= 1
                    /\ stock[r].available + Delivered(r) = FirstStock[r].available

LEMMA NothingPromised ==
    ASSUME FulfillmentConstants, NEW r, NEW U, NEW S \in SUBSET Orders,
           \A o \in S : U[o] = 0
    PROVE  SumFunctionOnSet(U, S) = 0
<1>1. IsFiniteSet(S)
  BY FS_Subset DEF FulfillmentConstants
<1> QED
  BY <1>1, SumOfZeros

LEMMA UnitsStart ==
    ASSUME FulfillmentConstants, Init PROVE ReservedIsPromised /\ AvailableIsLeft
<1>1. stock = FirstStock /\ fulfillment = [o \in Orders |-> NoFulfillment]
  BY DEF Init
<1>2. ASSUME NEW r \in Rows PROVE Promised(r) = 0 /\ Delivered(r) = 0
  <2>1. \A o \in Orders : OrderUnits(r)[o] = 0
    BY <1>1, NoUnits DEF OrderUnits
  <2> QED
    BY <2>1, NothingPromised DEF Promised, Delivered
<1>3. \A r \in Rows : FirstStock[r] \in StockRow /\ FirstStock[r].reserved = 0
                         /\ FirstStock[r].version >= 1
  BY DEF FulfillmentConstants
<1> QED
  BY <1>1, <1>2, <1>3 DEF ReservedIsPromised, AvailableIsLeft, StockRow

LEMMA UnitsStay ==
    ASSUME FulfillmentConstants, StockForms = {}, FulfillmentInv, StockInv, StockInv',
           ReservedIsPromised, [Next]_vars
    PROVE  /\ ReservedIsPromised'
           /\ MaxVersion <= 1 /\ AvailableIsLeft => AvailableIsLeft'
<1>1. ASSUME NEW t \in Requests, CommitAllocation(t)
      PROVE  /\ ReservedIsPromised'
             /\ AvailableIsLeft => AvailableIsLeft'
  <2>1. ASSUME NEW r \in Rows PROVE stock'[r].reserved = Promised(r)'
    <3>1. stock[r].reserved = Promised(r) /\ stock'[r].reserved \in Nat
      BY DEF ReservedIsPromised, StockInv, TypeInv, IsStock
    <3>2. /\ stock'[r].reserved - stock[r].reserved = Promised(r)' - Promised(r)
          /\ Promised(r) \in Int /\ Promised(r)' \in Int
      BY <1>1, SumsAllocated
    <3> QED
      BY <3>1, <3>2
  <2>2. ASSUME NEW r \in Rows, AvailableIsLeft
        PROVE  /\ stock'[r].version >= 1
               /\ stock'[r].available + Delivered(r)' = FirstStock[r].available
    <3>1. stock[r].version >= 1
      BY <2>2 DEF AvailableIsLeft
    <3>2. stock'[r] = stock[r] \/ stock'[r].version = stock[r].version + 1
      <4>1. PICK n : stock'[r] = IF n = 0 THEN stock[r]
                                 ELSE [stock[r] EXCEPT !.reserved = @ + n, !.version = @ + 1]
        BY <1>1 DEF CommitAllocation, Reserve
      <4>2. PICK s : s = stock[r]
        OBVIOUS
      <4>3. IsStock(s)
        BY <4>2 DEF StockInv, TypeInv
      <4> QED
        BY <4>1, <4>2, <4>3 DEF IsStock, StockFields
    <3>3. stock[r].version \in Nat
      BY DEF StockInv, TypeInv, IsStock
    <3>4. stock'[r].version >= 1
      BY <3>1, <3>2, <3>3
    <3> QED
      BY <1>1, <2>2, <3>4, SumsAllocated DEF AvailableIsLeft
  <2> QED
    BY <2>1, <2>2 DEF ReservedIsPromised, AvailableIsLeft
<1>2. ASSUME NEW t \in Requests, CommitShipment(t)
      PROVE  /\ ReservedIsPromised'
             /\ AvailableIsLeft => AvailableIsLeft'
  <2>1. ASSUME NEW r \in Rows PROVE stock'[r].reserved = Promised(r)'
    <3>1. stock[r].reserved = Promised(r)
      BY DEF ReservedIsPromised
    <3> QED
      BY <1>2, <3>1, SumsShipped
  <2>2. ASSUME NEW r \in Rows, AvailableIsLeft
        PROVE  /\ stock'[r].version >= 1
               /\ stock'[r].available + Delivered(r)' = FirstStock[r].available
    <3>1. /\ stock[r].version >= 1
          /\ stock[r].available + Delivered(r) = FirstStock[r].available
      BY <2>2 DEF AvailableIsLeft
    <3>2. stock'[r] = stock[r] \/ stock'[r].version = stock[r].version + 1
      <4>1. PICK n : stock'[r] = IF n = 0 THEN stock[r]
                                 ELSE [stock[r] EXCEPT !.available = @ - n, !.reserved = @ - n, !.version = @ + 1]
        BY <1>2 DEF CommitShipment, Deliver
      <4>2. PICK s : s = stock[r]
        OBVIOUS
      <4>3. IsStock(s)
        BY <4>2 DEF StockInv, TypeInv
      <4> QED
        BY <4>1, <4>2, <4>3 DEF IsStock, StockFields
    <3>3. stock[r].version \in Nat /\ stock[r].available \in Nat
      BY DEF StockInv, TypeInv, IsStock
    <3>4. stock'[r].version >= 1
      BY <3>1, <3>2, <3>3
    <3>5. PICK n \in Nat : /\ stock'[r].available = stock[r].available - n
                           /\ Delivered(r) \in Int /\ Delivered(r)' = Delivered(r) + n
      BY <1>2, SumsShipped
    <3> QED
      BY <3>1, <3>3, <3>4, <3>5
  <2> QED
    BY <2>1, <2>2 DEF ReservedIsPromised, AvailableIsLeft
<1>3. ASSUME fulfillment' = fulfillment, stock' = stock
      PROVE  /\ ReservedIsPromised'
             /\ AvailableIsLeft => AvailableIsLeft'
  BY <1>3, SumsStay DEF ReservedIsPromised, AvailableIsLeft
<1>4. ASSUME NEW r \in Rows, DeleteStock(r)
      PROVE  /\ ReservedIsPromised'
             /\ ~(MaxVersion <= 1 /\ AvailableIsLeft)
  <2>1. /\ fulfillment' = fulfillment /\ stock[r].version < MaxVersion
        /\ stock' = [stock EXCEPT ![r] = [NoRow EXCEPT !.version = stock[r].version + 1]]
        /\ \A o \in Orders : UnitsOf(fulfillment[o], r) = 0
    BY <1>4 DEF DeleteStock
  <2>2. stock'[r].reserved = 0 /\ \A s \in Rows \ {r} : stock'[s] = stock[s]
    BY <2>1 DEF StockInv, TypeInv, NoRow
  <2>3. Promised(r) = 0
    <3>1. \A o \in Orders : OrderUnits(r)[o] = 0
      BY <2>1 DEF OrderUnits
    <3> QED
      BY <3>1, NothingPromised DEF Promised
  <2>4. ReservedIsPromised'
    BY <2>1, <2>2, <2>3, SumsStay DEF ReservedIsPromised
  <2>5. stock[r].version \in Nat /\ MaxVersion \in Nat
    BY DEF StockInv, TypeInv, IsStock, FulfillmentConstants
  <2>6. ~(MaxVersion <= 1 /\ AvailableIsLeft)
    BY <2>1, <2>5 DEF AvailableIsLeft
  <2> QED
    BY <2>4, <2>6
<1>5. \/ fulfillment' = fulfillment /\ stock' = stock
      \/ \E t \in Requests : CommitAllocation(t) \/ CommitShipment(t)
      \/ \E r \in Rows : DeleteStock(r)
  <2>1. ~Admin
    BY DEF Admin
  <2>2. ASSUME NEW t \in Requests, Staff(t), ~CommitAllocation(t), ~CommitShipment(t)
        PROVE  fulfillment' = fulfillment /\ stock' = stock
    BY <2>2 DEF Staff, AcceptSuggestedSplit, OverrideSplit, BeginAllocation, MarkShipped,
                CreateFulfillment, Peek, WriteStock, Abort, db
  <2> QED
    BY <2>1, <2>2 DEF Next, LateDecision, ConfirmAgain, vars
<1> QED
  BY <1>1, <1>2, <1>3, <1>4, <1>5

(* allocate-stock.ts: what is reserved is what allocated orders wait for,  *)
(* if nobody types in figures, however transactions interleave and roll    *)
(* back.                                                                   *)
THEOREM NothingIsLeftReserved ==
    ASSUME FulfillmentConstants, StockForms = {} PROVE Spec => []ReservedIsPromised
<1>1. Init => FulfillmentInv /\ StockInv /\ ReservedIsPromised
  BY StartsRight, StartsTyped, UnitsStart
<1>2. FulfillmentInv /\ StockInv /\ [Next]_vars => FulfillmentInv' /\ StockInv'
  BY StaysRight, StockStays
<1>3. FulfillmentInv /\ StockInv /\ StockInv' /\ ReservedIsPromised /\ [Next]_vars
        => ReservedIsPromised'
  BY UnitsStay
<1> QED
  BY <1>1, <1>2, <1>3, PTL DEF Spec

(* and where no row is deleted either, the stock shrinks by exactly the    *)
(* units that were delivered.                                              *)
THEOREM UnitsAccounted ==
    ASSUME FulfillmentConstants, StockForms = {}, MaxVersion <= 1
    PROVE  Spec => []UnitsAreAccountedFor
<1>1. Init => FulfillmentInv /\ StockInv /\ ReservedIsPromised /\ AvailableIsLeft
  BY StartsRight, StartsTyped, UnitsStart
<1>2. FulfillmentInv /\ StockInv /\ [Next]_vars => FulfillmentInv' /\ StockInv'
  BY StaysRight, StockStays
<1>3. FulfillmentInv /\ StockInv /\ StockInv' /\ ReservedIsPromised /\ AvailableIsLeft
        /\ [Next]_vars => ReservedIsPromised' /\ AvailableIsLeft'
  BY UnitsStay
<1>4. ReservedIsPromised /\ AvailableIsLeft => UnitsAreAccountedFor
  BY DEF ReservedIsPromised, AvailableIsLeft, UnitsAreAccountedFor
<1> QED
  BY <1>1, <1>2, <1>3, <1>4, PTL DEF Spec

-----------------------------------------------------------------------------
(* The quotation's status and its fulfillment row.                         *)

StatusFor(f) == CASE f = NoFulfillment -> "CONFIRMED"
                  [] f.status = "SHIPPED" -> "BILLING"
                  [] OTHER -> "FULFILLMENT"

OrdersFollow ==
    \A o \in Orders : order[o].version >= 1 /\ order[o].status = StatusFor(fulfillment[o])

LEMMA OrdersFollowOn ==
    ASSUME FulfillmentConstants, MaxVersion <= 1, FulfillmentInv, StockInv, OrdersFollow,
           [Next]_vars
    PROVE  OrdersFollow'
<1>1. ASSUME NEW o \in Orders, NEW status, NEW z,
             order' = [order EXCEPT ![o] = [status |-> status, version |-> order[o].version + 1]],
             fulfillment' = [fulfillment EXCEPT ![o] = z], status = StatusFor(z)
      PROVE  OrdersFollow'
  <2>1. /\ order'[o] = [status |-> status, version |-> order[o].version + 1]
        /\ fulfillment'[o] = z
        /\ \A p \in Orders \ {o} : order'[p] = order[p] /\ fulfillment'[p] = fulfillment[p]
    BY <1>1 DEF StockInv, TypeInv
  <2>2. order[o].version \in Nat
    BY DEF StockInv, TypeInv, IsOrder
  <2>3. order'[o].version >= 1 /\ order'[o].status = StatusFor(fulfillment'[o])
    BY <1>1, <2>1, <2>2
  <2>4. \A p \in Orders \ {o} :
           order'[p].version >= 1 /\ order'[p].status = StatusFor(fulfillment'[p])
    BY <2>1 DEF OrdersFollow
  <2> QED
    BY <2>3, <2>4 DEF OrdersFollow, StatusFor
<1>2. ASSUME NEW t \in Requests, CommitAllocation(t) PROVE OrdersFollow'
  <2>1. PICK f : f = tx[t].fulfillment
    OBVIOUS
  <2>2. PICK o \in Orders : o = tx[t].order
    BY DEF StockInv, TypeInv, TypedTx
  <2>3. /\ tx[t].pc = "peek" /\ tx[t].op = "allocate"
        /\ order' = [order EXCEPT ![o] = [status |-> "FULFILLMENT",
                                          version |-> order[o].version + 1]]
        /\ fulfillment' = [fulfillment EXCEPT ![o] = f]
    BY <1>2, <2>1, <2>2 DEF CommitAllocation, AdvanceOrder
  <2>4. StatusFor(f) = "FULFILLMENT"
    BY <2>1, <2>3, NoFulfillmentRow DEF StockInv, WritesOK, StatusFor
  <2> QED
    BY <1>1, <2>3, <2>4
<1>3. ASSUME NEW t \in Requests, CommitShipment(t) PROVE OrdersFollow'
  <2>1. PICK o \in Orders : o = tx[t].order
    BY DEF StockInv, TypeInv, TypedTx
  <2>2. /\ order' = [order EXCEPT ![o] = [status |-> "BILLING",
                                          version |-> order[o].version + 1]]
        /\ fulfillment' = [fulfillment EXCEPT ![o] =
             [fulfillment[o] EXCEPT !.status = "SHIPPED", !.version = @ + 1]]
    BY <1>3, <2>1 DEF CommitShipment, AdvanceOrder
  <2>3. PICK z : z = [fulfillment[o] EXCEPT !.status = "SHIPPED", !.version = @ + 1]
    OBVIOUS
  <2>4. z.status = "SHIPPED"
    BY <2>3 DEF FulfillmentInv, IsRow, RowFields
  <2>5. StatusFor(z) = "BILLING"
    BY <2>4, NoFulfillmentRow DEF StatusFor
  <2> QED
    BY <1>1, <2>2, <2>3, <2>5
<1>4. ASSUME NEW o \in Orders PROVE ~(order[o].version < MaxVersion)
  BY DEF OrdersFollow, FulfillmentConstants, StockInv, TypeInv, IsOrder
<1>5. \/ fulfillment' = fulfillment /\ order' = order
      \/ \E t \in Requests : CommitAllocation(t) \/ CommitShipment(t)
  <2>1. ASSUME Admin PROVE fulfillment' = fulfillment /\ order' = order
    BY <2>1 DEF Admin, CreateStock, UpdateStock, ImportStock, Save
  <2>2. ASSUME NEW t \in Requests, Staff(t), ~CommitAllocation(t), ~CommitShipment(t)
        PROVE  fulfillment' = fulfillment /\ order' = order
    BY <2>2 DEF Staff, AcceptSuggestedSplit, OverrideSplit, BeginAllocation, MarkShipped,
                CreateFulfillment, Peek, WriteStock, Abort, db
  <2> QED
    BY <1>4, <2>1, <2>2 DEF Next, DeleteStock, LateDecision, ConfirmAgain, vars
<1> QED
  BY <1>2, <1>3, <1>5 DEF OrdersFollow, StatusFor

(* persistAllocation and markShipped: while nobody decides or confirms     *)
(* the quotation again, its status and its fulfillment row move together,  *)
(* whatever the stock screens do.                                          *)
THEOREM OrdersFollowFulfillment ==
    ASSUME FulfillmentConstants, MaxVersion <= 1
    PROVE  Spec => []OrderFollowsFulfillment
<1>1. Init => FulfillmentInv /\ StockInv /\ OrdersFollow
  <2>1. Init => OrdersFollow
    <3> SUFFICES ASSUME Init, NEW o \in Orders
                 PROVE  order[o].version >= 1 /\ order[o].status = StatusFor(fulfillment[o])
      BY DEF OrdersFollow
    <3>1. /\ order[o] = [status |-> "CONFIRMED", version |-> 1]
          /\ fulfillment[o] = NoFulfillment
      BY DEF Init
    <3> QED
      BY <3>1, NoFulfillmentRow DEF StatusFor
  <2> QED
    BY <2>1, StartsRight, StartsTyped
<1>2. FulfillmentInv /\ StockInv /\ [Next]_vars => FulfillmentInv' /\ StockInv'
  BY StaysRight, StockStays
<1>3. FulfillmentInv /\ StockInv /\ OrdersFollow /\ [Next]_vars => OrdersFollow'
  BY OrdersFollowOn
<1>4. OrdersFollow => OrderFollowsFulfillment
  BY DEF OrdersFollow, StatusFor, OrderFollowsFulfillment, Shipped
<1> QED
  BY <1>1, <1>2, <1>3, <1>4, PTL DEF Spec

-----------------------------------------------------------------------------
(* Every unit of an order is in an item of its line or in its backorder.   *)

(* What LinesAreCovered says of one order.                                 *)
RowCovers(lines, f) ==
    /\ \A i \in DOMAIN lines : lines[i].qty = f.backorders[i] + CoveredBy(f.items, i)
    /\ f.status \in {"ALLOCATED", "SHIPPED"} => ~HasOpenBackorder(f)
    /\ f.status = "PARTIALLY_ALLOCATED" => HasOpenBackorder(f) /\ f.items # << >>
    /\ f.status = "BACKORDERED" => f.items = << >>

(* allocate-stock.ts and persistAllocation leave no unit of an order out.  *)
LEMMA PlanCovers ==
    ASSUME FulfillmentConstants, NEW o \in Orders, NEW decided, NEW short,
           Serves(Warehouses, OrderLines[o], decided, short),
           DOMAIN short = ProductsOf(OrderLines[o])
    PROVE  RowCovers(OrderLines[o], PlannedRow(o, decided, short))
<1>1. PICK lines \in Seq(OrderLine(Products)) : lines = OrderLines[o]
  BY LinesTyped
<1>2. Serves(Warehouses, lines, decided, short) /\ DOMAIN short = ProductsOf(lines)
  BY <1>1
<1>3. PICK items, back, open : /\ items = AllItems(lines, decided)
                               /\ back = Backorders(lines, decided, short)
                               /\ open = Open(lines, decided)
  OBVIOUS
<1>4. PICK f : f = PlannedRow(o, decided, short)
  OBVIOUS
<1>5. /\ f.items = items /\ f.backorders = back
      /\ f.status = StatusOf(items, SumFunctionOnSet(short, ProductsOf(lines)))
  BY <1>1, <1>2, <1>3, <1>4 DEF PlannedRow, SumFunction
<1>6. ASSUME NEW i \in DOMAIN lines
      PROVE  /\ open[i] \in Nat /\ back[i] = open[i]
             /\ lines[i].qty = open[i] + CoveredBy(items, i)
  <2>0. /\ Backorders(lines, decided, short)[i] = Open(lines, decided)[i]
        /\ Open(lines, decided)[i] \in Nat
    BY <1>2, BackorderIsOpen
  <2>1. open[i] \in Nat /\ back[i] = open[i]
    BY <1>3, <2>0
  <2>2. open[i] = lines[i].qty - CoveredBy(items, i)
    BY <1>3 DEF Open
  <2>3. items \in Seq(ItemOf(Warehouses, Products))
    <3>1. \A p \in ProductsOf(lines) : decided[p] \in Seq(Splitting(Warehouses))
      BY <1>2 DEF Serves
    <3> QED
      BY <1>3, <3>1, AllItemsType
  <2>4. CoveredBy(items, i) \in Nat
    BY <2>3, CoveredByType
  <2>5. lines[i].qty \in Nat
    BY QtyRises
  <2> QED
    BY <2>1, <2>2, <2>4, <2>5
<1>7. DOMAIN back = DOMAIN lines
  BY <1>3 DEF Backorders
<1>8. HasOpenBackorder(f) <=> \E i \in DOMAIN lines : open[i] # 0
  <2>1. HasOpenBackorder(f) <=> \E i \in DOMAIN lines : back[i] > 0
    BY <1>5, <1>7 DEF HasOpenBackorder
  <2>2. \A i \in DOMAIN lines : back[i] > 0 <=> open[i] # 0
    BY <1>6
  <2> QED
    BY <2>1, <2>2
<1>9. PICK sum : sum = SumFunctionOnSet(short, ProductsOf(lines))
  OBVIOUS
<1>10. \A p \in ProductsOf(lines) :
         /\ short[p] \in Nat
         /\ short[p] = 0 => \A k \in DOMAIN lines : lines[k].product = p => open[k] = 0
         /\ short[p] # 0 => \E k \in DOMAIN lines : open[k] # 0
  <2>1. SUFFICES ASSUME NEW p \in ProductsOf(lines)
                 PROVE  /\ short[p] \in Nat
                        /\ short[p] = 0 => \A k \in DOMAIN lines : lines[k].product = p => open[k] = 0
                        /\ short[p] # 0 => \E k \in DOMAIN lines : open[k] # 0
    OBVIOUS
  <2>2. ShortShows(lines, decided, short, p)
    BY <1>2, ShortIsOpen
  <2> QED
    BY <1>3, <2>2 DEF ShortShows
<1>11. IsFiniteSet(ProductsOf(lines))
  BY ProductsFinite
<1>12. ASSUME sum = 0 PROVE ~HasOpenBackorder(f)
  <2>1. SUFFICES ASSUME NEW k \in DOMAIN lines PROVE open[k] = 0
    BY <1>8
  <2>2. PICK p \in ProductsOf(lines) : p = lines[k].product
    BY DEF ProductsOf
  <2>3. \A x \in ProductsOf(lines) : short[x] \in Int
    BY <1>10
  <2>4. sum = short[p] + SumFunctionOnSet(short, ProductsOf(lines) \ {p})
    BY <1>9, <1>11, <2>3, SumRemove
  <2>5. SumFunctionOnSet(short, ProductsOf(lines) \ {p}) \in Nat
    <3>1. IsFiniteSet(ProductsOf(lines) \ {p})
      BY <1>11, FS_Subset
    <3>2. \A x \in ProductsOf(lines) \ {p} : short[x] \in Nat
      BY <1>10
    <3> QED
      BY <3>1, <3>2, SumType
  <2>6. short[p] = 0
    BY <1>10, <1>12, <2>4, <2>5
  <2> QED
    BY <1>10, <2>2, <2>6
<1>13. ASSUME sum # 0 PROVE HasOpenBackorder(f)
  <2>1. PICK p \in ProductsOf(lines) : short[p] # 0
    <3>1. SUFFICES ASSUME \A p \in ProductsOf(lines) : short[p] = 0 PROVE FALSE
      OBVIOUS
    <3>2. SumFunctionOnSet(short, ProductsOf(lines)) = 0
      BY <1>11, <3>1, SumOfZeros
    <3> QED
      BY <1>9, <1>13, <3>2
  <2> QED
    BY <1>8, <1>10, <2>1
<1>14. f.status = IF sum = 0 THEN "ALLOCATED"
                  ELSE IF items = << >> THEN "BACKORDERED" ELSE "PARTIALLY_ALLOCATED"
  BY <1>5, <1>9 DEF StatusOf
<1>15. \A i \in DOMAIN lines : lines[i].qty = f.backorders[i] + CoveredBy(f.items, i)
  BY <1>5, <1>6
<1>16. RowCovers(lines, f)
  BY <1>5, <1>12, <1>13, <1>14, <1>15 DEF RowCovers
<1> QED
  BY <1>1, <1>4, <1>16

(* The splits the screen suggests, and those the staff may type in.        *)
LEMMA SuggestionServes ==
    ASSUME FulfillmentConstants, TypeInv, NEW o \in Orders, NEW decided \in Suggestions(o),
           NEW p \in ProductsOf(OrderLines[o])
    PROVE  /\ NamesOnce(decided[p])
           /\ Total(decided[p]) <= Ordered(OrderLines[o], p)
<1>1. PICK lines \in Seq(OrderLine(Products)) : lines = OrderLines[o]
  BY LinesTyped
<1>2. p \in Products
  <2>1. PICK i \in DOMAIN lines : p = lines[i].product
    BY <1>1 DEF ProductsOf
  <2>2. lines[i] \in OrderLine(Products)
    OBVIOUS
  <2> QED
    BY <2>1, <2>2 DEF OrderLine
<1>3. PICK free : free = FreeByWarehouse(p)
  OBVIOUS
<1>4. free \in [Warehouses -> Int]
  <2>1. ASSUME NEW w \in Warehouses PROVE Free(<<w, p>>) \in Int
    <3>1. <<w, p>> \in Rows
      BY <1>2 DEF Rows
    <3>2. IsStock(stock[<<w, p>>])
      BY <3>1 DEF TypeInv
    <3> QED
      BY <3>2 DEF IsStock, Free
  <2> QED
    BY <1>3, <2>1 DEF FreeByWarehouse
<1>5. Len(lines) \in 0 .. Len(lines)
  OBVIOUS
<1>6. PICK want \in Nat : want = Ordered(lines, p)
  BY <1>5, QtyOfType DEF Ordered
<1>7. PICK splits : splits = decided[p]
  OBVIOUS
<1>8. splits \in Splits(want, free)
  BY <1>1, <1>3, <1>6, <1>7 DEF Suggestions
<1>9. IsFiniteSet(Warehouses)
  BY DEF FulfillmentConstants
<1>10. NamesOnce(splits) /\ Total(splits) <= want
  BY <1>4, <1>8, <1>9, SplitsFit
<1> QED
  BY <1>1, <1>6, <1>7, <1>10

LEMMA SuggestedCovers ==
    ASSUME FulfillmentConstants, TypeInv, NEW o \in Orders, NEW decided \in Suggestions(o),
           NEW short, short = [p \in DOMAIN decided |-> Shortfall(Ordered(OrderLines[o], p), decided[p])]
    PROVE  RowCovers(OrderLines[o], PlannedRow(o, decided, short))
<1>1. DOMAIN decided = ProductsOf(OrderLines[o])
  BY DEF Suggestions
<1>2. ASSUME NEW p \in ProductsOf(OrderLines[o])
      PROVE  /\ decided[p] \in Seq(Splitting(Warehouses))
             /\ NamesOnce(decided[p])
             /\ Total(decided[p]) <= Ordered(OrderLines[o], p)
             /\ short[p] = Ordered(OrderLines[o], p) - Total(decided[p])
  <2>1. decided[p] \in Seq(Splitting(Warehouses))
    BY SuggestionTyped
  <2>2. NamesOnce(decided[p]) /\ Total(decided[p]) <= Ordered(OrderLines[o], p)
    BY SuggestionServes
  <2>3. short[p] = Ordered(OrderLines[o], p) - Total(decided[p])
    BY <1>1 DEF Shortfall
  <2> QED
    BY <2>1, <2>2, <2>3
<1>3. Serves(Warehouses, OrderLines[o], decided, short)
  BY <1>2 DEF Serves
<1>4. DOMAIN short = ProductsOf(OrderLines[o])
  BY <1>1
<1> QED
  BY <1>3, <1>4, PlanCovers

(* What the theorem asks of splits typed in by hand.                       *)
OverridesNameOnce == \A splits \in Overrides : NamesOnce(splits)

LEMMA OverrideCovers ==
    ASSUME FulfillmentConstants, OverridesNameOnce, NEW o \in Orders, NEW p,
           NEW splits \in Overrides, ProductsOf(OrderLines[o]) = {p},
           Total(splits) = Ordered(OrderLines[o], p),
           NEW decided, decided = [q \in ProductsOf(OrderLines[o]) |-> splits],
           NEW short, short = [q \in ProductsOf(OrderLines[o]) |-> 0]
    PROVE  RowCovers(OrderLines[o], PlannedRow(o, decided, short))
<1>1. splits \in Seq(Splitting(Warehouses)) /\ NamesOnce(splits)
  BY DEF FulfillmentConstants, Splitting, OverridesNameOnce
<1>2. PICK n \in Nat : n = Total(splits)
  BY <1>1, TotalType
<1>3. ASSUME NEW q \in ProductsOf(OrderLines[o])
      PROVE  /\ decided[q] = splits
             /\ Total(decided[q]) <= Ordered(OrderLines[o], q)
             /\ short[q] = Ordered(OrderLines[o], q) - Total(decided[q])
  <2>1. q = p /\ decided[q] = splits /\ short[q] = 0
    OBVIOUS
  <2> QED
    BY <1>2, <2>1
<1>4. Serves(Warehouses, OrderLines[o], decided, short)
  BY <1>1, <1>3 DEF Serves
<1>5. DOMAIN short = ProductsOf(OrderLines[o])
  OBVIOUS
<1> QED
  BY <1>4, <1>5, PlanCovers

-----------------------------------------------------------------------------
(* The rows, and those that requests in flight will write, cover all lines.*)
TxCovers(q) ==
    q.pc # "idle" =>
      /\ q.op = "allocate" => RowCovers(OrderLines[q.order], q.fulfillment)
      /\ q.op = "ship" => ~HasOpenBackorder(q.fulfillment)

CoverInv ==
    /\ \A o \in Orders : fulfillment[o] # NoFulfillment =>
                            RowCovers(OrderLines[o], fulfillment[o])
    /\ \A t \in Requests : TxCovers(tx[t])

LEMMA CoverStarts == Init => CoverInv
<1> SUFFICES ASSUME Init PROVE CoverInv
  OBVIOUS
<1>1. fulfillment = [o \in Orders |-> NoFulfillment] /\ tx = [t \in Requests |-> Idle]
  BY DEF Init
<1> QED
  BY <1>1, IdleTx DEF CoverInv, TxCovers

(* A request takes its next state, and no row changes.                     *)
LEMMA OneMoreCovers ==
    ASSUME FulfillmentInv, CoverInv, NEW t \in Requests, NEW q, TxCovers(q),
           tx' = [tx EXCEPT ![t] = q], fulfillment' = fulfillment
    PROVE  CoverInv'
<1>1. tx'[t] = q /\ \A u \in Requests \ {t} : tx'[u] = tx[u]
  BY DEF FulfillmentInv
<1>2. \A u \in Requests : TxCovers(tx[u])'
  BY <1>1 DEF CoverInv, TxCovers, RowCovers, HasOpenBackorder
<1> QED
  BY <1>2 DEF CoverInv, RowCovers, HasOpenBackorder

(* A commit: one row changes, and its writer is done.                      *)
LEMMA RowChangedCovers ==
    ASSUME FulfillmentInv, CoverInv, NEW t \in Requests, NEW o \in Orders, NEW f,
           RowCovers(OrderLines[o], f), Close(t), fulfillment' = [fulfillment EXCEPT ![o] = f]
    PROVE  CoverInv'
<1>1. tx'[t] = Idle /\ \A u \in Requests \ {t} : tx'[u] = tx[u]
  BY DEF FulfillmentInv, Close
<1>2. fulfillment'[o] = f /\ \A p \in Orders \ {o} : fulfillment'[p] = fulfillment[p]
  BY DEF FulfillmentInv
<1>3. \A u \in Requests : TxCovers(tx[u])'
  BY <1>1, IdleTx DEF CoverInv, TxCovers, RowCovers, HasOpenBackorder
<1>4. \A p \in Orders : fulfillment'[p] # NoFulfillment => RowCovers(OrderLines[p], fulfillment'[p])
  BY <1>2 DEF CoverInv
<1> QED
  BY <1>3, <1>4 DEF CoverInv, RowCovers, HasOpenBackorder

LEMMA BeginningCovers ==
    ASSUME FulfillmentConstants, OverridesNameOnce, FulfillmentInv, TypeInv, CoverInv,
           NEW t \in Requests, NEW o \in Orders,
           AcceptSuggestedSplit(t, o) \/ OverrideSplit(t, o)
    PROVE  CoverInv'
<1>1. PICK decided, short : /\ BeginAllocation(t, o, decided, short)
                            /\ RowCovers(OrderLines[o], PlannedRow(o, decided, short))
  <2>1. CASE AcceptSuggestedSplit(t, o)
    <3>1. PICK decided \in Suggestions(o) :
            BeginAllocation(t, o, decided,
               [p \in DOMAIN decided |-> Shortfall(Ordered(OrderLines[o], p), decided[p])])
      BY <2>1 DEF AcceptSuggestedSplit
    <3>2. PICK short :
            short = [p \in DOMAIN decided |-> Shortfall(Ordered(OrderLines[o], p), decided[p])]
      OBVIOUS
    <3>3. RowCovers(OrderLines[o], PlannedRow(o, decided, short))
      BY <3>2, SuggestedCovers
    <3> QED
      BY <3>1, <3>2, <3>3
  <2>2. CASE OverrideSplit(t, o)
    <3>1. PICK p \in ProductsOf(OrderLines[o]), splits \in Overrides :
            /\ ProductsOf(OrderLines[o]) = {p}
            /\ Total(splits) = Ordered(OrderLines[o], p)
            /\ BeginAllocation(t, o, [q \in ProductsOf(OrderLines[o]) |-> splits],
                                     [q \in ProductsOf(OrderLines[o]) |-> 0])
      BY <2>2 DEF OverrideSplit
    <3>2. PICK decided, short : /\ decided = [q \in ProductsOf(OrderLines[o]) |-> splits]
                                /\ short = [q \in ProductsOf(OrderLines[o]) |-> 0]
      OBVIOUS
    <3>3. RowCovers(OrderLines[o], PlannedRow(o, decided, short))
      BY <3>1, <3>2, OverrideCovers
    <3> QED
      BY <3>1, <3>2, <3>3
  <2> QED
    BY <2>1, <2>2
<1>2. PICK q : q = [pc |-> "create", op |-> "allocate", order |-> o, seen |-> order[o].version,
                    fulfillment |-> PlannedRow(o, decided, short), next |-> 1, peeked |-> 0]
  OBVIOUS
<1>3. tx' = [tx EXCEPT ![t] = q] /\ fulfillment' = fulfillment
  BY <1>1, <1>2 DEF BeginAllocation, db
<1>4. TxCovers(q)
  BY <1>1, <1>2 DEF TxCovers
<1> QED
  BY <1>3, <1>4, OneMoreCovers

LEMMA ShippingCovers ==
    ASSUME FulfillmentInv, CoverInv, NEW t \in Requests, NEW o \in Orders, MarkShipped(t, o)
    PROVE  CoverInv'
<1>1. PICK q : q = [pc |-> "peek", op |-> "ship", order |-> o, seen |-> order[o].version,
                    fulfillment |-> fulfillment[o], next |-> 1, peeked |-> 0]
  OBVIOUS
<1>2. tx' = [tx EXCEPT ![t] = q] /\ fulfillment' = fulfillment
  BY <1>1 DEF MarkShipped, db
<1>3. TxCovers(q)
  BY <1>1 DEF TxCovers, MarkShipped
<1> QED
  BY <1>2, <1>3, OneMoreCovers

(* Creating the row, peeking and writing keep what the request decided.    *)
LEMMA WritingCovers ==
    ASSUME FulfillmentInv, CoverInv, NEW t \in Requests,
           CreateFulfillment(t) \/ Peek(t) \/ WriteStock(t)
    PROVE  CoverInv'
<1>1. IsTx(tx[t]) /\ tx[t].pc # "idle" /\ TxCovers(tx[t])
  BY DEF FulfillmentInv, CoverInv, CreateFulfillment, Peek, WriteStock
<1>2. PICK q : /\ tx' = [tx EXCEPT ![t] = q]
               /\ \/ q = [tx[t] EXCEPT !.pc = "peek"]
                  \/ q = [tx[t] EXCEPT !.pc = "write",
                                       !.peeked = stock[NextItem(t).row].version]
                  \/ q = [tx[t] EXCEPT !.pc = "peek", !.next = @ + 1]
  BY DEF CreateFulfillment, Peek, WriteStock
<1>3. q.op = tx[t].op /\ q.order = tx[t].order /\ q.fulfillment = tx[t].fulfillment
  BY <1>1, <1>2 DEF IsTx, TxFields
<1>4. TxCovers(q)
  BY <1>1, <1>3 DEF TxCovers
<1>5. fulfillment' = fulfillment
  BY DEF CreateFulfillment, Peek, WriteStock, db
<1> QED
  BY <1>2, <1>4, <1>5, OneMoreCovers

LEMMA CommitCovers ==
    ASSUME FulfillmentInv, CoverInv, NEW t \in Requests, CommitAllocation(t)
    PROVE  CoverInv'
<1>1. /\ tx[t].pc = "peek" /\ tx[t].op = "allocate" /\ Close(t)
      /\ fulfillment' = [fulfillment EXCEPT ![tx[t].order] = tx[t].fulfillment]
  BY DEF CommitAllocation
<1>2. tx[t].order \in Orders /\ RowCovers(OrderLines[tx[t].order], tx[t].fulfillment)
  BY <1>1 DEF FulfillmentInv, TxOK, CoverInv, TxCovers
<1> QED
  BY <1>1, <1>2, RowChangedCovers

LEMMA ShipmentCovers ==
    ASSUME FulfillmentInv, CoverInv, NEW t \in Requests, CommitShipment(t)
    PROVE  CoverInv'
<1>1. PICK o : o = tx[t].order
  OBVIOUS
<1>2. /\ tx[t].pc = "peek" /\ tx[t].op = "ship" /\ Close(t)
      /\ fulfillment[o].version = tx[t].fulfillment.version
      /\ fulfillment' = [fulfillment EXCEPT ![o].status = "SHIPPED",
                                            ![o].version = @ + 1]
  BY <1>1 DEF CommitShipment
<1>3. TxOK(t) /\ TxCovers(tx[t])
  BY DEF FulfillmentInv, CoverInv
<1>4. /\ o \in Orders /\ fulfillment[o] # NoFulfillment
      /\ tx[t].fulfillment = fulfillment[o]
  BY <1>1, <1>2, <1>3 DEF TxOK
<1>5. ~HasOpenBackorder(fulfillment[o])
  BY <1>2, <1>3, <1>4 DEF TxCovers
<1>6. PICK g : g = fulfillment[o]
  OBVIOUS
<1>7. PICK f : f = [g EXCEPT !.status = "SHIPPED", !.version = @ + 1]
  OBVIOUS
<1>8. IsRow(g) /\ RowCovers(OrderLines[o], g)
  BY <1>4, <1>6 DEF FulfillmentInv, CoverInv
<1>9. f.status = "SHIPPED" /\ f.items = g.items /\ f.backorders = g.backorders
  BY <1>7, <1>8 DEF IsRow, RowFields
<1>10. RowCovers(OrderLines[o], f)
  BY <1>5, <1>6, <1>8, <1>9 DEF RowCovers, HasOpenBackorder
<1>11. fulfillment' = [fulfillment EXCEPT ![o] = f]
  BY <1>2, <1>6, <1>7
<1> QED
  BY <1>2, <1>4, <1>10, <1>11, RowChangedCovers

LEMMA AbortCovers ==
    ASSUME FulfillmentInv, CoverInv, NEW t \in Requests, Abort(t)
    PROVE  CoverInv'
<1>1. tx' = [tx EXCEPT ![t] = Idle] /\ fulfillment' = fulfillment
  BY DEF Abort, Close, db
<1>2. TxCovers(Idle)
  BY IdleTx DEF TxCovers
<1> QED
  BY <1>1, <1>2, OneMoreCovers

LEMMA UntouchedCovers ==
    ASSUME CoverInv, tx' = tx, fulfillment' = fulfillment PROVE CoverInv'
BY DEF CoverInv, TxCovers, RowCovers, HasOpenBackorder

LEMMA CoverStays ==
    ASSUME FulfillmentConstants, OverridesNameOnce, FulfillmentInv, StockInv, CoverInv,
           [Next]_vars
    PROVE  CoverInv'
<1>1. TypeInv
  BY DEF StockInv
<1>2. ASSUME NEW t \in Requests, Staff(t) PROVE CoverInv'
  <2>1. ASSUME NEW o \in Orders, AcceptSuggestedSplit(t, o) \/ OverrideSplit(t, o)
        PROVE  CoverInv'
    BY <1>1, <2>1, BeginningCovers
  <2>2. ASSUME NEW o \in Orders, MarkShipped(t, o) PROVE CoverInv'
    BY <2>2, ShippingCovers
  <2>3. ASSUME CreateFulfillment(t) \/ Peek(t) \/ WriteStock(t) PROVE CoverInv'
    BY <2>3, WritingCovers
  <2>4. CASE CommitAllocation(t)
    BY <2>4, CommitCovers
  <2>5. CASE CommitShipment(t)
    BY <2>5, ShipmentCovers
  <2>6. CASE Abort(t)
    BY <2>6, AbortCovers
  <2> QED
    BY <1>2, <2>1, <2>2, <2>3, <2>4, <2>5, <2>6 DEF Staff
<1>3. ASSUME Admin PROVE CoverInv'
  <2>1. tx' = tx /\ fulfillment' = fulfillment
    BY <1>3 DEF Admin, CreateStock, UpdateStock, ImportStock, Save
  <2> QED
    BY <2>1, UntouchedCovers
<1>4. ASSUME NEW r \in Rows, DeleteStock(r) PROVE CoverInv'
  BY <1>4, UntouchedCovers DEF DeleteStock
<1>5. ASSUME NEW o \in Orders, LateDecision(o) \/ ConfirmAgain(o) PROVE CoverInv'
  BY <1>5, UntouchedCovers DEF LateDecision, ConfirmAgain
<1>6. CASE UNCHANGED vars
  BY <1>6, UntouchedCovers DEF vars
<1> QED
  BY <1>2, <1>3, <1>4, <1>5, <1>6 DEF Next

(* allocate-stock.ts, persistAllocation, markShipped: every unit ordered   *)
(* is in an item of its line or in its backorder, whatever splits were     *)
(* accepted or typed in (each naming a warehouse once) and however the     *)
(* requests, the stock screens and late decisions interleave.              *)
THEOREM EveryLineCovered ==
    ASSUME FulfillmentConstants, OverridesNameOnce PROVE Spec => []LinesAreCovered
<1>1. Init => FulfillmentInv /\ StockInv /\ CoverInv
  BY StartsRight, StartsTyped, CoverStarts
<1>2. FulfillmentInv /\ StockInv /\ [Next]_vars => FulfillmentInv' /\ StockInv'
  BY StaysRight, StockStays
<1>3. FulfillmentInv /\ StockInv /\ CoverInv /\ [Next]_vars => CoverInv'
  BY CoverStays
<1>4. CoverInv => LinesAreCovered
  BY DEF CoverInv, LinesAreCovered, RowCovers, Covered
<1> QED
  BY <1>1, <1>2, <1>3, <1>4, PTL DEF Spec
=============================================================================
