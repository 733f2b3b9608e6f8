---------------------------- MODULE Fulfillment -----------------------------
(***************************************************************************)
(* Allocation and shipping of confirmed orders, with the stock screens of  *)
(* the administrators beside them.  Each request is one transaction at     *)
(* READ COMMITTED, several statements long:                                *)
(*                                                                         *)
(*   read    the order, its lines or its fulfillment, and the stock;       *)
(*   create  the Fulfillment row (unique per order);                       *)
(*   peek    the version of the next stock row, then                       *)
(*   write   that row, on condition of that version, keeping its lock;     *)
(*   commit  after the conditional writes of fulfillment and quotation.    *)
(*                                                                         *)
(* Writes are visible to the others at commit.  A failed check, a          *)
(* constraint, a deadlock victim, a timeout: Abort rolls all of it back.   *)
(***************************************************************************)
EXTENDS Allocation

CONSTANTS Orders, Warehouses, Products,
          Requests,            \* transactions that may be in flight together
          OrderLines,          \* OrderLines[o]: the lines of an order
          FirstStock,          \* FirstStock[r]: the stock rows at the start
          Overrides,           \* splits the operations staff may type in
          StockForms,          \* [available, reserved] administrators may save
          MaxVersion           \* bound on versions; allocating and shipping pass it

Rows == Warehouses \X Products

NoRow == [exists |-> FALSE, available |-> 0, reserved |-> 0, version |-> 1]

StockRow == [exists : BOOLEAN, available : Nat, reserved : Nat, version : Nat]

Item == [line : Nat, row : Rows, qty : Nat]

FulfillmentStatuses == {"NONE", "ALLOCATED", "PARTIALLY_ALLOCATED",
                        "BACKORDERED", "SHIPPED"}

(* NONE stands for an order without a Fulfillment row.                     *)
FulfillmentRow == [status : FulfillmentStatuses, version : Nat,
                   items : Seq(Item), backorders : Seq(Nat)]

OrderStatuses == {"CONFIRMED", "FULFILLMENT", "BILLING", "SENT_TO_CUSTOMER"}

(* What an instance has to supply.  The stock starts with nothing          *)
(* reserved and at version 1 or later; the schemas take no negative        *)
(* quantity.                                                               *)
FulfillmentConstants ==
    /\ IsFiniteSet(Orders) /\ Orders # {} /\ IsFiniteSet(Warehouses)
    /\ OrderLines \in [Orders -> Seq([product : Products, qty : Nat])]
    /\ FirstStock \in [Rows -> StockRow]
    /\ \A r \in Rows : FirstStock[r].reserved = 0 /\ FirstStock[r].version >= 1
    /\ Overrides \subseteq Seq([warehouse : Warehouses, qty : Nat])
    /\ StockForms \subseteq [available : Nat, reserved : Nat]
    /\ MaxVersion \in Nat

VARIABLES stock,        \* stock[r]: WarehouseStock
          order,        \* order[o]: status and version of the quotation
          fulfillment,  \* fulfillment[o]
          tx            \* tx[t]: what a request has read and written so far

db   == <<stock, order, fulfillment>>
vars == <<stock, order, fulfillment, tx>>

Tx == [pc : {"idle", "create", "peek", "write"}, op : {"allocate", "ship"},
       order : Orders, seen : Nat, fulfillment : FulfillmentRow,
       next : Nat, peeked : Nat]

NoFulfillment == [status |-> "NONE", version |-> 1,
                  items |-> << >>, backorders |-> << >>]

Idle == [pc |-> "idle", op |-> "allocate", order |-> CHOOSE o \in Orders : TRUE,
         seen |-> 0, fulfillment |-> NoFulfillment, next |-> 1, peeked |-> 0]

TypeOK == /\ stock \in [Rows -> StockRow]
          /\ order \in [Orders -> [status : OrderStatuses, version : Nat]]
          /\ fulfillment \in [Orders -> FulfillmentRow]
          /\ tx \in [Requests -> Tx]

Init == /\ stock = FirstStock
        /\ order = [o \in Orders |-> [status |-> "CONFIRMED", version |-> 1]]
        /\ fulfillment = [o \in Orders |-> NoFulfillment]
        /\ tx = [t \in Requests |-> Idle]

Free(r) == stock[r].available - stock[r].reserved

FreeByWarehouse(p) == [w \in Warehouses |-> Free(<<w, p>>)]

HasOpenBackorder(f) == \E i \in DOMAIN f.backorders : f.backorders[i] > 0

(* Fault: a partial allocation is called complete.                        *)
StatusOfItemsOnly(items, short) ==
    IF items = << >> THEN "BACKORDERED" ELSE "ALLOCATED"

StatusOf(items, short) ==
    IF short = 0 THEN "ALLOCATED"
    ELSE IF items = << >> THEN "BACKORDERED" ELSE "PARTIALLY_ALLOCATED"

(***************************************************************************)
(* Reads                                                                   *)
(***************************************************************************)
MayAllocate(o) == order[o].status = "CONFIRMED" /\ fulfillment[o] = NoFulfillment

(* decided[p] is the sequence of splits for product p, short[p] what they  *)
(* leave uncovered.                                                        *)
PlannedRow(o, decided, short) ==
    LET lines == OrderLines[o]
        items == AllItems(lines, decided)
    IN  [status |-> StatusOf(items, SumFunction(short)), version |-> 1,
         items |-> items, backorders |-> Backorders(lines, decided, short)]

BeginAllocation(t, o, decided, short) ==
    /\ tx[t].pc = "idle"
    /\ MayAllocate(o)
    /\ tx' = [tx EXCEPT ![t] =
         [pc |-> "create", op |-> "allocate", order |-> o,
          seen |-> order[o].version,
          fulfillment |-> PlannedRow(o, decided, short),
          next |-> 1, peeked |-> 0]]
    /\ UNCHANGED db

(* Each product is spread over the warehouses as the screen suggested.     *)
Suggestions(o) ==
    LET lines   == OrderLines[o]
        ps      == ProductsOf(lines)
        some(p) == Splits(Ordered(lines, p), FreeByWarehouse(p))
    IN  {decided \in [ps -> UNION {some(p) : p \in ps}] :
            \A p \in ps : decided[p] \in some(p)}

AcceptSuggestedSplit(t, o) ==
    \E decided \in Suggestions(o) :
        BeginAllocation(t, o, decided,
            [p \in DOMAIN decided |->
                Shortfall(Ordered(OrderLines[o], p), decided[p])])

(* Each typed split is checked against the free stock by itself.           *)
OverrideSplit(t, o) ==
    LET lines == OrderLines[o]
        ps    == ProductsOf(lines)
    IN  \E p \in ps, splits \in Overrides :
          /\ ps = {p}
          /\ Total(splits) = Ordered(lines, p)
          /\ \A i \in DOMAIN splits :
                LET r == <<splits[i].warehouse, p>>
                IN  stock[r].exists /\ splits[i].qty <= Free(r)
          /\ BeginAllocation(t, o, [q \in ps |-> splits], [q \in ps |-> 0])

MarkShipped(t, o) ==
    /\ tx[t].pc = "idle"
    /\ fulfillment[o].status \notin {"NONE", "SHIPPED"}
    /\ ~HasOpenBackorder(fulfillment[o])
    /\ tx' = [tx EXCEPT ![t] =
         [pc |-> "peek", op |-> "ship", order |-> o,
          seen |-> order[o].version, fulfillment |-> fulfillment[o],
          next |-> 1, peeked |-> 0]]
    /\ UNCHANGED db

(***************************************************************************)
(* Writes                                                                  *)
(***************************************************************************)
Begun(t, o) == tx[t].op = "allocate" /\ tx[t].order = o
                /\ tx[t].pc \in {"peek", "write"}

(* Another request's uncommitted row of the same order is waited for, a    *)
(* committed one violates the unique key.                                  *)
CreateFulfillment(t) ==
    LET o == tx[t].order
    IN  /\ tx[t].pc = "create"
        /\ fulfillment[o] = NoFulfillment
        /\ \A u \in Requests : ~Begun(u, o)
        /\ tx' = [tx EXCEPT ![t].pc = "peek"]
        /\ UNCHANGED db

NextItem(t) == tx[t].fulfillment.items[tx[t].next]

Written(t) == {i \in DOMAIN tx[t].fulfillment.items : i < tx[t].next}

ItemsLeft(t) == tx[t].next <= Len(tx[t].fulfillment.items)

(* Rows a request has written stay locked until it ends.                   *)
Holds(t, r) == /\ tx[t].pc # "idle"
               /\ \E i \in Written(t) : tx[t].fulfillment.items[i].row = r

Unlocked(r) == \A t \in Requests : ~Holds(t, r)

Peek(t) ==
    /\ tx[t].pc = "peek" /\ ItemsLeft(t)
    /\ stock[NextItem(t).row].exists
    /\ tx' = [tx EXCEPT ![t].pc = "write",
                        ![t].peeked = stock[NextItem(t).row].version]
    /\ UNCHANGED db

(* Fault: reserved <= available is not checked.                           *)
RowFitsUnchecked(t) ==
    LET it == NextItem(t)
    IN  tx[t].op = "allocate" \/ it.qty <= stock[it.row].reserved

(* The row's figures are checked by the table: reserved <= available when  *)
(* reserving, nothing negative when shipping.  A second reservation of the *)
(* same row violates StockReservation's unique key.                        *)
RowFits(t) ==
    LET it == NextItem(t)
    IN  IF tx[t].op = "allocate" THEN it.qty <= Free(it.row)
                                 ELSE it.qty <= stock[it.row].reserved

WriteStock(t) ==
    LET r == NextItem(t).row
    IN  /\ tx[t].pc = "write"
        /\ Unlocked(r)
        /\ stock[r].exists /\ stock[r].version = tx[t].peeked
        /\ RowFits(t)
        /\ tx' = [tx EXCEPT ![t].pc = "peek", ![t].next = @ + 1]
        /\ UNCHANGED db

UnitsOf(f, r) ==
    SumFunctionOnSet([i \in DOMAIN f.items |-> f.items[i].qty],
                     {i \in DOMAIN f.items : f.items[i].row = r})

Reserve(f) ==
    [r \in Rows |-> IF UnitsOf(f, r) = 0 THEN stock[r] ELSE
        [stock[r] EXCEPT !.reserved = @ + UnitsOf(f, r), !.version = @ + 1]]

(* Fault: the units that left stay available.                             *)
DeliverReservedOnly(f) ==
    [r \in Rows |-> IF UnitsOf(f, r) = 0 THEN stock[r] ELSE
        [stock[r] EXCEPT !.reserved = @ - UnitsOf(f, r), !.version = @ + 1]]

(* Fault: the units that left stay reserved.                              *)
DeliverReservedKept(f) ==
    [r \in Rows |-> IF UnitsOf(f, r) = 0 THEN stock[r] ELSE
        [stock[r] EXCEPT !.available = @ - UnitsOf(f, r), !.version = @ + 1]]

Deliver(f) ==
    [r \in Rows |-> IF UnitsOf(f, r) = 0 THEN stock[r] ELSE
        [stock[r] EXCEPT !.available = @ - UnitsOf(f, r),
                         !.reserved = @ - UnitsOf(f, r), !.version = @ + 1]]

Close(t) == tx' = [tx EXCEPT ![t] = Idle]

AdvanceOrder(t, status) ==
    LET o == tx[t].order
    IN  /\ order[o].version = tx[t].seen
        /\ order' = [order EXCEPT ![o] = [status |-> status, version |-> @.version + 1]]

(* Fault: the quotation's status is not advanced.                         *)
CommitAllocationOrderKept(t) ==
    LET f == tx[t].fulfillment
    IN  /\ tx[t].pc = "peek" /\ tx[t].op = "allocate" /\ ~ItemsLeft(t)
        /\ order[tx[t].order].version = tx[t].seen
        /\ fulfillment' = [fulfillment EXCEPT ![tx[t].order] = f]
        /\ stock' = Reserve(f)
        /\ Close(t) /\ UNCHANGED order

CommitAllocation(t) ==
    LET f == tx[t].fulfillment
    IN  /\ tx[t].pc = "peek" /\ tx[t].op = "allocate" /\ ~ItemsLeft(t)
        /\ AdvanceOrder(t, "FULFILLMENT")
        /\ fulfillment' = [fulfillment EXCEPT ![tx[t].order] = f]
        /\ stock' = Reserve(f)
        /\ Close(t)

(* Fault: a shipment conditional on no version.                           *)
CommitShipmentAgain(t) ==
    LET o == tx[t].order
        f == tx[t].fulfillment
    IN  /\ tx[t].pc = "peek" /\ tx[t].op = "ship" /\ ~ItemsLeft(t)
        /\ order' = [order EXCEPT ![o] = [status |-> "BILLING", version |-> @.version + 1]]
        /\ fulfillment' = [fulfillment EXCEPT ![o].status = "SHIPPED",
                                              ![o].version = @ + 1]
        /\ stock' = Deliver(f)
        /\ Close(t)

CommitShipment(t) ==
    LET o == tx[t].order
        f == tx[t].fulfillment
    IN  /\ tx[t].pc = "peek" /\ tx[t].op = "ship" /\ ~ItemsLeft(t)
        /\ fulfillment[o].version = f.version
        /\ AdvanceOrder(t, "BILLING")
        /\ fulfillment' = [fulfillment EXCEPT ![o].status = "SHIPPED",
                                              ![o].version = @ + 1]
        /\ stock' = Deliver(f)
        /\ Close(t)

Abort(t) == tx[t].pc # "idle" /\ Close(t) /\ UNCHANGED db

(***************************************************************************)
(* The stock screens.  They save absolute figures, look at no version and  *)
(* move none; an import saves several rows of a warehouse at once.         *)
(***************************************************************************)
Save(rows, fields, figures) ==
    LET new(r) == [f \in DOMAIN NoRow |->
                     IF f = "exists" THEN TRUE
                     ELSE IF f \in fields THEN figures[f] ELSE stock[r][f]]
    IN  /\ \A r \in rows : Unlocked(r) /\ new(r).reserved <= new(r).available
        /\ stock' = [r \in Rows |-> IF r \in rows THEN new(r) ELSE stock[r]]
        /\ UNCHANGED <<order, fulfillment, tx>>

Quantities == {"available", "reserved"}

CreateStock(r, figures) == ~stock[r].exists /\ Save({r}, Quantities, figures)

UpdateStock(r, fields, figures) ==
    stock[r].exists /\ fields # {} /\ Save({r}, fields, figures)

ImportStock(w, ps, figures) ==
    ps # {} /\ Save({w} \X ps, Quantities, figures)

(* A row with a reservation, shipped or not, is kept by its foreign key.   *)
(* A row created later has another id; the version stands for it here.     *)
DeleteStock(r) ==
    /\ stock[r].exists
    /\ Unlocked(r)
    /\ \A o \in Orders : UnitsOf(fulfillment[o], r) = 0
    /\ stock[r].version < MaxVersion
    /\ stock' = [stock EXCEPT ![r] = [NoRow EXCEPT !.version = stock[r].version + 1]]
    /\ UNCHANGED <<order, fulfillment, tx>>

(***************************************************************************)
(* The rest of the quotation's life: an approval step left over from an    *)
(* earlier version is decided, the customer confirms once more.            *)
(***************************************************************************)
LateDecision(o) ==
    /\ order[o].version < MaxVersion
    /\ order[o].status # "SENT_TO_CUSTOMER"
    /\ order' = [order EXCEPT ![o] = [status |-> "SENT_TO_CUSTOMER",
                                      version |-> @.version + 1]]
    /\ UNCHANGED <<stock, fulfillment, tx>>

ConfirmAgain(o) ==
    /\ order[o].version < MaxVersion
    /\ order[o].status = "SENT_TO_CUSTOMER"
    /\ order' = [order EXCEPT ![o] = [status |-> "CONFIRMED",
                                      version |-> @.version + 1]]
    /\ UNCHANGED <<stock, fulfillment, tx>>

Staff(t) == \/ \E o \in Orders : \/ AcceptSuggestedSplit(t, o)
                               \/ OverrideSplit(t, o)
                               \/ MarkShipped(t, o)
            \/ CreateFulfillment(t) \/ Peek(t) \/ WriteStock(t)
            \/ CommitAllocation(t) \/ CommitShipment(t)
            \/ Abort(t)

Admin == \E figures \in StockForms :
            \/ \E r \in Rows : CreateStock(r, figures)
            \/ \E r \in Rows, fields \in SUBSET Quantities :
                  UpdateStock(r, fields, figures)
            \/ \E w \in Warehouses, ps \in SUBSET Products :
                  ImportStock(w, ps, figures)

Next == \/ \E t \in Requests : Staff(t)
        \/ Admin
        \/ \E r \in Rows : DeleteStock(r)
        \/ \E o \in Orders : LateDecision(o) \/ ConfirmAgain(o)

Spec == Init /\ [][Next]_vars

(***************************************************************************)
(* Properties                                                              *)
(***************************************************************************)
Shipped(o) == fulfillment[o].status = "SHIPPED"

OrderUnits(r) == [o \in Orders |-> UnitsOf(fulfillment[o], r)]

Promised(r)  == SumFunctionOnSet(OrderUnits(r), {o \in Orders : ~Shipped(o)})
Delivered(r) == SumFunctionOnSet(OrderUnits(r), {o \in Orders : Shipped(o)})

(* As long as nobody types in stock figures, a row reserves the units that *)
(* allocated orders wait for, no more and no less, and its stock shrinks   *)
(* by exactly the units that were delivered: the increments of concurrent  *)
(* transactions, of which some roll back, neither get lost nor stay behind.*)
UnitsAreAccountedFor ==
    \A r \in Rows :
        /\ stock[r].reserved = Promised(r)
        /\ stock[r].available + Delivered(r) = FirstStock[r].available

(* Every unit ordered on a line of an allocated order is either in an item *)
(* of that line or in its backorder, whoever chose the warehouses, and the *)
(* status shown to staff says how much of the order is covered; what ships *)
(* owes nothing.                                                           *)
Covered(o, i) == CoveredBy(fulfillment[o].items, i)

LinesAreCovered ==
    \A o \in Orders : fulfillment[o] # NoFulfillment =>
        LET f == fulfillment[o]
        IN  /\ \A i \in DOMAIN OrderLines[o] :
                  OrderLines[o][i].qty = f.backorders[i] + Covered(o, i)
            /\ f.status \in {"ALLOCATED", "SHIPPED"} => ~HasOpenBackorder(f)
            /\ f.status = "PARTIALLY_ALLOCATED" =>
                  HasOpenBackorder(f) /\ f.items # << >>
            /\ f.status = "BACKORDERED" => f.items = << >>

(* The quotation's status and its fulfillment row move together.           *)
OrderFollowsFulfillment ==
    \A o \in Orders :
        order[o].status = CASE fulfillment[o] = NoFulfillment -> "CONFIRMED"
                            [] Shipped(o) -> "BILLING"
                            [] OTHER -> "FULFILLMENT"

(* What an order was allocated never changes, and a shipment is final: the *)
(* same units cannot leave twice.                                          *)
KeepsAllocations ==
    \A o \in Orders :
        /\ fulfillment[o] # NoFulfillment =>
              fulfillment'[o].items = fulfillment[o].items
        /\ Shipped(o) => fulfillment'[o] = fulfillment[o]

AllocationIsKept == [][KeepsAllocations]_vars

(* The transactions implement the ledger: each order takes, in one step,   *)
(* units that are free at that moment, and ships those.                    *)
Ledger == INSTANCE StockLedger WITH
    FirstUnits <- [r \in Rows |-> FirstStock[r].available],
    units <- [r \in Rows |-> [available |-> stock[r].available,
                             reserved |-> stock[r].reserved]],
    holding <- [o \in Orders |->
                  [state |-> IF fulfillment[o] = NoFulfillment THEN "none"
                             ELSE IF Shipped(o) THEN "gone" ELSE "held",
                   held |-> [r \in Rows |-> UnitsOf(fulfillment[o], r)]]]

LedgerSpec == Ledger!LedgerSpec
=============================================================================
