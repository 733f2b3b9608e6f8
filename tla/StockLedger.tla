---------------------------- MODULE StockLedger -----------------------------
(***************************************************************************)
(* What fulfilment promises about stock, whatever its transactions do: an  *)
(* order is allocated at most once, in one step, out of units that are     *)
(* free at that moment, and it ships exactly the units it holds.           *)
(*                                                                         *)
(* A row is one product in one warehouse; administrators may set a row to  *)
(* any figures in which what is reserved is available.                     *)
(***************************************************************************)
EXTENDS Naturals

CONSTANTS Orders, Rows,
          FirstUnits      \* FirstUnits[r]: available units of a row at the start

VARIABLES units,     \* units[r]   = [available, reserved]
          holding    \* holding[o] = [state, held], held[r] units of row r

ledger == <<units, holding>>

States == {"none", "held", "gone"}

Figures == {u \in [available : Nat, reserved : Nat] : u.reserved <= u.available}

LedgerInit ==
    /\ units = [r \in Rows |-> [available |-> FirstUnits[r], reserved |-> 0]]
    /\ holding = [o \in Orders |-> [state |-> "none", held |-> [r \in Rows |-> 0]]]

(* The units the order gets are whatever the new holding says.             *)
Hold(o) ==
    LET got == holding'[o].held
    IN  /\ holding[o].state = "none"
        /\ holding' \in [Orders -> [state : States, held : [Rows -> Nat]]]
        /\ holding' = [holding EXCEPT ![o] = [state |-> "held", held |-> got]]
        /\ \A r \in Rows : got[r] <= units[r].available - units[r].reserved
        /\ units' = [r \in Rows |->
              [units[r] EXCEPT !.reserved = @ + got[r]]]

Ship(o) ==
    LET held == holding[o].held
    IN  /\ holding[o].state = "held"
        /\ \A r \in Rows : held[r] <= units[r].reserved
        /\ holding' = [holding EXCEPT ![o].state = "gone"]
        /\ units' = [r \in Rows |->
              [available |-> units[r].available - held[r],
               reserved  |-> units[r].reserved - held[r]]]

Adjust ==
    /\ units' \in [Rows -> Figures]
    /\ UNCHANGED holding

LedgerNext == (\E o \in Orders : Hold(o) \/ Ship(o)) \/ Adjust

LedgerSpec == LedgerInit /\ [][LedgerNext]_ledger
=============================================================================
