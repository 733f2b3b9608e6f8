------------------------------ MODULE Catalog ------------------------------
(* The variants of one product and the rules of one price list, edited by several administrators.      *)
(*                                                                                                     *)
(* Saving a product deletes its variants and inserts those of the form, whatever changed. The foreign  *)
(* key of a price rule is set to null when its variant goes: a rule for the variant becomes the rule   *)
(* for the product. Transactions run at READ COMMITTED; a deletion takes the rows its statement found, *)
(* and waits for whoever holds them. What a transaction does after its last read is one step, which    *)
(* succeeds as a whole or not at all: others see nothing of it before, and whom it waited for is done. *)
EXTENDS Naturals, FiniteSets

CONSTANTS
  Requests, \* names for the transactions under way at once
  Values,   \* the attribute values variants are made for
  MaxSaves  \* bounds the operations begun

VARIABLES
  active,   \* whether the product is sold
  variants, \* the product's variants: <<save, value>>, named by the save that made them
  listed,   \* whether the price list of this tier and currency exists
  rules,    \* its rules: [scope, save], for a variant or for the whole product
  request,  \* the transactions
  saves,    \* the number of operations begun
  beside    \* saves of the product that ran beside another one (history)
vars == <<active, variants, listed, rules, request, saves, beside>>

Product == <<>>
Idle == [pc |-> "idle"]

Init ==
  /\ active = TRUE
  /\ variants = {0} \X Values
  /\ listed = FALSE
  /\ rules = {}
  /\ request = [r \in Requests |-> Idle]
  /\ saves = 0
  /\ beside = {}

Begin(r, q) ==
  /\ request[r] = Idle
  /\ saves < MaxSaves
  /\ saves' = saves + 1
  /\ request' = [request EXCEPT ![r] = q]
End(r) == request' = [request EXCEPT ![r] = Idle]

-----------------------------------------------------------------------------
(* Price lists.                                                                                        *)

\* A form with rules for the product or for variants that its page showed.
SavePriceList(r) ==
  /\ \E scopes \in SUBSET (variants \cup {Product}) :
       scopes # {} /\ Begin(r, [pc |-> "variants", scopes |-> scopes, save |-> saves + 1])
  /\ UNCHANGED <<active, variants, listed, rules, beside>>

\* The variants must exist.
CheckVariants(r) ==
  /\ request[r].pc = "variants"
  /\ IF request[r].scopes \ {Product} \subseteq variants
     THEN request' = [request EXCEPT ![r].pc = "overlap"]
     ELSE End(r)
  /\ UNCHANGED <<active, variants, listed, rules, saves, beside>>

\* A scope the list has already is refused.
CheckOverlap(r) ==
  /\ request[r].pc = "overlap"
  /\ IF request[r].scopes \cap {i.scope : i \in rules} = {}
     THEN request' = [request EXCEPT ![r] = [pc |-> "rules", scopes |-> @.scopes, save |-> @.save, found |-> listed]]
     ELSE End(r)
  /\ UNCHANGED <<active, variants, listed, rules, saves, beside>>

\* Fault: the index of the schema, for which nulls never clash.
ScopesClashIgnoringNull(rs) == \E i, j \in rs : i # j /\ i.scope = j.scope /\ i.scope # Product
\* The unique index over the rules of a list takes null for a scope like any other.
ScopesClash(rs) == \E i, j \in rs : i # j /\ i.scope = j.scope

\* The list is made, or its rules are added to. Keys and indexes decide what the reads could not: the
\* list was made meanwhile, a variant went, another save took a scope.
WriteRules(r) ==
  /\ request[r].pc = "rules"
  /\ LET q == request[r]
         next == rules \cup {[scope |-> s, save |-> q.save] : s \in q.scopes} IN
     IF /\ listed = q.found
        /\ q.scopes \ {Product} \subseteq variants
        /\ ~ScopesClash(next)
     THEN rules' = next /\ listed' = TRUE
     ELSE UNCHANGED <<rules, listed>>
  /\ End(r)
  /\ UNCHANGED <<active, variants, saves, beside>>

-----------------------------------------------------------------------------
(* The product.                                                                                        *)

\* The statement that deletes the variants finds those that are there now.
UpdateProduct(r) ==
  /\ \E values \in SUBSET Values, sold \in BOOLEAN :
       Begin(r, [pc |-> "product", found |-> variants, values |-> values, sold |-> sold, save |-> saves + 1])
  /\ LET others == {request[o].save : o \in {x \in Requests : request[x].pc = "product"}} IN
     beside' = beside \cup others \cup (IF others = {} THEN {} ELSE {saves + 1})
  /\ UNCHANGED <<active, variants, listed, rules>>

\* Fault: the variants of the form are added to those there are.
ReplacedNone(q) == variants \cup ({q.save} \X q.values)
\* What it found goes, its rules fall to the product, and the form's variants are inserted.
Unscoped(rs, gone) ==
  {[i EXCEPT !.scope = IF i.scope \in gone THEN Product ELSE @] : i \in rs}
Replaced(q) == (variants \ q.found) \cup ({q.save} \X q.values)

WriteProduct(r) ==
  /\ request[r].pc = "product"
  /\ LET q == request[r]
         next == Unscoped(rules, q.found) IN
     IF ScopesClash(next) THEN UNCHANGED <<active, variants, rules>>
     ELSE /\ rules' = next
          /\ variants' = Replaced(q)
          /\ active' = q.sold
  /\ End(r)
  /\ UNCHANGED <<listed, saves, beside>>

\* A product is retired, never deleted.
DeleteProduct ==
  /\ active
  /\ saves < MaxSaves
  /\ saves' = saves + 1
  /\ active' = FALSE
  /\ UNCHANGED <<variants, listed, rules, request, beside>>

\* A deadlock or a lost connection: nothing is written.
Abort(r) ==
  /\ request[r] # Idle
  /\ End(r)
  /\ UNCHANGED <<active, variants, listed, rules, saves, beside>>

Next ==
  \/ \E r \in Requests :
       \/ SavePriceList(r) \/ CheckVariants(r) \/ CheckOverlap(r) \/ WriteRules(r)
       \/ UpdateProduct(r) \/ WriteProduct(r) \/ Abort(r)
  \/ DeleteProduct
Spec == Init /\ [][Next]_vars

-----------------------------------------------------------------------------
\* The rules a variant, or the product without one, may be priced by: its own before the product's.
ResolvePrice(v) ==
  LET own == {i \in rules : i.scope = v} IN
  IF ~active THEN {} ELSE IF own # {} THEN own ELSE {i \in rules : i.scope = Product}

TypeOK ==
  /\ variants \subseteq (0..MaxSaves) \X Values
  /\ rules \subseteq [scope : ((0..MaxSaves) \X Values) \cup {Product}, save : 1..MaxSaves]
  /\ active \in BOOLEAN /\ listed \in BOOLEAN
  /\ saves \in 0..MaxSaves

\* Whatever saves of the list and of the product run at once, and although a rule may lose its variant,
\* a price is found under one rule at most, and never under a rule for a variant that is gone: it does
\* not depend on the order in which the database returns the rules.
PricesAreUnambiguous ==
  /\ \A v \in variants \cup {Product} : Cardinality(ResolvePrice(v)) <= 1
  /\ \A i \in rules : i.scope \in variants \cup {Product}

\* The variants of a product come from one form, although forms of several administrators are saved
\* one after the other: those of two forms stand together only if one save began to delete while the
\* other was under way. Then neither deletes what the other inserts.
VariantsAreOneSave ==
  \A v, w \in variants : v[1] # w[1] => {v[1], w[1]} \subseteq beside
=============================================================================
