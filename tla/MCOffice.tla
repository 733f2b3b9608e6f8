------------------------------ MODULE MCOffice ------------------------------
(* Instances of what staff and customers do beside the quotations. Each part runs on its own; the      *)
(* parts share no row.                                                                                 *)
(*   advice   recommendations made, added and dismissed while the quotation is edited                  *)
(*   rules    discount rules and the steps of an approval rule, saved by two administrators            *)
(*   catalog  variants of a product and the rules of a price list, saved by two administrators         *)
(*   access   two tabs of a browser, first sign-ins, and an administrator of the accounts              *)
EXTENDS Recommendation

CONSTANTS DiscountRules, Targets, Ceilings, MaxWrites, Values, MaxSaves,
          Emails, Staff, Tabs, MaxTokens, MaxFaults

VARIABLES part,
          rule, policy, steps, txn, writes,
          active, variants, listed, rules, request, saves, beside,
          user, customers, tiers, session, made, cookie, tab, faults, unheard

Governance == INSTANCE Rules WITH Rules <- DiscountRules
Prices == INSTANCE Catalog
Entrance == INSTANCE Access

ASSUME OfficeAssumption == DiscountRules # {} /\ MaxSaves \in Nat /\ Entrance!AccessAssumption

ruleVars == <<rule, policy, steps, txn, writes>>
priceVars == <<active, variants, listed, rules, request, saves, beside>>
accessVars == <<user, customers, tiers, session, made, cookie, tab, faults, unheard>>

OfficeInit ==
  /\ part \in {"advice", "rules", "catalog", "access"}
  /\ Init /\ Governance!Init /\ Prices!Init /\ Entrance!Init
OfficeNext ==
  /\ UNCHANGED part
  /\ \/ part = "advice" /\ Next /\ UNCHANGED <<ruleVars, priceVars, accessVars>>
     \/ part = "rules" /\ Governance!Next /\ UNCHANGED <<vars, priceVars, accessVars>>
     \/ part = "catalog" /\ Prices!Next /\ UNCHANGED <<vars, ruleVars, accessVars>>
     \/ part = "access" /\ Entrance!Next /\ UNCHANGED <<vars, ruleVars, priceVars>>
OfficeSpec == OfficeInit /\ [][OfficeNext]_<<part, vars, ruleVars, priceVars, accessVars>>
OfficeFairSpec == OfficeSpec /\ (part = "advice" => Fairness)

(* At most one active rule stands for a tier or category, and the steps of the approval rule are those *)
(* of one save (Rules).                                                                                *)
RulesAreConsistent ==
  Governance!TypeOK /\ Governance!OneActiveCeiling /\ Governance!ChainIsOneSave
(* A save changes the fields of its form only (Rules).                                                 *)
OthersFieldsStay == Governance!OthersFieldsStay
(* A price is found under one rule at most, and the variants of a product are those of one save unless *)
(* saves overlapped (Catalog).                                                                         *)
CatalogIsConsistent ==
  Prices!TypeOK /\ Prices!PricesAreUnambiguous /\ Prices!VariantsAreOneSave
(* A first sign-in makes a customer and its user or nothing, and the sign-in form is in reach (Access).*)
ProvisionIsWhole == Entrance!TypeOK /\ Entrance!ProvisionIsWhole
TheFormIsInReach == Entrance!TheFormIsInReach
=============================================================================
