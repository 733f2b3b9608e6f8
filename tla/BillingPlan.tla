---------------------------- MODULE BillingPlan -----------------------------
(***************************************************************************)
(* The billing plan of an order: its one-time lines become one invoice,    *)
(* each recurring line a subscription with a schedule and an invoice of    *)
(* its own.  A request is one transaction at READ COMMITTED: it reads the  *)
(* quotation, looks whether anything was billed for it, and writes it all. *)
(* Finance may type in an invoice for the same quotation meanwhile.        *)
(***************************************************************************)
EXTENDS Naturals, Sequences, SequencesExt

CONSTANTS Quotations, Lines,
          Recurring,      \* the lines that are billed again and again
          LinesOf,        \* LinesOf[q]: the lines of a quotation
          Requests,
          MaxTyped        \* bound on the invoices Finance types in

VARIABLES subscriptions,  \* [quotation, line], with its schedule and invoice
          invoices,       \* [quotation, lines] of those of no subscription
          req,            \* req[t] = [pc, quotation]
          planned         \* quotations whose billing plan was returned

vars == <<subscriptions, invoices, req, planned>>

(* What an instance has to supply.                                         *)
PlanConstants ==
    /\ Quotations # {} /\ LinesOf \in [Quotations -> SUBSET Lines]
    /\ \A q \in Quotations : IsFiniteSet(LinesOf[q])

Request == [pc : {"idle", "read", "write"}, quotation : Quotations]

TypeOK == /\ subscriptions \in Seq([quotation : Quotations, line : Recurring])
          /\ invoices \in Seq([quotation : Quotations, lines : SUBSET Lines])
          /\ req \in [Requests -> Request]
          /\ planned \subseteq Quotations

Idle == [pc |-> "idle", quotation |-> CHOOSE q \in Quotations : TRUE]

Init == /\ subscriptions = << >> /\ invoices = << >>
        /\ req = [t \in Requests |-> Idle]
        /\ planned = {}

SubscriptionsOf(q) == {n \in DOMAIN subscriptions : subscriptions[n].quotation = q}
InvoicesOf(q)      == {n \in DOMAIN invoices : invoices[n].quotation = q}

OneTimeLines(q) == LinesOf[q] \ Recurring

RecurringLines(q) == LinesOf[q] \intersect Recurring

CreateFromQuotation(t, q) ==
    /\ req[t].pc = "idle"
    /\ req' = [req EXCEPT ![t] = [pc |-> "read", quotation |-> q]]
    /\ UNCHANGED <<subscriptions, invoices, planned>>

Billed(q) == SubscriptionsOf(q) # {} \/ InvoicesOf(q) # {}

ReturnExisting(t) ==
    /\ req[t].pc = "read" /\ Billed(req[t].quotation)
    /\ planned' = planned \union {req[t].quotation}
    /\ req' = [req EXCEPT ![t] = Idle]
    /\ UNCHANGED <<subscriptions, invoices>>

FindNothing(t) ==
    /\ req[t].pc = "read" /\ ~Billed(req[t].quotation)
    /\ req' = [req EXCEPT ![t].pc = "write"]
    /\ UNCHANGED <<subscriptions, invoices, planned>>

(* Fault: recurring lines are forgotten.                                   *)
CommitInvoiceOnly(t) ==
    LET q == req[t].quotation
    IN  /\ req[t].pc = "write"
        /\ invoices' = IF OneTimeLines(q) = {} THEN invoices
                       ELSE Append(invoices, [quotation |-> q, lines |-> OneTimeLines(q)])
        /\ planned' = planned \union {q}
        /\ req' = [req EXCEPT ![t] = Idle]
        /\ UNCHANGED subscriptions

(* The answer may be lost: the client asks again.                          *)
Commit(t) ==
    LET q == req[t].quotation
        subscribe(l) == [quotation |-> q, line |-> l]
    IN  /\ req[t].pc = "write"
        /\ invoices' = IF OneTimeLines(q) = {} THEN invoices
                       ELSE Append(invoices, [quotation |-> q, lines |-> OneTimeLines(q)])
        /\ subscriptions' = subscriptions \o
              SetToSeq({subscribe(l) : l \in RecurringLines(q)})
        /\ planned' \in {planned, planned \union {q}}
        /\ req' = [req EXCEPT ![t] = Idle]

Abort(t) == /\ req[t].pc # "idle"
            /\ req' = [req EXCEPT ![t] = Idle]
            /\ UNCHANGED <<subscriptions, invoices, planned>>

(* Finance's own invoice, with any lines, that names the quotation.        *)
TypeInvoice(q) ==
    /\ Len(SelectSeq(invoices, LAMBDA i : i.lines = {})) < MaxTyped
    /\ invoices' = Append(invoices, [quotation |-> q, lines |-> {}])
    /\ UNCHANGED <<subscriptions, req, planned>>

Next == \/ \E t \in Requests : \/ \E q \in Quotations : CreateFromQuotation(t, q)
                               \/ ReturnExisting(t) \/ FindNothing(t)
                               \/ Commit(t) \/ Abort(t)
        \/ \E q \in Quotations : TypeInvoice(q)

Spec == Init /\ [][Next]_vars

(***************************************************************************)
(* Properties                                                              *)
(***************************************************************************)
(* However often the plan is asked for, no line is billed twice (comment   *)
(* in createFromQuotation: check idempotency).                             *)
BilledOnce ==
    /\ IsInjective(subscriptions)
    /\ \A q \in Quotations : \A m, n \in InvoicesOf(q) :
          invoices[m].lines # {} /\ invoices[n].lines # {} => m = n

(* Who was given a billing plan finds every line of the order billed       *)
(* (architecture document, section 25), unless Finance typed in an invoice *)
(* for the order, which createFromQuotation takes for its plan (333-351).  *)
PlanIsComplete ==
    \A q \in planned :
        \/ \E n \in DOMAIN invoices :
              invoices[n] = [quotation |-> q, lines |-> {}]
        \/ /\ \A l \in RecurringLines(q) :
                \E n \in DOMAIN subscriptions :
                   subscriptions[n] = [quotation |-> q, line |-> l]
           /\ OneTimeLines(q) # {} =>
                \E n \in DOMAIN invoices :
                   invoices[n] = [quotation |-> q, lines |-> OneTimeLines(q)]
=============================================================================
