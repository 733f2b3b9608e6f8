------------------------------ MODULE Payments ------------------------------
(***************************************************************************)
(* Invoices and the payments recorded against them.  A payment is sent     *)
(* with an idempotency key, under which a caller may send it again when no *)
(* answer came; the finance page never does, it draws a key per press      *)
(* (invoices/page.tsx, 135).  Each request is one transaction at READ      *)
(* COMMITTED:                                                              *)
(*                                                                         *)
(*   read    the invoice with its payments,                                *)
(*   check   whether the key is known already, then the invoice's status,  *)
(*   insert  the payment; the key is unique over all invoices,             *)
(*   commit  with the status that follows from what read saw.              *)
(*                                                                         *)
(* Amounts are whole cents; currency, method and audit are left out.       *)
(***************************************************************************)
EXTENDS Integers, Sequences, Functions

CONSTANTS Invoices, Keys,
          Submission,   \* Submission[k] = [invoice, amount] the form sends
          LinesOf,      \* LinesOf[i]: the [quantity, unitPrice] typed in
          Requests,
          MaxFailures   \* bound on lost connections and lost answers

ASSUME SubmissionAssumption ==
    Keys # {} /\ Submission \in [Keys -> [invoice : Invoices, amount : Nat]]

(* The schemas take no negative amount, quantity or price.                 *)
Line == [quantity : Nat, unitPrice : Nat]

ASSUME LinesAssumption ==
    /\ LinesOf \in [Invoices -> Seq(Line)]
    /\ MaxFailures \in Nat

VARIABLES invoice,   \* invoice[i] = [status, total, version]
          payments,  \* the rows of Payment, oldest first
          answered,  \* the keys whose form was told the payment is recorded
          req,       \* req[t]: what a request has read
          failures   \* how many connections and answers were lost

db   == <<invoice, payments>>
vars == <<invoice, payments, answered, req, failures>>

(* No operation makes an invoice VOID or CREDITED; the reference invoice   *)
(* that a cancellation may write for its credit note is left out.          *)
Statuses == {"NONE", "ISSUED", "PARTIALLY_PAID", "PAID"}

Payment == [key : Keys, invoice : Invoices, amount : Nat]

Request == [pc : {"idle", "read", "new", "inserted"}, key : Keys,
            total : Nat, paid : Nat]

Idle == [pc |-> "idle", key |-> CHOOSE k \in Keys : TRUE, total |-> 0, paid |-> 0]

TypeOK == /\ invoice \in [Invoices ->
                [status : Statuses, total : Nat, version : Nat]]
          /\ payments \in Seq(Payment)
          /\ answered \subseteq Keys
          /\ req \in [Requests -> Request]
          /\ failures \in 0 .. MaxFailures

Init == /\ invoice = [i \in Invoices |->
                        [status |-> "NONE", total |-> 0, version |-> 1]]
        /\ payments = << >>
        /\ answered = {}
        /\ req = [t \in Requests |-> Idle]
        /\ failures = 0

PaymentsOf(i) == {n \in DOMAIN payments : payments[n].invoice = i}

Paid(i) == SumFunctionOnSet([n \in DOMAIN payments |-> payments[n].amount],
                            PaymentsOf(i))

TotalOf(lines) == SumFunction([n \in DOMAIN lines |->
                                  lines[n].quantity * lines[n].unitPrice])

KeyKnown(k) == \E n \in DOMAIN payments : payments[n].key = k

(* Fault: an invoice is paid as soon as something was paid.                *)
StatusOfAnyPayment(total, paid) == IF paid > 0 THEN "PAID" ELSE "ISSUED"

DeriveStatusFromPayments(total, paid) ==
    IF paid >= total THEN "PAID"
    ELSE IF paid > 0 THEN "PARTIALLY_PAID" ELSE "ISSUED"

(* Fault: the status keeps the column's default.                           *)
CreateDraft(i) ==
    /\ invoice[i].status = "NONE"
    /\ invoice' = [invoice EXCEPT ![i].status = "DRAFT"]
    /\ UNCHANGED <<payments, answered, req, failures>>

Create(i) ==
    /\ invoice[i].status = "NONE"
    /\ invoice' = [invoice EXCEPT ![i] =
            [status |-> "ISSUED", total |-> TotalOf(LinesOf[i]), version |-> @.version]]
    /\ UNCHANGED <<payments, answered, req, failures>>

(* The payment of key k is sent, for the first time or once more.          *)
Read(t, k) ==
    LET i == Submission[k].invoice
    IN  /\ req[t].pc = "idle" /\ k \notin answered
        /\ invoice[i].status # "NONE"
        /\ req' = [req EXCEPT ![t] = [pc |-> "read", key |-> k,
                                      total |-> invoice[i].total, paid |-> Paid(i)]]
        /\ UNCHANGED <<invoice, payments, answered, failures>>

Close(t) == req' = [req EXCEPT ![t] = Idle]

AlreadyRecorded(t) ==
    /\ req[t].pc = "read" /\ KeyKnown(req[t].key)
    /\ answered' = answered \union {req[t].key}
    /\ Close(t) /\ UNCHANGED <<db, failures>>

Check(t) ==
    /\ req[t].pc = "read" /\ ~KeyKnown(req[t].key)
    /\ req' = [req EXCEPT ![t].pc = "new"]
    /\ UNCHANGED <<invoice, payments, answered, failures>>

(* Fault: nothing keeps the key unique.                                    *)
InsertAgain(t) ==
    /\ req[t].pc = "new"
    /\ req' = [req EXCEPT ![t].pc = "inserted"]
    /\ UNCHANGED <<invoice, payments, answered, failures>>

(* Fault: the check locks the key, in a mode that two requests may share.  *)
InsertUnderShared(t) ==
    LET k == req[t].key
    IN  /\ req[t].pc = "new" /\ ~KeyKnown(k)
        /\ \A u \in Requests \ {t} : ~(req[u].pc \in {"new", "inserted"} /\ req[u].key = k)
        /\ req' = [req EXCEPT ![t].pc = "inserted"]
        /\ UNCHANGED <<invoice, payments, answered, failures>>

(* Another request's uncommitted row with this key is waited for.          *)
Insert(t) ==
    LET k == req[t].key
    IN  /\ req[t].pc = "new" /\ ~KeyKnown(k)
        /\ \A u \in Requests : ~(req[u].pc = "inserted" /\ req[u].key = k)
        /\ req' = [req EXCEPT ![t].pc = "inserted"]
        /\ UNCHANGED <<invoice, payments, answered, failures>>

Row(k) == [key |-> k, invoice |-> Submission[k].invoice,
           amount |-> Submission[k].amount]

(* The update names the invoice by id alone: a status another request has  *)
(* written since Read is overwritten.                                      *)
Record(t) ==
    LET k == req[t].key
        i == Submission[k].invoice
    IN  /\ payments' = Append(payments, Row(k))
        /\ invoice' = [invoice EXCEPT ![i] =
              [status  |-> DeriveStatusFromPayments(req[t].total,
                               req[t].paid + Submission[k].amount),
               total   |-> @.total,
               version |-> @.version + 1]]

Answer(t) == answered' = answered \union {req[t].key} /\ UNCHANGED failures

Fail == failures < MaxFailures /\ failures' = failures + 1

(* The answer may be lost on its way.                                      *)
Commit(t) ==
    /\ req[t].pc = "inserted"
    /\ Record(t) /\ Close(t)
    /\ Answer(t) \/ (Fail /\ UNCHANGED answered)

(* The other request's row was committed first.                            *)
DuplicateKey(t) ==
    /\ req[t].pc = "new" /\ KeyKnown(req[t].key)
    /\ Close(t) /\ UNCHANGED <<db, answered, failures>>

(* Fault: the form is told before the transaction has committed.           *)
AbortAnswered(t) ==
    /\ req[t].pc # "idle" /\ Fail
    /\ answered' = answered \union {req[t].key}
    /\ Close(t) /\ UNCHANGED db

Abort(t) == req[t].pc # "idle" /\ Fail /\ Close(t) /\ UNCHANGED <<db, answered>>

Serve(t) == \/ AlreadyRecorded(t) \/ Check(t)
            \/ Insert(t) \/ DuplicateKey(t) \/ Commit(t)

Next == \/ \E i \in Invoices : Create(i)
        \/ \E t \in Requests : \/ \E k \in Keys : Read(t, k)
                                \/ Serve(t)
                                \/ Abort(t)

Spec == Init /\ [][Next]_vars

(* The server works on what it was sent; that anything is sent, for the    *)
(* first time or once more, is up to the users.                            *)
Fairness == \A t \in Requests : WF_vars(Serve(t))

FairSpec == Spec /\ Fairness

(***************************************************************************)
(* Properties                                                              *)
(***************************************************************************)
(* However often a form is sent, its payment is recorded at most once, on  *)
(* the invoice and with the amount it named (recordPayment, 159-164).      *)
KeyRecordedOnce ==
    \A m, n \in DOMAIN payments :
        /\ payments[m] = Row(payments[m].key)
        /\ payments[m].key = payments[n].key => m = n

(* Who was told that the payment is recorded finds it recorded, also when  *)
(* the answer came from another attempt or another request.                *)
AnsweredIsRecorded == \A k \in answered : KeyKnown(k)

(* So a form may be sent until it is answered: its payment is recorded     *)
(* once, and an answer tells the truth.                                    *)
SentUntilAnswered == KeyRecordedOnce /\ AnsweredIsRecorded

(* An invoice shown as paid is paid: requests that derive the status from  *)
(* payments read too early can only know of too little money.              *)
PaidIsCovered ==
    \A i \in Invoices : invoice[i].status = "PAID" => Paid(i) >= invoice[i].total

InvoicesInv == TypeOK /\ PaidIsCovered

(* A payment that was sent is recorded in the end, by this request or by   *)
(* another with its key that this one waited for, unless a connection is   *)
(* lost meanwhile: requests with one key never wait for each other, nor    *)
(* does each leave the payment to the other.                               *)
SentIsRecorded ==
    \A k \in Keys, f \in 0 .. MaxFailures :
        (failures = f /\ \E t \in Requests : req[t].pc # "idle" /\ req[t].key = k)
            ~> (KeyKnown(k) \/ failures > f)
=============================================================================
