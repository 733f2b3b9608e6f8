--------------------------- MODULE Client_proofs ---------------------------
(***************************************************************************)
(* What the web client is told and what it shows.                          *)
(*                                                                         *)
(* A payment is recorded at most once, whoever was told so finds it        *)
(* recorded, and an invoice shown as paid is paid: for any invoices, forms *)
(* and number of requests in flight.  The unique key does it: from its     *)
(* insertion to its commit or roll-back a request is the only one to have  *)
(* inserted its key, and no committed row has it.                          *)
(*                                                                         *)
(* On every page, for any number of handlers under way, what is promised   *)
(* to be done to what was shown is done to that, no button is offered that *)
(* its route refuses, a draft takes effect once, and the page comes back   *)
(* to rest.                                                                *)
(***************************************************************************)
EXTENDS Payments, Screens, Sums


Pcs == {"idle", "read", "new", "inserted"}

(* A request, as far as keys matter.                                       *)
IsRequest(r) ==
    /\ r = [pc |-> r.pc, key |-> r.key, total |-> r.total, paid |-> r.paid]
    /\ r.pc \in Pcs /\ r.key \in Keys

InsertedIsNew ==
    \A t \in Requests : req[t].pc = "inserted" =>
        /\ ~KeyKnown(req[t].key)
        /\ \A u \in Requests :
              req[u].pc = "inserted" /\ req[u].key = req[t].key => u = t

PaymentsInv ==
    /\ payments \in Seq(Payment)
    /\ req = [t \in Requests |-> req[t]]
    /\ \A t \in Requests : IsRequest(req[t])
    /\ KeyRecordedOnce
    /\ AnsweredIsRecorded
    /\ InsertedIsNew

(* What a request becomes touches no other.                                *)
LEMMA RequestStep ==
    ASSUME PaymentsInv, NEW t \in Requests, NEW new,
           req' = [req EXCEPT ![t] = new]
    PROVE  /\ req' = [u \in Requests |-> req'[u]]
           /\ req'[t] = new
           /\ \A u \in Requests \ {t} : req'[u] = req[u]
BY DEF PaymentsInv

LEMMA RowType == ASSUME NEW k \in Keys
                 PROVE  Row(k) \in Payment /\ Row(k).key = k
BY SubmissionAssumption DEF SubmissionAssumption, Row, Payment

(* Steps that insert and commit nothing.                                   *)
LEMMA QuietStep ==
    ASSUME PaymentsInv, NEW t \in Requests, NEW new,
           req' = [req EXCEPT ![t] = new], IsRequest(new),
           new.pc # "inserted",
           payments' = payments,
           \A k \in answered' : k \in answered \/ KeyKnown(k)
    PROVE  PaymentsInv'
<1>1. /\ req' = [u \in Requests |-> req'[u]]
      /\ req'[t] = new
      /\ \A u \in Requests \ {t} : req'[u] = req[u]
  BY RequestStep
<1>2. \A u \in Requests : IsRequest(req'[u])
  BY <1>1 DEF PaymentsInv
<1>3. KeyRecordedOnce'
  BY DEF PaymentsInv, KeyRecordedOnce, Row
<1>4. AnsweredIsRecorded'
  BY DEF PaymentsInv, AnsweredIsRecorded, KeyKnown
<1>5. InsertedIsNew'
  BY <1>1 DEF PaymentsInv, InsertedIsNew, KeyKnown
<1> QED
  BY <1>1, <1>2, <1>3, <1>4, <1>5 DEF PaymentsInv, IsRequest

LEMMA IdleIsRequest == IsRequest(Idle)
BY SubmissionAssumption DEF SubmissionAssumption, IsRequest, Idle, Pcs

(* The unique key keeps a second request out.                              *)
LEMMA InsertStep ==
    ASSUME PaymentsInv, NEW t \in Requests, Insert(t)
    PROVE  PaymentsInv'
<1> DEFINE new == [req[t] EXCEPT !.pc = "inserted"]
<1>0. IsRequest(req[t])
  BY DEF PaymentsInv
<1>1. new = [pc |-> "inserted", key |-> req[t].key,
             total |-> req[t].total, paid |-> req[t].paid]
  BY <1>0 DEF IsRequest
<1>2. req' = [req EXCEPT ![t] = new]
  BY DEF Insert
<1>3. /\ req' = [u \in Requests |-> req'[u]]
      /\ req'[t] = new
      /\ \A u \in Requests \ {t} : req'[u] = req[u]
  BY <1>2, RequestStep
<1>4. IsRequest(new)
  BY <1>0, <1>1 DEF IsRequest, Pcs
<1>5. payments' = payments /\ answered' = answered
  BY DEF Insert
<1>6. ~KeyKnown(req[t].key) /\ \A u \in Requests :
         ~(req[u].pc = "inserted" /\ req[u].key = req[t].key)
  BY DEF Insert
<1>7. InsertedIsNew'
  BY <1>1, <1>3, <1>5, <1>6 DEF PaymentsInv, InsertedIsNew, KeyKnown
<1>8. KeyRecordedOnce' /\ AnsweredIsRecorded'
  BY <1>5 DEF PaymentsInv, KeyRecordedOnce, AnsweredIsRecorded, KeyKnown, Row
<1> QED
  BY <1>3, <1>4, <1>5, <1>7, <1>8 DEF PaymentsInv, IsRequest

(* The one request that inserted a key commits the only row that has it.   *)
LEMMA CommitStep ==
    ASSUME PaymentsInv, NEW t \in Requests, Commit(t)
    PROVE  PaymentsInv'
<1> DEFINE k == req[t].key
<1>0. IsRequest(req[t]) /\ req[t].pc = "inserted"
  BY DEF PaymentsInv, Commit
<1>1. k \in Keys
  BY <1>0 DEF IsRequest
<1>2. Row(k) \in Payment /\ Row(k).key = k
  BY <1>1, RowType
<1>3. payments' = Append(payments, Row(k)) /\ req' = [req EXCEPT ![t] = Idle]
  BY DEF Commit, Record, Close
<1>4. payments \in Seq(Payment)
  BY DEF PaymentsInv
<1>5. /\ payments' \in Seq(Payment)
      /\ DOMAIN payments' = DOMAIN payments \cup {Len(payments) + 1}
      /\ payments'[Len(payments) + 1] = Row(k)
      /\ \A n \in DOMAIN payments : payments'[n] = payments[n]
      /\ Len(payments) + 1 \notin DOMAIN payments
  BY <1>2, <1>3, <1>4
<1>6. /\ req' = [u \in Requests |-> req'[u]]
      /\ req'[t] = Idle
      /\ \A u \in Requests \ {t} : req'[u] = req[u]
  BY <1>3, RequestStep
<1>7. \A u \in Requests : IsRequest(req'[u])
  BY <1>1, <1>6, IdleIsRequest DEF PaymentsInv
<1>8. ~KeyKnown(k)
  BY <1>0 DEF PaymentsInv, InsertedIsNew
<1>9. KeyRecordedOnce'
  <2> SUFFICES ASSUME NEW m \in DOMAIN payments', NEW n \in DOMAIN payments'
               PROVE  /\ payments'[m] = Row(payments'[m].key)
                      /\ payments'[m].key = payments'[n].key => m = n
    BY DEF KeyRecordedOnce, Row
  <2>1. \A i \in DOMAIN payments : payments[i].key # k
    BY <1>8 DEF KeyKnown
  <2>2. payments'[m] = Row(payments'[m].key)
    BY <1>2, <1>5 DEF PaymentsInv, KeyRecordedOnce
  <2>3. payments'[m].key = payments'[n].key => m = n
    BY <1>2, <1>5, <2>1 DEF PaymentsInv, KeyRecordedOnce
  <2> QED
    BY <2>2, <2>3
<1>10. \A j \in Keys : KeyKnown(j)' <=> KeyKnown(j) \/ j = k
  BY <1>2, <1>5 DEF KeyKnown
<1>11. answered' \subseteq answered \cup {k}
  BY DEF Commit, Answer
<1>12. AnsweredIsRecorded'
  <2> SUFFICES ASSUME NEW j \in answered' PROVE KeyKnown(j)'
    BY DEF AnsweredIsRecorded
  <2>1. CASE j = k
    BY <1>1, <1>10, <2>1
  <2>2. CASE j \in answered
    BY <1>5, <2>2 DEF PaymentsInv, AnsweredIsRecorded, KeyKnown
  <2> QED
    BY <1>11, <2>1, <2>2
<1>13. InsertedIsNew'
  <2> SUFFICES ASSUME NEW u \in Requests, req'[u].pc = "inserted"
               PROVE  /\ ~KeyKnown(req[u].key)'
                      /\ \A v \in Requests :
                            req'[v].pc = "inserted" /\ req'[v].key = req'[u].key
                               => v = u
    BY DEF InsertedIsNew
  <2>1. u # t /\ req'[u] = req[u]
    BY <1>6 DEF Idle
  <2>2. req[u].key # k /\ req[u].key \in Keys /\ ~KeyKnown(req[u].key)
    BY <1>0, <2>1 DEF PaymentsInv, InsertedIsNew, IsRequest
  <2>3. ~KeyKnown(req[u].key)'
    BY <1>10, <2>1, <2>2
  <2>4. ASSUME NEW v \in Requests, req'[v].pc = "inserted",
               req'[v].key = req'[u].key
        PROVE  v = u
    <3>1. v # t /\ req'[v] = req[v]
      BY <1>6, <2>4 DEF Idle
    <3> QED
      BY <2>1, <2>4, <3>1 DEF PaymentsInv, InsertedIsNew
  <2> QED
    BY <2>3, <2>4
<1> QED
  BY <1>5, <1>6, <1>7, <1>9, <1>12, <1>13 DEF PaymentsInv

LEMMA NextPaymentsInv == PaymentsInv /\ [Next]_vars => PaymentsInv'
<1> SUFFICES ASSUME PaymentsInv, [Next]_vars PROVE PaymentsInv'
  OBVIOUS
<1>1. CASE \E i \in Invoices : Create(i)
  <2>1. payments' = payments /\ answered' = answered /\ req' = req
    BY <1>1 DEF Create
  <2> QED
    BY <2>1 DEF PaymentsInv, IsRequest, KeyRecordedOnce,
                AnsweredIsRecorded, InsertedIsNew, KeyKnown, Row
<1>2. ASSUME NEW t \in Requests, NEW k \in Keys, Read(t, k)
      PROVE  PaymentsInv'
  <2> DEFINE new == [pc |-> "read", key |-> k,
                     total |-> invoice[Submission[k].invoice].total,
                     paid |-> Paid(Submission[k].invoice)]
  <2>1. IsRequest(new) /\ new.pc # "inserted"
    BY DEF IsRequest, Pcs
  <2>2. /\ req' = [req EXCEPT ![t] = new]
        /\ payments' = payments /\ answered' = answered
    BY <1>2 DEF Read
  <2> QED
    BY <2>1, <2>2, QuietStep
<1>3. ASSUME NEW t \in Requests,
             AlreadyRecorded(t) \/ DuplicateKey(t) \/ Abort(t)
      PROVE  PaymentsInv'
  <2>1. IsRequest(Idle) /\ Idle.pc # "inserted"
    BY <1>3, IdleIsRequest DEF PaymentsInv, IsRequest, Idle
  <2>2. /\ req' = [req EXCEPT ![t] = Idle]
        /\ payments' = payments
        /\ \A k \in answered' : k \in answered \/ KeyKnown(k)
    BY <1>3 DEF AlreadyRecorded, DuplicateKey, Abort, Close, db
  <2> QED
    BY <2>1, <2>2, QuietStep
<1>4. ASSUME NEW t \in Requests, Check(t)
      PROVE  PaymentsInv'
  <2> DEFINE new == [req[t] EXCEPT !.pc = "new"]
  <2>1. new = [pc |-> "new", key |-> req[t].key,
               total |-> req[t].total, paid |-> req[t].paid]
    BY DEF PaymentsInv, IsRequest
  <2>2. IsRequest(new) /\ new.pc # "inserted"
    BY <2>1 DEF PaymentsInv, IsRequest, Pcs
  <2>3. /\ req' = [req EXCEPT ![t] = new]
        /\ payments' = payments /\ answered' = answered
    BY <1>4 DEF Check
  <2> QED
    BY <2>2, <2>3, QuietStep
<1>5. CASE UNCHANGED vars
  BY <1>5 DEF vars, PaymentsInv, IsRequest, KeyRecordedOnce,
              AnsweredIsRecorded, InsertedIsNew, KeyKnown, Row
<1> QED
  BY <1>1, <1>2, <1>3, <1>4, <1>5, InsertStep, CommitStep DEF Next, Serve

(* However often a form is sent, and however requests for it collide, its  *)
(* payment is recorded at most once (recordPayment).                       *)
THEOREM RecordedOnce == Spec => []SentUntilAnswered
<1>1. ASSUME Init PROVE PaymentsInv
  <2>1. payments = << >> /\ answered = {}
    BY <1>1 DEF Init
  <2>2. req = [t \in Requests |-> Idle]
    BY <1>1 DEF Init
  <2>3. payments \in Seq(Payment) /\ KeyRecordedOnce /\ AnsweredIsRecorded
    BY <2>1 DEF KeyRecordedOnce, AnsweredIsRecorded
  <2>4. \A t \in Requests : req[t] = Idle /\ req[t].pc = "idle"
    BY <2>2 DEF Idle
  <2> QED
    BY <2>2, <2>3, <2>4, IdleIsRequest DEF PaymentsInv, InsertedIsNew
<1>2. PaymentsInv => SentUntilAnswered
  BY DEF PaymentsInv, SentUntilAnswered
<1> QED
  BY <1>1, <1>2, NextPaymentsInv, PTL DEF Spec

-----------------------------------------------------------------------------
(***************************************************************************)
(* The money.  A request derives the status from what it read; what it     *)
(* read may be out of date, but never too much: payments are only added.   *)
(***************************************************************************)
PaidIn(p, i) == SumFunctionOnSet([n \in DOMAIN p |-> p[n].amount],
                                 {n \in DOMAIN p : p[n].invoice = i})

LEMMA PaidIsIn == ASSUME NEW i PROVE Paid(i) = PaidIn(payments, i)
BY DEF Paid, PaymentsOf, PaidIn

LEMMA PaymentType ==
    ASSUME NEW r \in Payment
    PROVE  r.key \in Keys /\ r.invoice \in Invoices /\ r.amount \in Nat
BY DEF Payment

LEMMA PaidType ==
    ASSUME NEW p \in Seq(Payment), NEW i
    PROVE  PaidIn(p, i) \in Nat
<1>1. PICK S, f : /\ S = {n \in DOMAIN p : p[n].invoice = i}
                  /\ f = [n \in DOMAIN p |-> p[n].amount]
  OBVIOUS
<1>2. IsFiniteSet(S)
  <2>1. DOMAIN p = 1 .. Len(p) /\ Len(p) \in Int /\ S \subseteq DOMAIN p
    BY <1>1
  <2> QED
    BY <2>1, FS_Interval, FS_Subset
<1>3. ASSUME NEW n \in S PROVE f[n] \in Nat
  <2>1. n \in DOMAIN p /\ p[n] \in Payment /\ f[n] = p[n].amount
    BY <1>1
  <2> QED
    BY <2>1, PaymentType
<1>4. SumFunctionOnSet(f, S) \in Nat
  BY <1>2, <1>3, SumType
<1> QED
  BY <1>1, <1>4 DEF PaidIn

(* One more payment counts for its invoice and for no other.               *)
LEMMA PaidAppend ==
    ASSUME NEW p \in Seq(Payment), NEW r \in Payment, NEW i
    PROVE  PaidIn(Append(p, r), i)
             = PaidIn(p, i) + (IF r.invoice = i THEN r.amount ELSE 0)
<1>1. PICK q : q = Append(p, r)
  OBVIOUS
<1>2. PICK m \in Nat : m = Len(p)
  OBVIOUS
<1>3. /\ DOMAIN p = 1 .. m /\ DOMAIN q = 1 .. m + 1
      /\ q[m + 1] = r /\ \A n \in 1 .. m : q[n] = p[n]
  BY <1>1, <1>2
<1>4. PICK f, g, S, T : /\ f = [n \in DOMAIN p |-> p[n].amount]
                        /\ g = [n \in DOMAIN q |-> q[n].amount]
                        /\ S = {n \in DOMAIN p : p[n].invoice = i}
                        /\ T = {n \in DOMAIN q : q[n].invoice = i}
  OBVIOUS
<1>5. IsFiniteSet(S)
  <2>1. S \subseteq 1 .. m /\ 1 \in Int /\ m \in Int
    BY <1>3, <1>4
  <2> QED
    BY <2>1, FS_Interval, FS_Subset
<1>6. m + 1 \notin S
  BY <1>3, <1>4
<1>7. /\ \A n \in S : n \in 1 .. m /\ g[n] = f[n] /\ g[n] \in Int
      /\ g[m + 1] = r.amount /\ r.amount \in Int
  <2>1. ASSUME NEW n \in S
        PROVE  n \in 1 .. m /\ g[n] = f[n] /\ g[n] \in Int
    <3>1. n \in 1 .. m /\ n \in DOMAIN p /\ n \in DOMAIN q
      BY <1>3, <1>4
    <3>2. g[n] = q[n].amount /\ f[n] = p[n].amount /\ q[n] = p[n]
      BY <1>3, <1>4, <3>1
    <3>3. p[n] \in Payment
      BY <3>1
    <3>4. p[n].amount \in Int
      BY <3>3, PaymentType
    <3> QED
      BY <3>1, <3>2, <3>4
  <2>2. m + 1 \in DOMAIN q /\ r.amount \in Int
    BY <1>3, PaymentType
  <2> QED
    BY <1>3, <1>4, <2>1, <2>2
<1>8. SumFunctionOnSet(g, S) = SumFunctionOnSet(f, S)
  BY <1>5, <1>7, SumSame
<1>9. SumFunctionOnSet(f, S) \in Nat
  BY <1>4, PaidType DEF PaidIn
<1>10. CASE r.invoice = i
  <2>1. T = S \union {m + 1}
    BY <1>3, <1>4, <1>10
  <2>2. SumFunctionOnSet(g, S \union {m + 1}) = g[m + 1] + SumFunctionOnSet(g, S)
    BY <1>5, <1>6, <1>7, SumAdd
  <2>3. PaidIn(q, i) = SumFunctionOnSet(g, T) /\ PaidIn(p, i) = SumFunctionOnSet(f, S)
    BY <1>4 DEF PaidIn
  <2>4. PICK a \in Int, b \in Nat : a = r.amount /\ b = SumFunctionOnSet(f, S)
    BY <1>7, <1>9
  <2>5. PaidIn(q, i) = a + b /\ PaidIn(p, i) = b
    BY <1>7, <1>8, <2>1, <2>2, <2>3, <2>4
  <2> QED
    BY <1>1, <1>10, <2>4, <2>5
<1>11. CASE r.invoice # i
  <2>1. T = S
    BY <1>3, <1>4, <1>11
  <2>2. PaidIn(q, i) = SumFunctionOnSet(g, T) /\ PaidIn(p, i) = SumFunctionOnSet(f, S)
    BY <1>4 DEF PaidIn
  <2>3. PICK b \in Nat : b = SumFunctionOnSet(f, S)
    BY <1>9
  <2>4. PaidIn(q, i) = b /\ PaidIn(p, i) = b
    BY <1>8, <2>1, <2>2, <2>3
  <2> QED
    BY <1>1, <1>11, <2>4
<1> QED
  BY <1>10, <1>11

LEMMA InvoiceTotalType ==
    ASSUME NEW lines \in Seq(Line)
    PROVE  TotalOf(lines) \in Nat
<1>1. PICK f : f = [n \in DOMAIN lines |-> lines[n].quantity * lines[n].unitPrice]
  OBVIOUS
<1>2. IsFiniteSet(DOMAIN lines)
  <2>1. DOMAIN lines = 1 .. Len(lines) /\ 1 \in Int /\ Len(lines) \in Int
    OBVIOUS
  <2> QED
    BY <2>1, FS_Interval
<1>3. \A n \in DOMAIN lines : f[n] \in Nat
  <2>1. ASSUME NEW n \in DOMAIN lines PROVE f[n] \in Nat
    <3>0. lines[n] \in Line
      OBVIOUS
    <3>1. lines[n].quantity \in Nat /\ lines[n].unitPrice \in Nat
      BY <3>0 DEF Line
    <3>2. PICK a \in Nat, b \in Nat : f[n] = a * b
      BY <1>1, <3>1
    <3> QED
      BY <3>2
  <2> QED
    BY <2>1
<1>4. SumFunctionOnSet(f, DOMAIN lines) \in Nat
  BY <1>2, <1>3, SumType
<1>5. DOMAIN f = DOMAIN lines
  BY <1>1
<1> QED
  BY <1>1, <1>4, <1>5 DEF TotalOf, SumFunction

(***************************************************************************)
(* The inductive invariant of the money.  A request in flight is for an    *)
(* invoice that was made, whose total it read, and whose payments have not *)
(* become fewer since.                                                     *)
(***************************************************************************)
IsInvoice(r) ==
    /\ r = [status |-> r.status, total |-> r.total, version |-> r.version]
    /\ r.status \in Statuses /\ r.total \in Nat /\ r.version \in Nat

Of(t) == Submission[req[t].key].invoice

ReadTooLittle ==
    \A t \in Requests : req[t].pc # "idle" =>
        /\ invoice[Of(t)].status # "NONE"
        /\ req[t].total = invoice[Of(t)].total
        /\ req[t].paid <= Paid(Of(t))

MoneyInv ==
    /\ invoice = [i \in Invoices |-> invoice[i]]
    /\ \A i \in Invoices : IsInvoice(invoice[i])
    /\ \A t \in Requests : req[t].total \in Nat /\ req[t].paid \in Nat
    /\ answered \subseteq Keys
    /\ failures \in 0 .. MaxFailures
    /\ ReadTooLittle
    /\ PaidIsCovered

LEMMA PaidNat == ASSUME PaymentsInv, NEW i PROVE Paid(i) \in Nat
BY PaidIsIn, PaidType DEF PaymentsInv

(* Steps that touch neither invoices nor payments.                         *)
LEMMA QuietMoney ==
    ASSUME PaymentsInv, MoneyInv, NEW t \in Requests, NEW new,
           req' = [req EXCEPT ![t] = new],
           new.total \in Nat, new.paid \in Nat,
           new.pc = "idle" \/ ( /\ invoice[Submission[new.key].invoice].status # "NONE"
                                /\ new.total = invoice[Submission[new.key].invoice].total
                                /\ new.paid <= Paid(Submission[new.key].invoice)),
           invoice' = invoice, payments' = payments,
           answered' \subseteq Keys, failures' \in 0 .. MaxFailures
    PROVE  MoneyInv'
<1>1. /\ req' = [u \in Requests |-> req'[u]]
      /\ req'[t] = new
      /\ \A u \in Requests \ {t} : req'[u] = req[u]
  BY RequestStep
<1>2. \A u \in Requests : req'[u].total \in Nat /\ req'[u].paid \in Nat
  BY <1>1 DEF MoneyInv
<1>3. \A i : Paid(i)' = Paid(i)
  BY DEF Paid, PaymentsOf
<1>4. ReadTooLittle'
  <2> SUFFICES ASSUME NEW u \in Requests, req'[u].pc # "idle"
               PROVE  /\ invoice'[Of(u)'].status # "NONE"
                      /\ req'[u].total = invoice'[Of(u)'].total
                      /\ req'[u].paid <= Paid(Of(u))'
    BY DEF ReadTooLittle
  <2>1. PICK i : i = Submission[req'[u].key].invoice
    OBVIOUS
  <2>2. Of(u)' = i /\ Paid(Of(u))' = Paid(i)
    BY <1>3, <2>1 DEF Of, Paid, PaymentsOf
  <2>3. CASE u = t
    BY <1>1, <2>1, <2>2, <2>3
  <2>4. CASE u # t
    BY <1>1, <2>1, <2>2, <2>4 DEF MoneyInv, ReadTooLittle, Of
  <2> QED
    BY <2>3, <2>4
<1>5. PaidIsCovered'
  BY <1>3 DEF MoneyInv, PaidIsCovered
<1> QED
  BY <1>2, <1>4, <1>5 DEF MoneyInv, IsInvoice

LEMMA FormType ==
    ASSUME NEW k \in Keys
    PROVE  Submission[k].invoice \in Invoices /\ Submission[k].amount \in Nat
BY SubmissionAssumption DEF SubmissionAssumption

LEMMA CreateMoney ==
    ASSUME PaymentsInv, MoneyInv, NEW i \in Invoices, Create(i)
    PROVE  MoneyInv'
<1>1. PICK total \in Nat : total = TotalOf(LinesOf[i])
  BY LinesAssumption, InvoiceTotalType DEF LinesAssumption
<1>2. /\ payments' = payments /\ req' = req
      /\ answered' = answered /\ failures' = failures
  BY DEF Create
<1>3. PICK new : new = [status |-> "ISSUED", total |-> total,
                        version |-> invoice[i].version]
  OBVIOUS
<1>4. invoice' = [invoice EXCEPT ![i] = new]
  BY <1>1, <1>3 DEF Create
<1>5. IsInvoice(new)
  BY <1>3 DEF MoneyInv, IsInvoice, Statuses
<1>6. /\ invoice' = [j \in Invoices |-> invoice'[j]]
      /\ invoice'[i] = new /\ new.status = "ISSUED"
      /\ \A j \in Invoices \ {i} : invoice'[j] = invoice[j]
  BY <1>3, <1>4 DEF MoneyInv
<1>7. \A j : Paid(j)' = Paid(j)
  BY <1>2 DEF Paid, PaymentsOf
<1>8. ReadTooLittle'
  <2> SUFFICES ASSUME NEW u \in Requests, req[u].pc # "idle"
               PROVE  /\ invoice'[Of(u)].status # "NONE"
                      /\ req[u].total = invoice'[Of(u)].total
                      /\ req[u].paid <= Paid(Of(u))'
    BY <1>2 DEF ReadTooLittle, Of
  <2>1. Of(u) \in Invoices
    BY FormType DEF PaymentsInv, IsRequest, Of
  <2>2. Of(u) # i
    BY DEF MoneyInv, ReadTooLittle, Create
  <2>3. PICK j \in Invoices \ {i} : j = Of(u)
    BY <2>1, <2>2
  <2>4. Of(u)' = j /\ Paid(Of(u))' = Paid(j)
    BY <1>2, <2>3 DEF Of, Paid, PaymentsOf
  <2>5. invoice'[j] = invoice[j]
    BY <1>6
  <2> QED
    BY <2>3, <2>4, <2>5 DEF MoneyInv, ReadTooLittle
<1>9. PaidIsCovered'
  BY <1>6, <1>7 DEF MoneyInv, PaidIsCovered
<1> QED
  BY <1>2, <1>5, <1>6, <1>8, <1>9 DEF MoneyInv

(* The status may be derived from too few payments, never from too many.   *)
LEMMA CommitMoney ==
    ASSUME PaymentsInv, MoneyInv, NEW t \in Requests, Commit(t)
    PROVE  MoneyInv'
<1>1. PICK k \in Keys : k = req[t].key
  BY DEF PaymentsInv, IsRequest
<1>2. PICK i \in Invoices, amount \in Nat :
         i = Submission[k].invoice /\ amount = Submission[k].amount
  BY FormType
<1>3. PICK total \in Nat, read \in Nat, paid \in Nat :
         total = req[t].total /\ read = req[t].paid /\ paid = Paid(i)
  BY PaidNat DEF MoneyInv
<1>4. /\ invoice[i].status # "NONE" /\ total = invoice[i].total /\ read <= paid
  BY <1>1, <1>2, <1>3 DEF Commit, MoneyInv, ReadTooLittle, Of
<1>5. /\ payments' = Append(payments, Row(k))
      /\ req' = [req EXCEPT ![t] = Idle]
  BY <1>1 DEF Commit, Record, Close
<1>6. /\ req' = [u \in Requests |-> req'[u]]
      /\ req'[t] = Idle
      /\ \A u \in Requests \ {t} : req'[u] = req[u]
  BY <1>5, RequestStep
<1>7. PICK status, new : /\ status = DeriveStatusFromPayments(total, read + amount)
                         /\ new = [status |-> status, total |-> total,
                                   version |-> invoice[i].version + 1]
  OBVIOUS
<1>8. status \in Statuses \ {"NONE"} /\ (status = "PAID" => read + amount >= total)
  BY <1>7 DEF DeriveStatusFromPayments, Statuses
<1>9. invoice' = [invoice EXCEPT ![i] = new]
  <2>1. invoice' = [invoice EXCEPT ![i] =
           [status  |-> DeriveStatusFromPayments(req[t].total, req[t].paid + amount),
            total   |-> invoice[i].total,
            version |-> invoice[i].version + 1]]
    BY <1>1, <1>2 DEF Commit, Record
  <2> QED
    BY <1>3, <1>4, <1>7, <2>1
<1>10. IsInvoice(new)
  <2>1. invoice[i].version + 1 \in Nat
    BY DEF MoneyInv, IsInvoice
  <2> QED
    BY <1>7, <1>8, <2>1 DEF IsInvoice
<1>11. /\ invoice' = [j \in Invoices |-> invoice'[j]]
       /\ invoice'[i] = new
       /\ \A j \in Invoices \ {i} : invoice'[j] = invoice[j]
  BY <1>9 DEF MoneyInv
<1>12. /\ Paid(i)' = paid + amount
       /\ \A j \in Invoices \ {i} : Paid(j)' = Paid(j)
       /\ \A j \in Invoices : Paid(j)' >= Paid(j)
  <2>1. Row(k) \in Payment /\ Row(k).invoice = i /\ Row(k).amount = amount
    BY <1>2, RowType DEF Row
  <2>2. payments \in Seq(Payment)
    BY DEF PaymentsInv
  <2>3. \A j : PaidIn(payments', j)
                 = PaidIn(payments, j) + (IF i = j THEN amount ELSE 0)
    <3>1. PICK r \in Payment : r = Row(k)
      BY <2>1
    <3>2. r.invoice = i /\ r.amount = amount /\ payments' = Append(payments, r)
      BY <1>5, <2>1, <3>1
    <3> QED
      BY <2>2, <3>2, PaidAppend
  <2>4. \A j : Paid(j) = PaidIn(payments, j) /\ Paid(j)' = PaidIn(payments', j)
    BY DEF Paid, PaymentsOf, PaidIn
  <2>5. \A j : PaidIn(payments, j) \in Nat
    BY <2>2, PaidType
  <2> QED
    BY <1>3, <2>3, <2>4, <2>5
<1>13. ReadTooLittle'
  <2> SUFFICES ASSUME NEW u \in Requests, req'[u].pc # "idle"
               PROVE  /\ invoice'[Of(u)'].status # "NONE"
                      /\ req'[u].total = invoice'[Of(u)'].total
                      /\ req'[u].paid <= Paid(Of(u))'
    BY DEF ReadTooLittle
  <2>1. u # t /\ req'[u] = req[u]
    BY <1>6 DEF Idle
  <2>2. PICK j \in Invoices : j = Of(u)
    BY FormType DEF PaymentsInv, IsRequest, Of
  <2>3. Of(u)' = j /\ Paid(Of(u))' = Paid(j)'
    BY <2>1, <2>2 DEF Of, Paid, PaymentsOf
  <2>4. PICK r \in Nat, p \in Nat, q \in Nat :
           r = req[u].paid /\ p = Paid(j) /\ q = Paid(j)'
    <3>1. Paid(j) \in Nat /\ req[u].paid \in Nat
      BY PaidNat DEF MoneyInv
    <3>2. Paid(j)' \in Nat
      BY <1>3, <1>12, <3>1
    <3> QED
      BY <3>1, <3>2
  <2>5. /\ invoice[j].status # "NONE" /\ req[u].total = invoice[j].total
        /\ r <= p /\ p <= q
    BY <1>12, <2>1, <2>2, <2>4 DEF MoneyInv, ReadTooLittle
  <2>6. invoice'[j].status # "NONE" /\ invoice'[j].total = invoice[j].total
    BY <1>4, <1>7, <1>8, <1>11, <2>5
  <2> QED
    BY <2>1, <2>3, <2>4, <2>5, <2>6
<1>14. PaidIsCovered'
  <2> SUFFICES ASSUME NEW j \in Invoices, invoice'[j].status = "PAID"
               PROVE  Paid(j)' >= invoice'[j].total
    BY DEF PaidIsCovered, Paid, PaymentsOf
  <2>1. CASE j = i
    BY <1>3, <1>4, <1>7, <1>8, <1>11, <1>12, <2>1
  <2>2. CASE j # i
    BY <1>11, <1>12, <2>2 DEF MoneyInv, PaidIsCovered
  <2> QED
    BY <2>1, <2>2
<1>15. /\ answered' \subseteq Keys
       /\ failures' \in 0 .. MaxFailures
  <2>1. answered' \subseteq answered \union {k}
    BY <1>1 DEF Commit, Answer
  <2>2. failures' = failures \/ (failures < MaxFailures /\ failures' = failures + 1)
    BY DEF Commit, Answer, Fail
  <2> QED
    BY <2>1, <2>2, LinesAssumption DEF MoneyInv, LinesAssumption
<1>16. \A u \in Requests : req'[u].total \in Nat /\ req'[u].paid \in Nat
  BY <1>6 DEF MoneyInv, Idle
<1>17. \A j \in Invoices : IsInvoice(invoice'[j])
  BY <1>10, <1>11 DEF MoneyInv
<1> QED
  BY <1>11, <1>13, <1>14, <1>15, <1>16, <1>17 DEF MoneyInv, IsInvoice

LEMMA NextMoneyInv == PaymentsInv /\ MoneyInv /\ [Next]_vars => MoneyInv'
<1> SUFFICES ASSUME PaymentsInv, MoneyInv, [Next]_vars PROVE MoneyInv'
  OBVIOUS
<1>1. ASSUME NEW t \in Requests, NEW k \in Keys, Read(t, k)
      PROVE  MoneyInv'
  <2>1. PICK i \in Invoices : i = Submission[k].invoice
    BY FormType
  <2>2. PICK new : new = [pc |-> "read", key |-> k,
                          total |-> invoice[i].total, paid |-> Paid(i)]
    OBVIOUS
  <2>3. /\ req' = [req EXCEPT ![t] = new] /\ invoice[i].status # "NONE"
        /\ invoice' = invoice /\ payments' = payments
        /\ answered' = answered /\ failures' = failures
    BY <1>1, <2>1, <2>2 DEF Read
  <2>4. Paid(i) \in Nat /\ invoice[i].total \in Nat
    BY PaidNat DEF MoneyInv, IsInvoice
  <2>5. /\ new.total \in Nat /\ new.paid \in Nat
        /\ invoice[Submission[new.key].invoice].status # "NONE"
        /\ new.total = invoice[Submission[new.key].invoice].total
        /\ new.paid <= Paid(Submission[new.key].invoice)
    BY <2>1, <2>2, <2>3, <2>4
  <2>6. answered' \subseteq Keys /\ failures' \in 0 .. MaxFailures
    BY <2>3 DEF MoneyInv
  <2> QED
    BY <2>3, <2>5, <2>6, QuietMoney
<1>2. ASSUME NEW t \in Requests,
             AlreadyRecorded(t) \/ DuplicateKey(t) \/ Abort(t)
      PROVE  MoneyInv'
  <2>1. Idle.total \in Nat /\ Idle.paid \in Nat /\ Idle.pc = "idle"
    BY DEF Idle
  <2>2. /\ req' = [req EXCEPT ![t] = Idle]
        /\ invoice' = invoice /\ payments' = payments
    BY <1>2 DEF AlreadyRecorded, DuplicateKey, Abort, Close, db
  <2>3. req[t].key \in Keys
    BY DEF PaymentsInv, IsRequest
  <2>4. answered' \subseteq Keys
    BY <1>2, <2>3 DEF AlreadyRecorded, DuplicateKey, Abort, MoneyInv
  <2>5. failures' \in 0 .. MaxFailures
    <3>1. failures' = failures \/ (failures < MaxFailures /\ failures' = failures + 1)
      BY <1>2 DEF AlreadyRecorded, DuplicateKey, Abort, Fail
    <3> QED
      BY <3>1, LinesAssumption DEF MoneyInv, LinesAssumption
  <2> QED
    BY <2>1, <2>2, <2>4, <2>5, QuietMoney
<1>3. ASSUME NEW t \in Requests, Check(t) \/ Insert(t)
      PROVE  MoneyInv'
  <2>1. PICK pc \in {"new", "inserted"} : req' = [req EXCEPT ![t].pc = pc]
    BY <1>3 DEF Check, Insert
  <2>2. PICK new : new = [pc |-> pc, key |-> req[t].key,
                          total |-> req[t].total, paid |-> req[t].paid]
    OBVIOUS
  <2>3. req' = [req EXCEPT ![t] = new]
    <3>1. req[t] = [pc |-> req[t].pc, key |-> req[t].key,
                    total |-> req[t].total, paid |-> req[t].paid]
      BY DEF PaymentsInv, IsRequest
    <3>2. [req[t] EXCEPT !.pc = pc] = new
      BY <2>2, <3>1
    <3> QED
      BY <2>1, <3>2
  <2>4. req[t].pc # "idle"
    BY <1>3 DEF Check, Insert
  <2>5. /\ new.total \in Nat /\ new.paid \in Nat
        /\ invoice[Submission[new.key].invoice].status # "NONE"
        /\ new.total = invoice[Submission[new.key].invoice].total
        /\ new.paid <= Paid(Submission[new.key].invoice)
    BY <2>2, <2>4 DEF MoneyInv, ReadTooLittle, Of
  <2>6. /\ invoice' = invoice /\ payments' = payments
        /\ answered' \subseteq Keys /\ failures' \in 0 .. MaxFailures
    BY <1>3 DEF Check, Insert, MoneyInv
  <2> QED
    BY <2>3, <2>5, <2>6, QuietMoney
<1>4. CASE UNCHANGED vars
  BY <1>4 DEF vars, MoneyInv, IsInvoice, ReadTooLittle, Of, PaidIsCovered,
              Paid, PaymentsOf
<1> QED
  BY <1>1, <1>2, <1>3, <1>4, CreateMoney, CommitMoney DEF Next, Serve

(* An invoice shown as paid is paid, whatever requests overtake each other *)
(* (recordPayment derives the status from payments read before its own).   *)
THEOREM PaidIsPaid == Spec => []InvoicesInv
<1>1. ASSUME Init PROVE PaymentsInv /\ MoneyInv
  <2>1. payments = << >> /\ answered = {} /\ failures = 0
    BY <1>1 DEF Init
  <2>2. PICK new : new = [status |-> "NONE", total |-> 0, version |-> 1]
    OBVIOUS
  <2>3. req = [t \in Requests |-> Idle] /\ invoice = [i \in Invoices |-> new]
    BY <1>1, <2>2 DEF Init
  <2>4. payments \in Seq(Payment) /\ KeyRecordedOnce /\ AnsweredIsRecorded
    BY <2>1 DEF KeyRecordedOnce, AnsweredIsRecorded
  <2>5. \A t \in Requests : /\ req[t] = Idle /\ req[t].pc = "idle"
                            /\ req[t].total = 0 /\ req[t].paid = 0
    BY <2>3 DEF Idle
  <2>6. PaymentsInv
    BY <2>3, <2>4, <2>5, IdleIsRequest DEF PaymentsInv, InsertedIsNew
  <2>7. IsInvoice(new) /\ new.status # "PAID"
    BY <2>2 DEF IsInvoice, Statuses
  <2>8. ReadTooLittle /\ PaidIsCovered
    BY <2>3, <2>5, <2>7 DEF ReadTooLittle, PaidIsCovered
  <2>9. failures \in 0 .. MaxFailures
    BY <2>1, LinesAssumption DEF LinesAssumption
  <2> QED
    BY <2>1, <2>3, <2>5, <2>6, <2>7, <2>8, <2>9 DEF MoneyInv
<1>2. ASSUME PaymentsInv, MoneyInv PROVE InvoicesInv
  <2>1. invoice \in [Invoices -> [status : Statuses, total : Nat, version : Nat]]
    BY <1>2 DEF MoneyInv, IsInvoice
  <2>2. req \in [Requests -> Request]
    <3>1. \A t \in Requests : req[t] \in Request
      BY <1>2 DEF MoneyInv, PaymentsInv, IsRequest, Request, Pcs
    <3> QED
      BY <1>2, <3>1 DEF PaymentsInv
  <2> QED
    BY <1>2, <2>1, <2>2 DEF InvoicesInv, TypeOK, MoneyInv, PaymentsInv
<1> QED
  BY <1>1, <1>2, NextPaymentsInv, NextMoneyInv, PTL DEF Spec

-----------------------------------------------------------------------------
(* A page of the client, for any number of handlers under way, others at   *)
(* work on the same records, and answers lost.                             *)
(*                                                                         *)
(* What makes the pages right is partly in the tables of Pages.tla: which  *)
(* busy state stops which button, what is loaded again after what, which   *)
(* states a form is shown in.  TablesAgree says what of it the proof       *)
(* needs, and is proved of the tables first.                               *)

TheTables == Handlers \subseteq AllHandlers /\ PageSet \subseteq AllPages /\ Rows \subseteq {"a", "b"}

(* What may stand in a copy, what a handler loads after its answer, and    *)
(* what it still has to do when a load begins.                             *)
Copy == [state : States, version : Nat]

Plans == {<<>>, <<"list">>, <<"detail", "list">>, <<"timer", "list">>, <<"list", "timer", "close">>}

Loads == {<<"list">>, <<"detail">>, <<"detail", "list">>, <<"list", "timer", "close">>}

(* The states in which a row opens a window that keeps it.                 *)
Openable == OpenSubscription.on \cup RulesTable.on

(* The forms whose draft is to take effect once.                           *)
Single(h) == h.form.reads = "new" \/ h.name \in {"AddLine", "SubmitNegotiation"}

HandlerOK(h) ==
    /\ h.name # "" /\ h.name \notin Rows
    /\ h.form.reads \in {"new", "list", "detail"}
    /\ h.form.marks \in {"none", "id", "ids", "form"}
    /\ h.form.flag \in h.form.stops
    /\ h.loads \in Plans
    /\ h.form.reads = "new" => "reply" \notin h.atOnce /\ h.loads # <<"detail", "list">>
    /\ h.name \in Promised => h.form.reads # "new" /\ h.route.compares /\ h.sends
    /\ "clear" \in h.atOnce => h.name = "RecordPayment" \/ Single(h)

(* Such a form has a busy state of its own, which disables it as a whole   *)
(* until its handler is done with the loads, and is cleared at once.       *)
SingleOK(h) ==
    /\ h.form.marks = "form" /\ h.form.flag # ""
    /\ "clear" \in h.atOnce
    /\ h.loads \in {<<>>, <<"list">>, <<"detail", "list">>}
    /\ h.form.reads # "list"
    /\ \A g \in Handlers : g.form.page = h.form.page /\ g.form.flag = h.form.flag => g = h

(* A page offers only what its route takes, windows that keep a row as far *)
(* as the states go in which they open, and nothing else fills those.      *)
OnPageOK(p, h) ==
    /\ p.modal = "copied" => "reply" \notin h.atOnce /\ h.loads # <<"detail", "list">>
    /\ h.form.reads # "new" /\ h.name \notin Regardless =>
         IF p.modal = "copied" /\ h.form.reads = "detail" THEN h.form.on \cap Openable \subseteq h.route.takes
         ELSE h.form.on \subseteq h.route.takes

PageOK(p) ==
    /\ p.modal \in {"fetched", "copied", "page", "none"}
    /\ \A h \in OfPage[p.name] : OnPageOK(p, h)

TablesAgree ==
    /\ \A g, h \in Handlers : g.name = h.name => g = h
    /\ \A h \in Handlers : HandlerOK(h) /\ (Single(h) => SingleOK(h))
    /\ \A p \in PageSet : PageOK(p)

(* The inductive invariant.  A copy tells the truth about its version: if  *)
(* the record still has it, the record still is as the copy shows it.      *)
Ids == Rows \cup {Whole}
Owner(c) == c.h
Pressed == {"sent", "refused", "done"}
Fetching == {"load", "read"}

Fits(x, r) == x \in Copy /\ x.version <= clock /\ (x.version = row[r].version => x = row[r])

(* A handler under way, by what it waits for.                              *)
OwnerOK(c) ==
    /\ c.id \in Ids
    /\ IF c.h.name = "" THEN c.h = JustLoads ELSE c.h \in OfPage[page.name]

SentOK(c) ==
    /\ c = [pc |-> c.pc, h |-> c.h, id |-> c.id, shown |-> c.shown, draft |-> c.draft]
    /\ c.id # Whole => /\ Fits(c.shown, c.id)
                       /\ c.shown.state \in Owner(c).form.on
                       /\ page.modal = "copied" /\ Owner(c).form.reads = "detail" => c.shown.state \in Openable

PressedOK(c) ==
    /\ c.h.name # ""
    /\ c.id = Whole <=> Owner(c).form.reads = "new"
    /\ c.draft = <<Key(Owner(c), c.id), c.draft[2]>> /\ c.draft[2] \in Nat

TodoOK(c) ==
    /\ Head(c.todo) = "detail" => c.id \in Rows /\ page.modal # "copied"
    /\ c.todo = <<"list", "timer", "close">> => ~Single(Owner(c))

TimerOK(c) ==
    /\ c = [pc |-> "timer", h |-> c.h, id |-> c.id, todo |-> c.todo]
    /\ ~Single(Owner(c))
    /\ c.todo \in {<<"list">>, <<"close">>}

ReadOK(c) ==
    IF Head(c.todo) = "list" THEN /\ c.got = [r \in Rows |-> c.got[r]]
                                  /\ \A r \in Rows : Fits(c.got[r], r)
    ELSE Fits(c.got, c.id)

TaskOK(c) ==
    /\ c.pc \in {"idle", "timer"} \cup Pressed \cup Fetching
    /\ c.pc # "idle" => OwnerOK(c)
    /\ c.pc \in Pressed => PressedOK(c)
    /\ c.pc \in {"sent", "refused"} => SentOK(c)
    /\ c.pc = "done" => ("reply" \in Owner(c).atOnce => c.id \in Rows /\ Fits(c.got, c.id))
    /\ c.pc \in Fetching => c.todo \in Loads /\ TodoOK(c)
    /\ c.pc = "timer" => TimerOK(c)
    /\ c.pc = "read" => ReadOK(c)

TasksInv ==
    /\ task = [t \in Tasks |-> task[t]]
    /\ \A t \in Tasks : TaskOK(task[t])

(* The page's copies fit their records, the window's included.             *)
WindowOK(d) ==
    /\ d.id \in Rows
    /\ Fits(d.shown, d.id)
    /\ page.modal = "copied" => d.shown.state \in Openable

CopiesInv ==
    /\ page \in PageSet
    /\ row \in [Rows -> Copy] /\ list \in [Rows -> Copy]
    /\ \A r \in Rows : row[r].version <= clock /\ Fits(list[r], r)
    /\ \A d \in detail : WindowOK(d) /\ \A e \in detail : d = e

(* The bounds: every draft was sent, and every request sent is counted.    *)
CountOf(pc) == Cardinality({t \in Tasks : task[t].pc = pc})

CountInv ==
    /\ clock \in Nat /\ lost \in 0..MaxLost
    /\ clock + CountOf("sent") <= MaxRequests
    /\ draft \in [DraftKeys(page) -> Nat]
    /\ \A k \in DraftKeys(page) : draft[k] + CountOf("done") <= clock

(* Whatever a busy state marks, and every notice, is there for a handler   *)
(* that will take it back: this is why forms come back.                    *)
Marks(c, f, x) ==
    /\ c.pc \in Pressed \cup Fetching
    /\ Owner(c).form.flag = f
    /\ Owner(c).form.marks = "ids" => c.id = x

BusyInv ==
    /\ busy \in [Flags(page) -> SUBSET Ids]
    /\ \A f \in Flags(page) : \A x \in busy[f] : \E t \in Tasks : Marks(task[t], f, x)

LoadingInv ==
    /\ loading \subseteq {"list", "detail"}
    /\ \A x \in loading : \E t \in Tasks : task[t].pc \in Fetching /\ Head(task[t].todo) = x

(* While the handler of a form whose draft counts is under way the form is *)
(* disabled, so it is the only one; and the draft that took effect is an   *)
(* older one, or that handler is about to clear it.                        *)
Active(t, h) == task[t].pc \in Pressed \cup Fetching /\ task[t].h.name = h.name

DraftOK(h) ==
    /\ \A t \in Tasks : Active(t, h) => /\ Whole \in busy[h.form.flag]
                                        /\ \A u \in Tasks : Active(u, h) => u = t
    /\ \A t \in Tasks : task[t].pc \in Pressed /\ task[t].h.name = h.name => task[t].draft = <<h.name, draft[h.name]>>
    /\ \A d \in spent : d[1] = h.name =>
         /\ d[2] <= draft[h.name]
         /\ d[2] = draft[h.name] => \E t \in Tasks : task[t].pc = "done" /\ task[t].h.name = h.name

SpentOK == \A d \in spent : d = <<d[1], d[2]>> /\ d[2] \in Nat
DraftInv == SpentOK /\ \A h \in OfPage[page.name] : Single(h) => DraftOK(h)

PagesInv == TasksInv /\ CopiesInv /\ CountInv /\ BusyInv /\ LoadingInv /\ DraftInv

-----------------------------------------------------------------------------
(* The tables themselves agree: a handler at a time, then what they must   *)
(* not have in common.                                                     *)
CopiedPages == {"Rules", "Subscriptions"}
Entry(h, name, on, flag) ==
    /\ HandlerOK(h)
    /\ h.name = name /\ h.form.page = on /\ h.form.flag = flag
    /\ on \in CopiedPages => "reply" \notin h.atOnce /\ h.loads # <<"detail", "list">>
    /\ h.form.reads # "new" /\ h.name \notin Regardless =>
         IF on \in CopiedPages /\ h.form.reads = "detail" THEN h.form.on \cap Openable \subseteq h.route.takes
         ELSE h.form.on \subseteq h.route.takes
    /\ Single(h) => /\ h.form.marks = "form" /\ flag # ""
                    /\ "clear" \in h.atOnce
                    /\ h.loads \in {<<>>, <<"list">>, <<"detail", "list">>}
                    /\ h.form.reads # "list"

(* Every handler, its name, its page and its busy state.                   *)
Entries ==
    /\ Entry(CreateQuotation, "CreateQuotation", "Quotations", "createSubmitting")
    /\ Entry(AddLine, "AddLine", "Quotations", "addLineSubmitting")
    /\ Entry(RemoveLine, "EditDraft", "Quotations", "")
    /\ Entry(UpdateQuantity, "EditDraft", "Quotations", "")
    /\ Entry(UpdateLineDiscount, "EditDraft", "Quotations", "")
    /\ Entry(UpdateOrderDiscount, "EditDraft", "Quotations", "")
    /\ Entry(AddRecommendation, "EditDraft", "Quotations", "")
    /\ Entry(SubmitQuotation, "SubmitQuotation", "Quotations", "")
    /\ Entry(NegotiationResolved, "NegotiationResolved", "Quotations", "")
    /\ Entry(ResolveNegotiation, "ResolveNegotiation", "Negotiation", "submitting")
    /\ Entry(Decide, "Decide", "Queue", "decidingId")
    /\ Entry(CreateRule, "CreateRule", "Rules", "createSubmitting")
    /\ Entry(UpdateRule, "UpdateRule", "Rules", "editSubmitting")
    /\ Entry(DeleteRule, "DeleteRule", "Rules", "")
    /\ Entry(CreateSubscription, "CreateSubscription", "Subscriptions", "createSubmitting")
    /\ Entry(ApplyModify, "ApplyModify", "Subscriptions", "modifySubmitting")
    /\ Entry(ConfirmCancel, "ConfirmCancel", "Subscriptions", "cancelSubmitting")
    /\ Entry(SubmitNegotiation, "SubmitNegotiation", "Portal", "submitting")
    /\ Entry(Confirm, "Confirm", "Portal", "confirmStep")
    /\ Entry(AcceptSplit, "AcceptSplit", "Order", "acceptingSplit")
    /\ Entry(OverrideSubmit, "OverrideSubmit", "Order", "overriding")
    /\ Entry(CreateInvoice, "CreateInvoice", "Invoices", "submitting")
    /\ Entry(RecordPayment, "RecordPayment", "Invoices", "payingId")
    /\ Entry(CreateWarehouse, "CreateWarehouse", "Warehouses", "submittingWh")
    /\ Entry(UpdateStock, "UpdateStock", "Warehouses", "submittingStock")
    /\ Entry(CreateCustomer, "CreateCustomer", "Customers", "createSubmitting")
    /\ Entry(CreateTier, "CreateTier", "Customers", "tierCreateSubmitting")
    /\ Entry(CreateUser, "CreateUser", "Users", "createSubmitting")
    /\ Entry(Deactivate, "Deactivate", "Users", "")
    /\ Entry(Reactivate, "Reactivate", "Users", "")
    /\ Entry(CreateDiscountRule, "CreateDiscountRule", "DiscountRules", "createSubmitting")
    /\ Entry(CreatePriceList, "CreatePriceList", "PriceLists", "createSubmitting")
    /\ Entry(CreatePlan, "CreatePlan", "Plans", "createSubmitting")
    /\ Entry(CreateCategory, "CreateCategory", "Categories", "creatingCategory")
    /\ Entry(SaveProduct, "SaveProduct", "Product", "saving")
    /\ Entry(RefreshDeal, "RefreshDeal", "Alerts", "refreshing")
    /\ Entry(DismissAlert, "DismissAlert", "Alerts", "dismissing")

LEMMA EntriesHold == TheTables => Entries
<1> SUFFICES ASSUME TheTables PROVE Entries
  OBVIOUS
<1> USE DEF TheTables, Entry, CopiedPages, HandlerOK, Plans, Promised, Regardless, Single,
            Openable, OpenSubscription, RulesTable,
            Handler, Creates, Edits, Form, NewForm, Route, NewRoute
<1>1. Entry(CreateQuotation, "CreateQuotation", "Quotations", "createSubmitting")
  BY DEF CreateQuotation, CreateQuotationForm, QuotationsRoute
<1>2. Entry(AddLine, "AddLine", "Quotations", "addLineSubmitting")
  BY DEF AddLine, AddLineForm, LinesRoute
<1>3. Entry(RemoveLine, "EditDraft", "Quotations", "")
  BY DEF RemoveLine, LineFields, QuotationRoute
<1>4. Entry(UpdateQuantity, "EditDraft", "Quotations", "")
  BY DEF UpdateQuantity, LineFields, QuotationRoute
<1>5. Entry(UpdateLineDiscount, "EditDraft", "Quotations", "")
  BY DEF UpdateLineDiscount, LineFields, DiscountsRoute
<1>6. Entry(UpdateOrderDiscount, "EditDraft", "Quotations", "")
  BY DEF UpdateOrderDiscount, OrderDiscountField, DiscountsRoute
<1>7. Entry(AddRecommendation, "EditDraft", "Quotations", "")
  BY DEF AddRecommendation, RecommendationCard, AddToQuoteRoute
<1>8. Entry(SubmitQuotation, "SubmitQuotation", "Quotations", "")
  BY DEF SubmitQuotation, SubmitButton, SubmitRoute
<1>9. Entry(NegotiationResolved, "NegotiationResolved", "Quotations", "")
  BY DEF NegotiationResolved, NegotiationInWindow, ResolvedRoute
<1>37. Entry(ResolveNegotiation, "ResolveNegotiation", "Negotiation", "submitting")
  BY DEF ResolveNegotiation, NegotiationForm, ResolveRoute
<1>10. Entry(Decide, "Decide", "Queue", "decidingId")
  BY DEF Decide, DecisionButtons, DecisionRoute
<1>11. Entry(CreateRule, "CreateRule", "Rules", "createSubmitting")
  BY DEF CreateRule, NewRuleForm, RulesRoute
<1>12. Entry(UpdateRule, "UpdateRule", "Rules", "editSubmitting")
  BY DEF UpdateRule, EditRuleForm, RuleRoute
<1>13. Entry(DeleteRule, "DeleteRule", "Rules", "")
  BY DEF DeleteRule, RulesTable, DeleteRuleRoute
<1>14. Entry(CreateSubscription, "CreateSubscription", "Subscriptions", "createSubmitting")
  BY DEF CreateSubscription, CreateSubscriptionForm, SubscriptionsRoute
<1>15. Entry(ApplyModify, "ApplyModify", "Subscriptions", "modifySubmitting")
  BY DEF ApplyModify, ModifyForm, ModifyRoute
<1>16. Entry(ConfirmCancel, "ConfirmCancel", "Subscriptions", "cancelSubmitting")
  BY DEF ConfirmCancel, CancelForm, CancelRoute
<1>17. Entry(SubmitNegotiation, "SubmitNegotiation", "Portal", "submitting")
  BY DEF SubmitNegotiation, NegotiateForm, NegotiateRoute
<1>18. Entry(Confirm, "Confirm", "Portal", "confirmStep")
  BY DEF Confirm, ConfirmButtons, ConfirmRoute
<1>19. Entry(AcceptSplit, "AcceptSplit", "Order", "acceptingSplit")
  BY DEF AcceptSplit, AcceptButton, AcceptRoute
<1>20. Entry(OverrideSubmit, "OverrideSubmit", "Order", "overriding")
  BY DEF OverrideSubmit, OverrideForm, OverrideRoute
<1>21. Entry(CreateInvoice, "CreateInvoice", "Invoices", "submitting")
  BY DEF CreateInvoice, CreateInvoiceForm, InvoicesRoute
<1>22. Entry(RecordPayment, "RecordPayment", "Invoices", "payingId")
  BY DEF RecordPayment, PaymentField, PaymentRoute
<1>23. Entry(CreateWarehouse, "CreateWarehouse", "Warehouses", "submittingWh")
  BY DEF CreateWarehouse, CreateWarehouseForm, WarehousesRoute
<1>24. Entry(UpdateStock, "UpdateStock", "Warehouses", "submittingStock")
  BY DEF UpdateStock, StockForm, StockImportRoute
<1>25. Entry(CreateCustomer, "CreateCustomer", "Customers", "createSubmitting")
  BY DEF CreateCustomer, CreateCustomerForm, CustomersRoute
<1>26. Entry(CreateTier, "CreateTier", "Customers", "tierCreateSubmitting")
  BY DEF CreateTier, CreateTierForm, TiersRoute
<1>27. Entry(CreateUser, "CreateUser", "Users", "createSubmitting")
  BY DEF CreateUser, CreateUserForm, UsersRoute
<1>28. Entry(Deactivate, "Deactivate", "Users", "")
  BY DEF Deactivate, DeactivateButton, DeleteUserRoute
<1>29. Entry(Reactivate, "Reactivate", "Users", "")
  BY DEF Reactivate, ReactivateButton, PatchUserRoute
<1>30. Entry(CreateDiscountRule, "CreateDiscountRule", "DiscountRules", "createSubmitting")
  BY DEF CreateDiscountRule, NewDiscountRuleForm, DiscountRulesRoute
<1>31. Entry(CreatePriceList, "CreatePriceList", "PriceLists", "createSubmitting")
  BY DEF CreatePriceList, NewPriceListForm, PriceListsRoute
<1>32. Entry(CreatePlan, "CreatePlan", "Plans", "createSubmitting")
  BY DEF CreatePlan, NewPlanForm, PlansRoute
<1>33. Entry(CreateCategory, "CreateCategory", "Categories", "creatingCategory")
  BY DEF CreateCategory, NewCategoryForm, CategoriesRoute
<1>34. Entry(SaveProduct, "SaveProduct", "Product", "saving")
  BY DEF SaveProduct, ProductForm, ProductRoute
<1>35. Entry(RefreshDeal, "RefreshDeal", "Alerts", "refreshing")
  BY DEF RefreshDeal, RefreshDealButton, RefreshDealRoute
<1>36. Entry(DismissAlert, "DismissAlert", "Alerts", "dismissing")
  BY DEF DismissAlert, DismissButton, DismissRoute
<1> HIDE DEF Entry
<1> QED
  BY ONLY <1>1, <1>2, <1>3, <1>4, <1>5, <1>6, <1>7, <1>8, <1>9, <1>10, <1>11, <1>12,
     <1>13, <1>14, <1>15, <1>16, <1>17, <1>18, <1>19, <1>20, <1>21, <1>22, <1>23, <1>24,
     <1>25, <1>26, <1>27, <1>28, <1>29, <1>30, <1>31, <1>32, <1>33, <1>34, <1>35, <1>36,
     <1>37
     DEF Entries

(* The edits of a quotation's fields are one handler here.                 *)
LEMMA SameEdits ==
    /\ UpdateQuantity = RemoveLine /\ UpdateLineDiscount = RemoveLine
    /\ UpdateOrderDiscount = RemoveLine /\ AddRecommendation = RemoveLine
BY DEF RemoveLine, UpdateQuantity, UpdateLineDiscount, UpdateOrderDiscount,
   AddRecommendation, Edits, Handler,
       LineFields, OrderDiscountField, RecommendationCard, QuotationRoute, DiscountsRoute, AddToQuoteRoute

Tagged(e) == Entry(e, e.name, e.form.page, e.form.flag)
LEMMA EntryTag ==
    ASSUME NEW e, NEW name, NEW on, NEW flag, Entry(e, name, on, flag)
    PROVE  e.name = name /\ e.form.page = on /\ e.form.flag = flag /\ Tagged(e)
BY DEF Entry, Tagged

ItsPage(h) == h.form.page
ItsFlag(h) == h.form.flag
NoFlag == ""
LEMMA EntryPage ==
    ASSUME NEW e, NEW name, NEW on, NEW flag, Entry(e, name, on, flag) PROVE ItsPage(e) = on
BY DEF Entry, ItsPage

LEMMA EntryFlag ==
    ASSUME NEW e, NEW name, NEW on, NEW flag, Entry(e, name, on, flag) PROVE ItsFlag(e) = flag
BY DEF Entry, ItsFlag

(* No two handlers share a name, nor do two on a page a busy state.        *)
LEMMA NamesDiffer ==
    ASSUME Entries, NEW g \in AllHandlers, NEW h \in AllHandlers, g.name = h.name PROVE g = h
<1>1. /\ CreateQuotation.name = "CreateQuotation" /\ AddLine.name = "AddLine"
      /\ RemoveLine.name = "EditDraft" /\ UpdateQuantity.name = "EditDraft"
      /\ UpdateLineDiscount.name = "EditDraft" /\ UpdateOrderDiscount.name = "EditDraft"
      /\ AddRecommendation.name = "EditDraft" /\ SubmitQuotation.name = "SubmitQuotation"
      /\ NegotiationResolved.name = "NegotiationResolved"
      /\ ResolveNegotiation.name = "ResolveNegotiation" /\ Decide.name = "Decide"
      /\ CreateRule.name = "CreateRule" /\ UpdateRule.name = "UpdateRule"
      /\ DeleteRule.name = "DeleteRule" /\ CreateSubscription.name = "CreateSubscription"
      /\ ApplyModify.name = "ApplyModify" /\ ConfirmCancel.name = "ConfirmCancel"
      /\ SubmitNegotiation.name = "SubmitNegotiation" /\ Confirm.name = "Confirm"
      /\ AcceptSplit.name = "AcceptSplit" /\ OverrideSubmit.name = "OverrideSubmit"
      /\ CreateInvoice.name = "CreateInvoice" /\ RecordPayment.name = "RecordPayment"
      /\ CreateWarehouse.name = "CreateWarehouse" /\ UpdateStock.name = "UpdateStock"
      /\ CreateCustomer.name = "CreateCustomer" /\ CreateTier.name = "CreateTier"
      /\ CreateUser.name = "CreateUser" /\ Deactivate.name = "Deactivate"
      /\ Reactivate.name = "Reactivate" /\ CreateDiscountRule.name = "CreateDiscountRule"
      /\ CreatePriceList.name = "CreatePriceList" /\ CreatePlan.name = "CreatePlan"
      /\ CreateCategory.name = "CreateCategory" /\ SaveProduct.name = "SaveProduct"
      /\ RefreshDeal.name = "RefreshDeal" /\ DismissAlert.name = "DismissAlert"
  BY EntryTag DEF Entries
<1>2. CASE h \in QuotationHandlers
  BY ONLY <1>1, <1>2, SameEdits, g \in AllHandlers, g.name = h.name DEF AllHandlers,
     QuotationHandlers
<1>3. CASE h \in {ResolveNegotiation, Decide, CreateRule, UpdateRule, DeleteRule, CreateSubscription, ApplyModify, ConfirmCancel}
  BY ONLY <1>1, <1>3, SameEdits, g \in AllHandlers, g.name = h.name DEF AllHandlers,
     QuotationHandlers
<1>4. CASE h \in {SubmitNegotiation, Confirm, AcceptSplit, OverrideSubmit, CreateInvoice, RecordPayment, CreateWarehouse}
  BY ONLY <1>1, <1>4, SameEdits, g \in AllHandlers, g.name = h.name DEF AllHandlers,
     QuotationHandlers
<1>5. CASE h \in {UpdateStock, CreateCustomer, CreateTier, CreateUser, Deactivate, Reactivate, CreateDiscountRule}
  BY ONLY <1>1, <1>5, SameEdits, g \in AllHandlers, g.name = h.name DEF AllHandlers,
     QuotationHandlers
<1>6. CASE h \in {CreatePriceList, CreatePlan, CreateCategory, SaveProduct, RefreshDeal, DismissAlert}
  BY ONLY <1>1, <1>6, SameEdits, g \in AllHandlers, g.name = h.name DEF AllHandlers,
     QuotationHandlers
<1> QED
  BY ONLY <1>2, <1>3, <1>4, <1>5, <1>6, h \in AllHandlers DEF AllHandlers

LEMMA EntryOf == ASSUME Entries, NEW h \in AllHandlers PROVE Tagged(h)
<1>1. /\ Tagged(CreateQuotation) /\ Tagged(AddLine) /\ Tagged(RemoveLine)
      /\ Tagged(UpdateQuantity) /\ Tagged(UpdateLineDiscount) /\ Tagged(UpdateOrderDiscount)
      /\ Tagged(AddRecommendation) /\ Tagged(SubmitQuotation) /\ Tagged(ResolveNegotiation)
      /\ Tagged(NegotiationResolved)
      /\ Tagged(Decide) /\ Tagged(CreateRule) /\ Tagged(UpdateRule)
      /\ Tagged(DeleteRule) /\ Tagged(CreateSubscription) /\ Tagged(ApplyModify)
      /\ Tagged(ConfirmCancel) /\ Tagged(SubmitNegotiation) /\ Tagged(Confirm)
      /\ Tagged(AcceptSplit) /\ Tagged(OverrideSubmit) /\ Tagged(CreateInvoice)
      /\ Tagged(RecordPayment) /\ Tagged(CreateWarehouse) /\ Tagged(UpdateStock)
      /\ Tagged(CreateCustomer) /\ Tagged(CreateTier) /\ Tagged(CreateUser)
      /\ Tagged(Deactivate) /\ Tagged(Reactivate) /\ Tagged(CreateDiscountRule)
      /\ Tagged(CreatePriceList) /\ Tagged(CreatePlan) /\ Tagged(CreateCategory)
      /\ Tagged(SaveProduct) /\ Tagged(RefreshDeal) /\ Tagged(DismissAlert)
  BY EntryTag DEF Entries
<1> QED
  BY ONLY <1>1, h \in AllHandlers DEF AllHandlers, QuotationHandlers


Places ==
    /\ ItsPage(CreateQuotation) = "Quotations" /\ ItsPage(AddLine) = "Quotations"
    /\ ItsPage(RemoveLine) = "Quotations" /\ ItsPage(UpdateQuantity) = "Quotations"
    /\ ItsPage(UpdateLineDiscount) = "Quotations" /\ ItsPage(UpdateOrderDiscount) = "Quotations"
    /\ ItsPage(AddRecommendation) = "Quotations" /\ ItsPage(SubmitQuotation) = "Quotations"
    /\ ItsPage(NegotiationResolved) = "Quotations"
    /\ ItsPage(ResolveNegotiation) = "Negotiation"
    /\ ItsPage(Decide) = "Queue"
    /\ ItsPage(CreateRule) = "Rules" /\ ItsPage(UpdateRule) = "Rules"
    /\ ItsPage(DeleteRule) = "Rules"
    /\ ItsPage(CreateSubscription) = "Subscriptions" /\ ItsPage(ApplyModify) = "Subscriptions"
    /\ ItsPage(ConfirmCancel) = "Subscriptions"
    /\ ItsPage(SubmitNegotiation) = "Portal" /\ ItsPage(Confirm) = "Portal"
    /\ ItsPage(AcceptSplit) = "Order" /\ ItsPage(OverrideSubmit) = "Order"
    /\ ItsPage(CreateInvoice) = "Invoices" /\ ItsPage(RecordPayment) = "Invoices"
    /\ ItsPage(CreateWarehouse) = "Warehouses" /\ ItsPage(UpdateStock) = "Warehouses"
    /\ ItsPage(CreateCustomer) = "Customers" /\ ItsPage(CreateTier) = "Customers"
    /\ ItsPage(CreateUser) = "Users" /\ ItsPage(Deactivate) = "Users"
    /\ ItsPage(Reactivate) = "Users"
    /\ ItsPage(CreateDiscountRule) = "DiscountRules"
    /\ ItsPage(CreatePriceList) = "PriceLists"
    /\ ItsPage(CreatePlan) = "Plans"
    /\ ItsPage(CreateCategory) = "Categories"
    /\ ItsPage(SaveProduct) = "Product"
    /\ ItsPage(RefreshDeal) = "Alerts" /\ ItsPage(DismissAlert) = "Alerts"

LEMMA PlacesHold == Entries => Places
<1> SUFFICES ASSUME Entries PROVE Places
  OBVIOUS
<1>1. /\ ItsPage(CreateQuotation) = "Quotations" /\ ItsPage(AddLine) = "Quotations"
      /\ ItsPage(RemoveLine) = "Quotations" /\ ItsPage(UpdateQuantity) = "Quotations"
      /\ ItsPage(UpdateLineDiscount) = "Quotations" /\ ItsPage(UpdateOrderDiscount) = "Quotations"
      /\ ItsPage(AddRecommendation) = "Quotations" /\ ItsPage(SubmitQuotation) = "Quotations"
      /\ ItsPage(NegotiationResolved) = "Quotations"
  BY EntryPage DEF Entries
<1>2. /\ ItsPage(ResolveNegotiation) = "Negotiation" /\ ItsPage(Decide) = "Queue"
  BY EntryPage DEF Entries
<1>3. /\ ItsPage(CreateRule) = "Rules" /\ ItsPage(UpdateRule) = "Rules"
      /\ ItsPage(DeleteRule) = "Rules"
  BY EntryPage DEF Entries
<1>4. /\ ItsPage(CreateSubscription) = "Subscriptions" /\ ItsPage(ApplyModify) = "Subscriptions"
      /\ ItsPage(ConfirmCancel) = "Subscriptions"
  BY EntryPage DEF Entries
<1>5. /\ ItsPage(SubmitNegotiation) = "Portal" /\ ItsPage(Confirm) = "Portal"
  BY EntryPage DEF Entries
<1>6. /\ ItsPage(AcceptSplit) = "Order" /\ ItsPage(OverrideSubmit) = "Order"
  BY EntryPage DEF Entries
<1>7. /\ ItsPage(CreateInvoice) = "Invoices" /\ ItsPage(RecordPayment) = "Invoices"
  BY EntryPage DEF Entries
<1>8. /\ ItsPage(CreateWarehouse) = "Warehouses" /\ ItsPage(UpdateStock) = "Warehouses"
  BY EntryPage DEF Entries
<1>9. /\ ItsPage(CreateCustomer) = "Customers" /\ ItsPage(CreateTier) = "Customers"
  BY EntryPage DEF Entries
<1>10. /\ ItsPage(CreateUser) = "Users" /\ ItsPage(Deactivate) = "Users"
      /\ ItsPage(Reactivate) = "Users"
  BY EntryPage DEF Entries
<1>11. /\ ItsPage(CreateDiscountRule) = "DiscountRules"
  BY EntryPage DEF Entries
<1>12. /\ ItsPage(CreatePriceList) = "PriceLists"
  BY EntryPage DEF Entries
<1>13. /\ ItsPage(CreatePlan) = "Plans"
  BY EntryPage DEF Entries
<1>14. /\ ItsPage(CreateCategory) = "Categories"
  BY EntryPage DEF Entries
<1>15. /\ ItsPage(SaveProduct) = "Product"
  BY EntryPage DEF Entries
<1>16. /\ ItsPage(RefreshDeal) = "Alerts" /\ ItsPage(DismissAlert) = "Alerts"
  BY EntryPage DEF Entries
<1> QED
  BY ONLY <1>1, <1>2, <1>3, <1>4, <1>5, <1>6, <1>7, <1>8, <1>9, <1>10, <1>11, <1>12,
     <1>13, <1>14, <1>15, <1>16 DEF Places

LEMMA FlagsDiffer ==
    ASSUME Entries, NEW g \in AllHandlers, NEW h \in AllHandlers,
           ItsPage(g) = ItsPage(h), ItsFlag(g) = ItsFlag(h), ItsFlag(h) # NoFlag
    PROVE  g = h
<1>1. Places
  BY PlacesHold
<1>2. ItsPage(h) \in {"Quotations", "Queue", "Rules", "Subscriptions", "Portal", "Order",
       "Invoices", "Warehouses", "Customers", "Users", "DiscountRules", "PriceLists",
       "Plans", "Categories", "Product", "Alerts", "Negotiation"}
  BY ONLY <1>1, h \in AllHandlers DEF Places, AllHandlers, QuotationHandlers
<1>3. CASE ItsPage(h) = "Quotations"
  <2>1. /\ g \in QuotationHandlers
        /\ h \in QuotationHandlers
    BY ONLY <1>1, <1>3, g \in AllHandlers, h \in AllHandlers, ItsPage(g) = ItsPage(h)
       DEF Places, AllHandlers, QuotationHandlers
  <2>2. /\ ItsFlag(CreateQuotation) = "createSubmitting" /\ ItsFlag(AddLine) = "addLineSubmitting"
        /\ ItsFlag(RemoveLine) = NoFlag /\ ItsFlag(UpdateQuantity) = NoFlag
        /\ ItsFlag(UpdateLineDiscount) = NoFlag /\ ItsFlag(UpdateOrderDiscount) = NoFlag
        /\ ItsFlag(AddRecommendation) = NoFlag /\ ItsFlag(SubmitQuotation) = NoFlag
        /\ ItsFlag(NegotiationResolved) = NoFlag
    BY EntryFlag DEF Entries, NoFlag
  <2>3. /\ g \in {CreateQuotation, AddLine}
        /\ h \in {CreateQuotation, AddLine}
    BY ONLY <2>1, <2>2, g \in AllHandlers, h \in AllHandlers, ItsFlag(g) = ItsFlag(h),
       ItsFlag(h) # NoFlag DEF QuotationHandlers
  <2> QED
    BY ONLY <2>2, <2>3, g \in AllHandlers, h \in AllHandlers, ItsFlag(g) = ItsFlag(h)
<1>4. CASE ItsPage(h) = "Queue"
  <2>1. /\ g \in {Decide}
        /\ h \in {Decide}
    BY ONLY <1>1, <1>4, g \in AllHandlers, h \in AllHandlers, ItsPage(g) = ItsPage(h)
       DEF Places, AllHandlers, QuotationHandlers
  <2> QED
    BY ONLY <2>1
<1>5. CASE ItsPage(h) = "Rules"
  <2>1. /\ g \in {CreateRule, UpdateRule, DeleteRule}
        /\ h \in {CreateRule, UpdateRule, DeleteRule}
    BY ONLY <1>1, <1>5, g \in AllHandlers, h \in AllHandlers, ItsPage(g) = ItsPage(h)
       DEF Places, AllHandlers, QuotationHandlers
  <2>2. /\ ItsFlag(CreateRule) = "createSubmitting" /\ ItsFlag(UpdateRule) = "editSubmitting"
        /\ ItsFlag(DeleteRule) = NoFlag
    BY EntryFlag DEF Entries, NoFlag
  <2> QED
    BY ONLY <2>1, <2>2, g \in AllHandlers, h \in AllHandlers, ItsFlag(g) = ItsFlag(h),
       ItsFlag(h) # NoFlag
<1>6. CASE ItsPage(h) = "Subscriptions"
  <2>1. /\ g \in {CreateSubscription, ApplyModify, ConfirmCancel}
        /\ h \in {CreateSubscription, ApplyModify, ConfirmCancel}
    BY ONLY <1>1, <1>6, g \in AllHandlers, h \in AllHandlers, ItsPage(g) = ItsPage(h)
       DEF Places, AllHandlers, QuotationHandlers
  <2>2. /\ ItsFlag(CreateSubscription) = "createSubmitting" /\ ItsFlag(ApplyModify) = "modifySubmitting"
        /\ ItsFlag(ConfirmCancel) = "cancelSubmitting"
    BY EntryFlag DEF Entries, NoFlag
  <2> QED
    BY ONLY <2>1, <2>2, g \in AllHandlers, h \in AllHandlers, ItsFlag(g) = ItsFlag(h),
       ItsFlag(h) # NoFlag
<1>7. CASE ItsPage(h) = "Portal"
  <2>1. /\ g \in {SubmitNegotiation, Confirm}
        /\ h \in {SubmitNegotiation, Confirm}
    BY ONLY <1>1, <1>7, g \in AllHandlers, h \in AllHandlers, ItsPage(g) = ItsPage(h)
       DEF Places, AllHandlers, QuotationHandlers
  <2>2. /\ ItsFlag(SubmitNegotiation) = "submitting" /\ ItsFlag(Confirm) = "confirmStep"
    BY EntryFlag DEF Entries, NoFlag
  <2> QED
    BY ONLY <2>1, <2>2, g \in AllHandlers, h \in AllHandlers, ItsFlag(g) = ItsFlag(h),
       ItsFlag(h) # NoFlag
<1>8. CASE ItsPage(h) = "Order"
  <2>1. /\ g \in {AcceptSplit, OverrideSubmit}
        /\ h \in {AcceptSplit, OverrideSubmit}
    BY ONLY <1>1, <1>8, g \in AllHandlers, h \in AllHandlers, ItsPage(g) = ItsPage(h)
       DEF Places, AllHandlers, QuotationHandlers
  <2>2. /\ ItsFlag(AcceptSplit) = "acceptingSplit" /\ ItsFlag(OverrideSubmit) = "overriding"
    BY EntryFlag DEF Entries, NoFlag
  <2> QED
    BY ONLY <2>1, <2>2, g \in AllHandlers, h \in AllHandlers, ItsFlag(g) = ItsFlag(h),
       ItsFlag(h) # NoFlag
<1>9. CASE ItsPage(h) = "Invoices"
  <2>1. /\ g \in {CreateInvoice, RecordPayment}
        /\ h \in {CreateInvoice, RecordPayment}
    BY ONLY <1>1, <1>9, g \in AllHandlers, h \in AllHandlers, ItsPage(g) = ItsPage(h)
       DEF Places, AllHandlers, QuotationHandlers
  <2>2. /\ ItsFlag(CreateInvoice) = "submitting" /\ ItsFlag(RecordPayment) = "payingId"
    BY EntryFlag DEF Entries, NoFlag
  <2> QED
    BY ONLY <2>1, <2>2, g \in AllHandlers, h \in AllHandlers, ItsFlag(g) = ItsFlag(h),
       ItsFlag(h) # NoFlag
<1>10. CASE ItsPage(h) = "Warehouses"
  <2>1. /\ g \in {CreateWarehouse, UpdateStock}
        /\ h \in {CreateWarehouse, UpdateStock}
    BY ONLY <1>1, <1>10, g \in AllHandlers, h \in AllHandlers, ItsPage(g) = ItsPage(h)
       DEF Places, AllHandlers, QuotationHandlers
  <2>2. /\ ItsFlag(CreateWarehouse) = "submittingWh" /\ ItsFlag(UpdateStock) = "submittingStock"
    BY EntryFlag DEF Entries, NoFlag
  <2> QED
    BY ONLY <2>1, <2>2, g \in AllHandlers, h \in AllHandlers, ItsFlag(g) = ItsFlag(h),
       ItsFlag(h) # NoFlag
<1>11. CASE ItsPage(h) = "Customers"
  <2>1. /\ g \in {CreateCustomer, CreateTier}
        /\ h \in {CreateCustomer, CreateTier}
    BY ONLY <1>1, <1>11, g \in AllHandlers, h \in AllHandlers, ItsPage(g) = ItsPage(h)
       DEF Places, AllHandlers, QuotationHandlers
  <2>2. /\ ItsFlag(CreateCustomer) = "createSubmitting" /\ ItsFlag(CreateTier) = "tierCreateSubmitting"
    BY EntryFlag DEF Entries, NoFlag
  <2> QED
    BY ONLY <2>1, <2>2, g \in AllHandlers, h \in AllHandlers, ItsFlag(g) = ItsFlag(h),
       ItsFlag(h) # NoFlag
<1>12. CASE ItsPage(h) = "Users"
  <2>1. /\ g \in {CreateUser, Deactivate, Reactivate}
        /\ h \in {CreateUser, Deactivate, Reactivate}
    BY ONLY <1>1, <1>12, g \in AllHandlers, h \in AllHandlers, ItsPage(g) = ItsPage(h)
       DEF Places, AllHandlers, QuotationHandlers
  <2>2. /\ ItsFlag(CreateUser) = "createSubmitting" /\ ItsFlag(Deactivate) = NoFlag
        /\ ItsFlag(Reactivate) = NoFlag
    BY EntryFlag DEF Entries, NoFlag
  <2> QED
    BY ONLY <2>1, <2>2, g \in AllHandlers, h \in AllHandlers, ItsFlag(g) = ItsFlag(h),
       ItsFlag(h) # NoFlag
<1>13. CASE ItsPage(h) = "DiscountRules"
  <2>1. /\ g \in {CreateDiscountRule}
        /\ h \in {CreateDiscountRule}
    BY ONLY <1>1, <1>13, g \in AllHandlers, h \in AllHandlers, ItsPage(g) = ItsPage(h)
       DEF Places, AllHandlers, QuotationHandlers
  <2> QED
    BY ONLY <2>1
<1>14. CASE ItsPage(h) = "PriceLists"
  <2>1. /\ g \in {CreatePriceList}
        /\ h \in {CreatePriceList}
    BY ONLY <1>1, <1>14, g \in AllHandlers, h \in AllHandlers, ItsPage(g) = ItsPage(h)
       DEF Places, AllHandlers, QuotationHandlers
  <2> QED
    BY ONLY <2>1
<1>15. CASE ItsPage(h) = "Plans"
  <2>1. /\ g \in {CreatePlan}
        /\ h \in {CreatePlan}
    BY ONLY <1>1, <1>15, g \in AllHandlers, h \in AllHandlers, ItsPage(g) = ItsPage(h)
       DEF Places, AllHandlers, QuotationHandlers
  <2> QED
    BY ONLY <2>1
<1>16. CASE ItsPage(h) = "Categories"
  <2>1. /\ g \in {CreateCategory}
        /\ h \in {CreateCategory}
    BY ONLY <1>1, <1>16, g \in AllHandlers, h \in AllHandlers, ItsPage(g) = ItsPage(h)
       DEF Places, AllHandlers, QuotationHandlers
  <2> QED
    BY ONLY <2>1
<1>17. CASE ItsPage(h) = "Product"
  <2>1. /\ g \in {SaveProduct}
        /\ h \in {SaveProduct}
    BY ONLY <1>1, <1>17, g \in AllHandlers, h \in AllHandlers, ItsPage(g) = ItsPage(h)
       DEF Places, AllHandlers, QuotationHandlers
  <2> QED
    BY ONLY <2>1
<1>18. CASE ItsPage(h) = "Alerts"
  <2>1. /\ g \in {RefreshDeal, DismissAlert}
        /\ h \in {RefreshDeal, DismissAlert}
    BY ONLY <1>1, <1>18, g \in AllHandlers, h \in AllHandlers, ItsPage(g) = ItsPage(h)
       DEF Places, AllHandlers, QuotationHandlers
  <2>2. /\ ItsFlag(RefreshDeal) = "refreshing" /\ ItsFlag(DismissAlert) = "dismissing"
    BY EntryFlag DEF Entries, NoFlag
  <2> QED
    BY ONLY <2>1, <2>2, g \in AllHandlers, h \in AllHandlers, ItsFlag(g) = ItsFlag(h),
       ItsFlag(h) # NoFlag
<1>19. CASE ItsPage(h) = "Negotiation"
  <2>1. /\ g \in {ResolveNegotiation}
        /\ h \in {ResolveNegotiation}
    BY ONLY <1>1, <1>19, g \in AllHandlers, h \in AllHandlers, ItsPage(g) = ItsPage(h)
       DEF Places, AllHandlers, QuotationHandlers
  <2> QED
    BY ONLY <2>1
<1> QED
  BY ONLY <1>2, <1>3, <1>4, <1>5, <1>6, <1>7, <1>8, <1>9, <1>10, <1>11, <1>12, <1>13,
     <1>14, <1>15, <1>16, <1>17, <1>18, <1>19

(* How the pages fill their windows.                                       *)
Window(p, name, modal) ==
    p.name = name /\ p.modal = modal /\ (modal = "copied" <=> name \in CopiedPages)
        /\ modal \in {"fetched", "copied", "page", "none"}
Windowed(p) == Window(p, p.name, p.modal)
LEMMA WindowTag == ASSUME NEW p, NEW name, NEW modal, Window(p, name, modal) PROVE Windowed(p)
BY DEF Window, Windowed

LEMMA Windows == ASSUME NEW p \in AllPages PROVE Windowed(p)
<1> USE DEF Window, Page, CopiedPages
<1>1. Window(QuotationsPage, "Quotations", "fetched")
  BY DEF QuotationsPage
<1>2. Window(QueuePage, "Queue", "none")
  BY DEF QueuePage
<1>3. Window(RulesPage, "Rules", "copied")
  BY DEF RulesPage
<1>4. Window(SubscriptionsPage, "Subscriptions", "copied")
  BY DEF SubscriptionsPage
<1>5. Window(PortalPage, "Portal", "page")
  BY DEF PortalPage
<1>6. Window(OrderPage, "Order", "page")
  BY DEF OrderPage
<1>7. Window(InvoicesPage, "Invoices", "none")
  BY DEF InvoicesPage
<1>8. Window(WarehousesPage, "Warehouses", "none")
  BY DEF WarehousesPage
<1>9. Window(CustomersPage, "Customers", "none")
  BY DEF CustomersPage
<1>10. Window(UsersPage, "Users", "none")
  BY DEF UsersPage
<1>11. Window(DiscountRulesPage, "DiscountRules", "none")
  BY DEF DiscountRulesPage
<1>12. Window(PriceListsPage, "PriceLists", "none")
  BY DEF PriceListsPage
<1>13. Window(PlansPage, "Plans", "none")
  BY DEF PlansPage
<1>14. Window(CategoriesPage, "Categories", "none")
  BY DEF CategoriesPage
<1>15. Window(ProductPage, "Product", "page")
  BY DEF ProductPage
<1>16. Window(AlertsPage, "Alerts", "none")
  BY DEF AlertsPage
<1>17. Window(PortalListPage, "PortalList", "none")
  BY DEF PortalListPage
<1>18. Window(OrdersPage, "Orders", "none")
  BY DEF OrdersPage
<1>20. Window(NegotiationPage, "Negotiation", "page")
  BY DEF NegotiationPage
<1> HIDE DEF Window
<1>19. /\ Windowed(QuotationsPage) /\ Windowed(NegotiationPage) /\ Windowed(QueuePage) /\ Windowed(RulesPage)
      /\ Windowed(SubscriptionsPage) /\ Windowed(PortalPage) /\ Windowed(OrderPage)
      /\ Windowed(InvoicesPage) /\ Windowed(WarehousesPage) /\ Windowed(CustomersPage)
      /\ Windowed(UsersPage) /\ Windowed(DiscountRulesPage) /\ Windowed(PriceListsPage)
      /\ Windowed(PlansPage) /\ Windowed(CategoriesPage) /\ Windowed(ProductPage)
      /\ Windowed(AlertsPage) /\ Windowed(PortalListPage) /\ Windowed(OrdersPage)
  BY WindowTag, <1>1, <1>2, <1>3, <1>4, <1>5, <1>6, <1>7, <1>8, <1>9, <1>10, <1>11,
     <1>12, <1>13, <1>14, <1>15, <1>16, <1>17, <1>18, <1>20
<1> QED
  BY ONLY <1>19, p \in AllPages DEF AllPages

(* The tables of what the pages offer and what their handlers do agree with *)
(* the routes' and with one another.                                       *)
THEOREM TheTablesAgree == TheTables => TablesAgree
<1> SUFFICES ASSUME TheTables PROVE TablesAgree
  OBVIOUS
<1>1. Entries
  BY EntriesHold
<1>2. Handlers \subseteq AllHandlers /\ PageSet \subseteq AllPages
  BY DEF TheTables
<1>3. \A g, h \in Handlers : g.name = h.name => g = h
  BY <1>1, <1>2, NamesDiffer
<1>4. ASSUME NEW h \in Handlers PROVE HandlerOK(h) /\ (Single(h) => SingleOK(h))
  <2>1. Tagged(h)
    BY <1>1, <1>2, EntryOf
  <2>2. HandlerOK(h)
    BY <2>1 DEF Tagged, Entry
  <2>3. ASSUME Single(h) PROVE SingleOK(h)
    <3>1. /\ h.form.marks = "form" /\ h.form.flag # ""
          /\ "clear" \in h.atOnce
          /\ h.loads \in {<<>>, <<"list">>, <<"detail", "list">>}
          /\ h.form.reads # "list"
      BY <2>1, <2>3 DEF Tagged, Entry
    <3>2. \A g \in Handlers : g.form.page = h.form.page /\ g.form.flag = h.form.flag => g = h
      BY <1>1, <1>2, <3>1, FlagsDiffer DEF ItsPage, ItsFlag, NoFlag
    <3> QED
      BY <3>1, <3>2 DEF SingleOK
  <2> QED
    BY <2>2, <2>3
<1>5. ASSUME NEW p \in PageSet PROVE PageOK(p)
  <2>1. /\ p.modal \in {"fetched", "copied", "page", "none"}
        /\ p.modal = "copied" <=> p.name \in CopiedPages
    BY <1>2, Windows DEF Windowed, Window
  <2>2. ASSUME NEW h \in OfPage[p.name] PROVE OnPageOK(p, h)
    <3>1. h \in Handlers /\ h.form.page = p.name
      BY DEF OfPage
    <3>2. Tagged(h)
      BY <1>1, <1>2, <3>1, EntryOf
    <3> QED
      BY <2>1, <3>1, <3>2 DEF Tagged, Entry, OnPageOK
  <2> QED
    BY <2>1, <2>2 DEF PageOK
<1> QED
  BY <1>3, <1>4, <1>5 DEF TablesAgree

(* The definitions by which the tables are read.                           *)
LEMMA StateFacts ==
    /\ \A h \in Handlers : h.route.gives \subseteq States
    /\ \A p \in PageSet : /\ \A r \in Rows : p.starts[r] \in States
                          /\ \A m \in p.moves : m[2] \in States
<1>1. PICK SS : SS = {h.route.gives : h \in Handlers} \cup {Starts(p) : p \in PageSet}
  OBVIOUS
<1>2. /\ \A h \in Handlers : h.route.gives \in SS
      /\ \A p \in PageSet : Starts(p) \in SS
  BY <1>1
<1>3. \A S \in SS : S \subseteq States
  BY <1>1 DEF States
<1>4. ASSUME NEW p \in PageSet
      PROVE  /\ \A r \in Rows : p.starts[r] \in Starts(p)
             /\ \A m \in p.moves : m[2] \in Starts(p)
  BY DEF Starts
<1> QED
  BY <1>2, <1>3, <1>4

LEMMA PageFacts ==
    ASSUME page \in PageSet
    PROVE  OfPage[page.name] = {h \in Handlers : h.form.page = page.name}
BY DEF OfPage

LEMMA OwnerFacts ==
    ASSUME TablesAgree, page \in PageSet, NEW c, OwnerOK(c), c.h.name # ""
    PROVE  /\ Owner(c) \in Handlers /\ Owner(c) \in OfPage[page.name]
           /\ Owner(c).name = c.h.name
           /\ HandlerOK(Owner(c))
           /\ OnPageOK(page, Owner(c))
           /\ Single(Owner(c)) => SingleOK(Owner(c))
<1>1. Owner(c) \in OfPage[page.name] /\ Owner(c).name = c.h.name
  BY DEF OwnerOK, Owner
<1>2. Owner(c) \in Handlers
  BY <1>1, PageFacts
<1> QED
  BY <1>1, <1>2 DEF TablesAgree, PageOK

LEMMA HandlerFacts ==
    ASSUME TablesAgree, page \in PageSet, NEW h \in OfPage[page.name]
    PROVE  /\ h \in Handlers /\ h.form.page = page.name
           /\ HandlerOK(h) /\ OnPageOK(page, h)
           /\ Single(h) => SingleOK(h)
           /\ h.name # "" /\ h.name \notin Rows
           /\ h.form.flag \in Flags(page) /\ h.name \in DraftKeys(page)
           /\ \A c : OwnerOK(c) /\ c.h.name = h.name => Owner(c) = h
<1>1. h \in Handlers /\ h.form.page = page.name
  BY PageFacts
<1>2. HandlerOK(h) /\ OnPageOK(page, h) /\ (Single(h) => SingleOK(h))
  BY <1>1 DEF TablesAgree, PageOK
<1>4. h.name # "" /\ h.name \notin Rows
  BY <1>2 DEF HandlerOK
<1>5. h.form.flag \in Flags(page) /\ h.name \in DraftKeys(page)
  BY DEF Flags, DraftKeys
<1>3. ASSUME NEW c, OwnerOK(c), c.h.name = h.name
      PROVE  Owner(c) = h
  <2>1. Owner(c) \in Handlers /\ Owner(c).name = h.name
    BY <1>3, <1>4, OwnerFacts DEF Owner
  <2> QED
    BY <1>1, <2>1 DEF TablesAgree
<1> QED
  BY <1>1, <1>2, <1>3, <1>4, <1>5

LEMMA NoOwner ==
    /\ JustLoads.form.flag = "" /\ JustLoads.form.marks = "none" /\ JustLoads.form.reads = "new"
    /\ JustLoads.atOnce = {} /\ JustLoads.loads = <<>> /\ Single(JustLoads)
    /\ JustLoads.name = ""
    /\ \A c : OwnerOK(c) /\ c.h.name = "" => Owner(c) = JustLoads
BY DEF JustLoads, Handler, Form, Route, Single, Owner, OwnerOK

LEMMA OwnerFlag ==
    ASSUME TablesAgree, page \in PageSet, NEW c, OwnerOK(c)
    PROVE  Owner(c).form.flag \in Flags(page)
<1>1. CASE c.h.name = ""
  BY <1>1, NoOwner DEF Flags
<1>2. CASE c.h.name # ""
  BY <1>2, OwnerFacts DEF Flags
<1> QED
  BY <1>1, <1>2

(* The forms of which a draft takes effect once have their busy state to themselves. *)
LEMMA SingleAlone ==
    ASSUME TablesAgree, page \in PageSet, NEW h \in OfPage[page.name], Single(h),
           NEW c, OwnerOK(c), c.h.name # h.name
    PROVE  Owner(c).form.flag # h.form.flag
<1>1. SingleOK(h) /\ h \in Handlers /\ h.form.page = page.name
  BY HandlerFacts
<1>2. CASE c.h.name = ""
  BY <1>1, <1>2, NoOwner DEF SingleOK
<1>3. CASE c.h.name # ""
  <2>1. Owner(c) \in Handlers /\ Owner(c) \in OfPage[page.name] /\ Owner(c).name = c.h.name
    BY <1>3, OwnerFacts
  <2>2. Owner(c).form.page = page.name
    BY <2>1, PageFacts
  <2> QED
    BY <1>1, <2>1, <2>2 DEF SingleOK
<1> QED
  BY <1>2, <1>3

-----------------------------------------------------------------------------
(* Counting.                                                               *)

LEMMA CountType == ASSUME NEW pc PROVE CountOf(pc) \in Nat
<1>1. {t \in Tasks : task[t].pc = pc} \subseteq Tasks
  OBVIOUS
<1> QED
  BY <1>1, ScreensConstants, FS_Subset, FS_CardinalityType DEF CountOf, ScreensConstants

LEMMA CountNext == ASSUME NEW pc PROVE CountOf(pc)' \in Nat
<1>1. {t \in Tasks : task'[t].pc = pc} \subseteq Tasks
  OBVIOUS
<1> QED
  BY <1>1, ScreensConstants, FS_Subset, FS_CardinalityType DEF CountOf, ScreensConstants

LEMMA CountSame ==
    ASSUME NEW pc, \A t \in Tasks : task'[t].pc = pc <=> task[t].pc = pc
    PROVE  CountOf(pc)' = CountOf(pc)
<1>1. {t \in Tasks : task'[t].pc = pc} = {t \in Tasks : task[t].pc = pc}
  OBVIOUS
<1> QED
  BY <1>1 DEF CountOf

LEMMA CountUp ==
    ASSUME NEW pc, NEW t \in Tasks, task[t].pc # pc, task'[t].pc = pc,
           \A u \in Tasks \ {t} : task'[u] = task[u]
    PROVE  CountOf(pc)' = CountOf(pc) + 1
<1>1. PICK S : S = {u \in Tasks : task[u].pc = pc}
  OBVIOUS
<1>2. {u \in Tasks : task'[u].pc = pc} = S \cup {t}
  BY <1>1
<1>3. IsFiniteSet(S) /\ t \notin S
  BY <1>1, ScreensConstants, FS_Subset DEF ScreensConstants
<1>4. Cardinality(S \cup {t}) = Cardinality(S) + 1
  BY <1>3, FS_AddElement
<1> QED
  BY <1>1, <1>2, <1>4 DEF CountOf

LEMMA CountDown ==
    ASSUME NEW pc, NEW t \in Tasks, task[t].pc = pc, task'[t].pc # pc,
           \A u \in Tasks \ {t} : task'[u] = task[u]
    PROVE  CountOf(pc)' = CountOf(pc) - 1
<1>1. PICK S : S = {u \in Tasks : task[u].pc = pc}
  OBVIOUS
<1>2. {u \in Tasks : task'[u].pc = pc} = S \ {t}
  BY <1>1
<1>3. IsFiniteSet(S) /\ t \in S
  BY <1>1, ScreensConstants, FS_Subset DEF ScreensConstants
<1>4. Cardinality(S \ {t}) = Cardinality(S) - 1
  BY <1>3, FS_RemoveElement
<1> QED
  BY <1>1, <1>2, <1>4 DEF CountOf

-----------------------------------------------------------------------------
(* The copies grow old, and what fits stays fitting.                       *)
FitsKept == \A x : \A r \in Rows : Fits(x, r) => Fits(x, r)'

LEMMA NothingChanges ==
    ASSUME CopiesInv, clock \in Nat, row' = row, clock' \in {clock, clock + 1}
    PROVE  /\ FitsKept
           /\ row' \in [Rows -> Copy] /\ \A r \in Rows : row'[r].version <= clock'
<1>1. \A x \in Copy : x.version \in Nat
  BY DEF Copy
<1>2. clock <= clock' /\ clock' \in Nat
  OBVIOUS
<1>3. \A r \in Rows : row[r] \in Copy /\ row[r].version <= clock
  BY DEF CopiesInv
<1>4. \A r \in Rows : row'[r].version <= clock'
  BY <1>1, <1>2, <1>3
<1>5. \A x \in Copy : x.version <= clock => x.version <= clock'
  BY <1>1, <1>2
<1>6. FitsKept
  BY <1>5 DEF FitsKept, Fits
<1> QED
  BY <1>4, <1>6 DEF CopiesInv

LEMMA ARowChanges ==
    ASSUME CopiesInv, clock \in Nat, NEW rs \in SUBSET Rows, NEW s \in States, Change(rs, s)
    PROVE  /\ FitsKept
           /\ row' \in [Rows -> Copy] /\ \A r \in Rows : row'[r].version <= clock'
<1>1. CASE rs = {}
  BY <1>1, NothingChanges DEF Change
<1>2. CASE rs # {}
  <2>1. PICK q : q = CHOOSE r \in rs : TRUE
    OBVIOUS
  <2>2. q \in Rows
    BY <1>2, <2>1
  <2>3. clock' = clock + 1 /\ row' = [row EXCEPT ![q] = [state |-> s, version |-> clock + 1]]
    BY <1>2, <2>1 DEF Change
  <2>4. PICK new : new = [state |-> s, version |-> clock + 1]
    OBVIOUS
  <2>5. new \in Copy /\ new.version = clock + 1
    BY <2>4 DEF Copy
  <2>6. row \in [Rows -> Copy] /\ \A r \in Rows : row[r].version <= clock
    BY DEF CopiesInv
  <2>7. row' \in [Rows -> Copy] /\ row'[q] = new /\ \A r \in Rows \ {q} : row'[r] = row[r]
    BY <2>2, <2>3, <2>4, <2>5, <2>6
  <2>8. \A x \in Copy : x.version <= clock => x.version <= clock' /\ x.version # new.version
    BY <2>3, <2>5 DEF Copy
  <2>9. \A r \in Rows : row'[r].version <= clock'
    <3> SUFFICES ASSUME NEW r \in Rows PROVE row'[r].version <= clock'
      OBVIOUS
    <3>1. CASE r = q
      BY <2>3, <2>5, <2>7, <3>1
    <3>2. CASE r # q
      BY <2>6, <2>7, <2>8, <3>2
    <3> QED
      BY <3>1, <3>2
  <2>10. FitsKept
    BY <2>7, <2>8 DEF FitsKept, Fits
  <2> QED
    BY <2>7, <2>9, <2>10
<1> QED
  BY <1>1, <1>2

(* The tasks but one stay as they are.                                     *)
LEMMA TaskKept ==
    ASSUME FitsKept, page' = page, NEW c, TaskOK(c)
    PROVE  TaskOK(c)'
<1>1. OwnerOK(c) => OwnerOK(c)'
  BY DEF OwnerOK
<1>2. c.pc # "idle" => c.id \in Ids
  BY DEF TaskOK, OwnerOK
<1>3. c.pc \in {"sent", "refused"} => SentOK(c)'
  BY <1>2 DEF TaskOK, SentOK, Pressed, FitsKept, Ids
<1>4. c.pc \in Fetching => TodoOK(c)'
  BY DEF TaskOK, TodoOK
<1>5. c.pc = "read" => ReadOK(c)'
  <2> SUFFICES ASSUME c.pc = "read" PROVE ReadOK(c)'
    OBVIOUS
  <2>1. ReadOK(c) /\ TodoOK(c) /\ c.todo \in Loads
    BY DEF TaskOK, Fetching
  <2>2. Head(c.todo) = "list" \/ c.id \in Rows
    BY <2>1 DEF TodoOK, Loads
  <2> QED
    BY <2>1, <2>2 DEF ReadOK, FitsKept
<1>6. c.pc = "done" => ("reply" \in Owner(c).atOnce => c.id \in Rows /\ Fits(c.got, c.id)')
  BY DEF TaskOK, FitsKept
<1> QED
  BY <1>1, <1>3, <1>4, <1>5, <1>6 DEF TaskOK, TimerOK, PressedOK

LEMMA TasksStep ==
    ASSUME TasksInv, FitsKept, page' = page, NEW t \in Tasks, NEW new,
           task' = [task EXCEPT ![t] = new], TaskOK(new)'
    PROVE  TasksInv' /\ task'[t] = new /\ \A u \in Tasks \ {t} : task'[u] = task[u]
<1>1. task = [u \in Tasks |-> task[u]]
  BY DEF TasksInv
<1>2. /\ task'[t] = new
      /\ \A u \in Tasks \ {t} : task'[u] = task[u]
      /\ task' = [u \in Tasks |-> task'[u]]
  BY <1>1
<1>3. ASSUME NEW u \in Tasks PROVE TaskOK(task[u])'
  <2>1. CASE u = t
    <3>1. PICK d : d = task'[u] /\ d = new
      BY <1>2, <2>1
    <3> QED
      BY <1>2, <2>1
  <2>2. CASE u # t
    <3>1. PICK d : d = task[u]
      OBVIOUS
    <3>2. TaskOK(d)
      BY <3>1 DEF TasksInv
    <3>3. TaskOK(d)'
      BY <3>2, TaskKept
    <3> QED
      BY <3>1, <3>3, <1>2, <2>2
  <2> QED
    BY <2>1, <2>2
<1> QED
  BY <1>2, <1>3 DEF TasksInv

(* When no task takes a step, theirs stay as they should be.               *)
LEMMA TasksStay ==
    ASSUME TasksInv, FitsKept, page' = page, task' = task
    PROVE  TasksInv'
<1>1. ASSUME NEW u \in Tasks PROVE TaskOK(task[u])'
  <2>1. PICK d : d = task[u]
    OBVIOUS
  <2>2. TaskOK(d)
    BY <2>1 DEF TasksInv
  <2>3. TaskOK(d)'
    BY <2>2, TaskKept
  <2> QED
    BY <2>1, <2>3
<1> QED
  BY <1>1 DEF TasksInv

(* What is left to load.                                                   *)
LEMMA TodoFacts ==
    /\ Head(<<"list">>) = "list" /\ Tail(<<"list">>) = <<>>
    /\ Head(<<"detail">>) = "detail" /\ Tail(<<"detail">>) = <<>>
    /\ Head(<<"detail", "list">>) = "detail" /\ Tail(<<"detail", "list">>) = <<"list">>
    /\ Head(<<"timer", "list">>) = "timer" /\ Tail(<<"timer", "list">>) = <<"list">>
    /\ Head(<<"timer", "close">>) = "timer" /\ Tail(<<"timer", "close">>) = <<"close">>
    /\ Head(<<"list", "timer", "close">>) = "list"
    /\ Tail(<<"list", "timer", "close">>) = <<"timer", "close">>
    /\ Head(<<"close">>) = "close"
OBVIOUS

LEMMA PlansDiffer ==
    /\ <<>> \notin {<<"detail">>, <<"detail", "list">>}
    /\ <<>> \notin {<<"timer", "list">>, <<"timer", "close">>, <<"list", "timer", "close">>}
    /\ <<"list">> \notin {<<"detail">>, <<"detail", "list">>}
    /\ <<"list">> \notin {<<"timer", "list">>, <<"timer", "close">>, <<"list", "timer", "close">>}
<1>1. <<"list">> # <<"list", "timer", "close">>
  BY TodoFacts
<1> QED
  BY <1>1, TodoFacts

Rests == Plans \cup {<<"detail">>, <<"timer", "close">>}
RestOK(c, todo) ==
    /\ todo \in Rests
    /\ todo \in {<<"detail">>, <<"detail", "list">>} => c.id \in Rows /\ page.modal # "copied"
    /\ todo \in {<<"timer", "list">>, <<"timer", "close">>, <<"list", "timer", "close">>} => ~Single(Owner(c))

(* Going on with what is left: the handler leaves, waits for its timer, or loads. *)
Goes(t, standing, new) ==
    /\ task' = [task EXCEPT ![t] = new]
    /\ new.pc \in {"idle", "timer", "load"}
    /\ new.pc # "idle" => new.h = task[t].h /\ new.id = task[t].id
    /\ new.pc # "load" => Release(t) /\ loading' = standing
    /\ new.pc = "load" => busy' = busy /\ loading' = standing \cup {Head(new.todo)}
    /\ new.pc = "timer" => ~Single(Owner(new))

LEMMA ContinueStep ==
    ASSUME TasksInv, page' = page, NEW t \in Tasks, OwnerOK(task[t]),
           NEW todo, NEW standing, RestOK(task[t], todo), Continue(t, todo, standing)
    PROVE  \E new : Goes(t, standing, new) /\ TaskOK(new)'
<1>1. CASE todo = <<>>
  <2>1. TaskOK(NoTask)'
    BY DEF TaskOK, NoTask, Pressed, Fetching
  <2>2. Goes(t, standing, NoTask)
    BY <1>1 DEF Goes, Continue, Leave, NoTask
  <2> QED
    BY <2>1, <2>2
<1>2. CASE todo \in {<<"timer", "list">>, <<"timer", "close">>}
  <2>1. todo # <<>> /\ Head(todo) = "timer" /\ Tail(todo) \in {<<"list">>, <<"close">>}
    <3>1. CASE todo = <<"timer", "list">>
      BY <3>1, TodoFacts
    <3>2. CASE todo = <<"timer", "close">>
      BY <3>2, TodoFacts
    <3> QED
      BY <1>2, <3>1, <3>2
  <2>2. PICK new : new = [pc |-> "timer", h |-> task[t].h, id |-> task[t].id, todo |-> Tail(todo)]
    OBVIOUS
  <2>3. /\ task' = [task EXCEPT ![t] = new]
        /\ Release(t) /\ loading' = standing
    BY <2>1, <2>2 DEF Continue
  <2>4. Owner(new) = Owner(task[t]) /\ ~Single(Owner(task[t]))
    BY <1>2, <2>2 DEF Owner, RestOK
  <2>5. TaskOK(new)'
    <3>1. TimerOK(new)
      BY <2>1, <2>2, <2>4 DEF TimerOK
    <3>2. OwnerOK(new)'
      BY <2>2 DEF OwnerOK
    <3> QED
      BY <2>2, <3>1, <3>2 DEF TaskOK, Pressed, Fetching, TimerOK
  <2>6. Goes(t, standing, new)
    BY <2>2, <2>3, <2>4 DEF Goes
  <2> QED
    BY <2>5, <2>6
<1>3. CASE todo \in Loads
  <2>1. todo # <<>> /\ Head(todo) \in {"list", "detail"} /\ Head(todo) # "timer"
    BY <1>3, TodoFacts DEF Loads
  <2>2. PICK new : new = [pc |-> "load", h |-> task[t].h, id |-> task[t].id, todo |-> todo]
    OBVIOUS
  <2>3. /\ task' = [task EXCEPT ![t] = new]
        /\ busy' = busy /\ loading' = standing \cup {Head(new.todo)}
    BY <2>1, <2>2 DEF Continue
  <2>4. Owner(new) = Owner(task[t])
    BY <2>2 DEF Owner
  <2>5. TodoOK(new)'
    BY <1>3, <2>2, <2>4, TodoFacts DEF TodoOK, RestOK, Loads
  <2>6. OwnerOK(new)'
    BY <2>2 DEF OwnerOK
  <2>7. TaskOK(new)'
    BY <1>3, <2>2, <2>5, <2>6 DEF TaskOK, Pressed, Fetching
  <2>8. Goes(t, standing, new)
    BY <2>2, <2>3 DEF Goes
  <2> QED
    BY <2>7, <2>8
<1> QED
  BY <1>1, <1>2, <1>3 DEF RestOK, Rests, Plans, Loads

-----------------------------------------------------------------------------
(* What stands for a handler under way.                                    *)
LEMMA BusyStays ==
    ASSUME BusyInv, page' = page, busy' = busy, NEW t \in Tasks,
           \A u \in Tasks \ {t} : task'[u] = task[u],
           \A f, x : Marks(task[t], f, x) => Marks(task[t], f, x)'
    PROVE  BusyInv'
<1>1. busy' \in [Flags(page') -> SUBSET Ids]
  BY DEF BusyInv
<1>2. ASSUME NEW f \in Flags(page), NEW x \in busy[f]
      PROVE  \E u \in Tasks : Marks(task[u], f, x)'
  <2>1. PICK u \in Tasks : Marks(task[u], f, x)
    BY DEF BusyInv
  <2>2. CASE u = t
    BY <2>1, <2>2
  <2>3. CASE u # t
    BY <2>1, <2>3 DEF Marks, Owner
  <2> QED
    BY <2>2, <2>3
<1> QED
  BY <1>1, <1>2 DEF BusyInv

LEMMA BusyReleased ==
    ASSUME TablesAgree, page \in PageSet, TasksInv, BusyInv, page' = page,
           NEW t \in Tasks, OwnerOK(task[t]), Release(t),
           \A u \in Tasks \ {t} : task'[u] = task[u]
    PROVE  BusyInv' /\ \A f \in Flags(page) : f # Owner(task[t]).form.flag => busy'[f] = busy[f]
<1>1. PICK g : g = Owner(task[t]).form.flag
  OBVIOUS
<1>2. g \in Flags(page)
  BY <1>1, OwnerFlag
<1>3. PICK left : left = Unmark(Owner(task[t]).form, task[t].id)
  OBVIOUS
<1>4. busy' = [busy EXCEPT ![g] = left]
  BY <1>1, <1>3 DEF Release, HandlerOf, Owner
<1>5. busy \in [Flags(page) -> SUBSET Ids]
  BY DEF BusyInv
<1>6. left \subseteq busy[g] /\ \A x \in left : ~Marks(task[t], g, x)
  BY <1>1, <1>3 DEF Unmark, Marks
<1>7. /\ busy' \in [Flags(page) -> SUBSET Ids]
      /\ busy'[g] = left
      /\ \A f \in Flags(page) \ {g} : busy'[f] = busy[f]
  BY <1>2, <1>4, <1>5, <1>6
<1>8. ASSUME NEW f \in Flags(page), NEW x \in busy'[f]
      PROVE  \E u \in Tasks : Marks(task[u], f, x)'
  <2>1. x \in busy[f] /\ ~Marks(task[t], f, x)
    <3>1. CASE f = g
      BY <1>6, <1>7, <3>1
    <3>2. CASE f # g
      BY <1>1, <1>7, <3>2 DEF Marks
    <3> QED
      BY <3>1, <3>2
  <2>2. PICK u \in Tasks : Marks(task[u], f, x)
    BY <2>1 DEF BusyInv
  <2>3. u # t
    BY <2>1, <2>2
  <2> QED
    BY <2>2, <2>3 DEF Marks, Owner
<1>9. BusyInv'
  BY <1>7, <1>8 DEF BusyInv
<1> QED
  BY <1>1, <1>7, <1>9

LEMMA LoadingStep ==
    ASSUME LoadingInv, NEW t \in Tasks, \A u \in Tasks \ {t} : task'[u] = task[u],
           loading' \subseteq {"list", "detail"},
           \A x \in loading' :
               \/ task'[t].pc \in Fetching /\ Head(task'[t].todo) = x
               \/ x \in loading /\ (task[t].pc \in Fetching => Head(task[t].todo) # x)
    PROVE  LoadingInv'
<1>1. ASSUME NEW x \in loading'
      PROVE  \E u \in Tasks : task'[u].pc \in Fetching /\ Head(task'[u].todo) = x
  <2>1. CASE task'[t].pc \in Fetching /\ Head(task'[t].todo) = x
    BY <2>1
  <2>2. CASE x \in loading /\ (task[t].pc \in Fetching => Head(task[t].todo) # x)
    <3>1. PICK u \in Tasks : task[u].pc \in Fetching /\ Head(task[u].todo) = x
      BY <2>2 DEF LoadingInv
    <3>2. u # t /\ task'[u] = task[u]
      BY <2>2, <3>1
    <3> QED
      BY <3>1, <3>2
  <2> QED
    BY <2>1, <2>2
<1> QED
  BY <1>1 DEF LoadingInv

Untouched(t, h) ==
    /\ task[t].pc = "idle" \/ task[t].h.name # h.name
    /\ task'[t].pc = "idle" \/ task'[t].h.name # h.name
    /\ busy'[h.form.flag] = busy[h.form.flag]
    /\ draft'[h.name] = draft[h.name]
    /\ \A d \in spent' : d[1] = h.name => d \in spent

LEMMA DraftUntouched ==
    ASSUME NEW h, DraftOK(h), NEW t \in Tasks, \A u \in Tasks \ {t} : task'[u] = task[u],
           Untouched(t, h)
    PROVE  DraftOK(h)'
<1>1. \A u \in Tasks : Active(u, h)' => u # t /\ Active(u, h)
  BY DEF Untouched, Active, Pressed, Fetching
<1>2. \A u \in Tasks : Active(u, h) => u # t /\ Active(u, h)'
  BY DEF Untouched, Active, Pressed, Fetching
<1>3. \A u \in Tasks : task'[u].pc \in Pressed /\ task'[u].h.name = h.name => u # t
  BY DEF Untouched, Pressed
<1>4. \A u \in Tasks : task[u].pc = "done" /\ task[u].h.name = h.name => u # t
  BY DEF Untouched
<1>5. ASSUME NEW u \in Tasks, Active(u, h)'
      PROVE  Whole \in busy'[h.form.flag] /\ \A v \in Tasks : Active(v, h)' => v = u
  BY <1>1, <1>5 DEF DraftOK, Untouched
<1>6. ASSUME NEW u \in Tasks, task'[u].pc \in Pressed, task'[u].h.name = h.name
      PROVE  task'[u].draft = <<h.name, draft'[h.name]>>
  BY <1>3, <1>6 DEF DraftOK, Untouched
<1>7. ASSUME NEW d \in spent', d[1] = h.name
      PROVE  /\ d[2] <= draft'[h.name]
             /\ d[2] = draft'[h.name] => \E u \in Tasks : task'[u].pc = "done" /\ task'[u].h.name = h.name
  <2>1. d \in spent /\ draft'[h.name] = draft[h.name]
    BY <1>7 DEF Untouched
  <2>2. /\ d[2] <= draft[h.name]
        /\ d[2] = draft[h.name] => \E u \in Tasks : task[u].pc = "done" /\ task[u].h.name = h.name
    BY <1>7, <2>1 DEF DraftOK
  <2> QED
    BY <1>4, <2>1, <2>2
<1> QED
  BY <1>5, <1>6, <1>7 DEF DraftOK

-----------------------------------------------------------------------------
(* The user presses a button.                                              *)
LEMMA CopiesFacts ==
    ASSUME TablesAgree, CopiesInv, NEW h \in OfPage[page.name], NEW c \in Copies(h.form),
           c.shown.state \in h.form.on
    PROVE  /\ c.id \in Ids
           /\ c.id = Whole <=> h.form.reads = "new"
           /\ c.id # Whole => /\ c.id \in Rows
                              /\ Fits(c.shown, c.id)
                              /\ page.modal = "copied" /\ h.form.reads = "detail" => c.shown.state \in Openable
<1>1. h.form.reads \in {"new", "list", "detail"}
  BY HandlerFacts DEF HandlerOK, CopiesInv
<1>2. Whole \notin Rows
  BY ScreensConstants DEF ScreensConstants, Whole
<1>3. CASE h.form.reads = "new"
  BY <1>3 DEF Copies, Ids
<1>4. CASE h.form.reads = "list"
  <2>1. PICK r \in Rows : c = [id |-> r, shown |-> list[r]]
    BY <1>4 DEF Copies
  <2> QED
    BY <1>2, <1>4, <2>1 DEF CopiesInv, Ids
<1>5. CASE h.form.reads = "detail"
  <2>1. c \in detail
    BY <1>5 DEF Copies
  <2> QED
    BY <1>2, <1>5, <2>1 DEF CopiesInv, WindowOK, Ids
<1> QED
  BY <1>1, <1>3, <1>4, <1>5

LEMMA PressStep ==
    ASSUME TablesAgree, PagesInv, NEW t \in Tasks, NEW h \in OfPage[page.name], Press(t, h)
    PROVE  PagesInv'
<1> USE DEF PagesInv
<1>1. task[t].pc = "idle"
  BY DEF Press, Free, NoTask
<1>2. page \in PageSet /\ page' = page
  BY DEF CopiesInv, Press
<1>3. PICK c \in Copies(h.form) :
        /\ c.shown.state \in h.form.on
        /\ ~Disabled(h.form, c.id)
        /\ task' = [task EXCEPT ![t] = [pc |-> "sent", h |-> h, id |-> c.id, shown |-> c.shown,
                                        draft |-> <<Key(h, c.id), draft[Key(h, c.id)]>>]]
        /\ busy' = [busy EXCEPT ![h.form.flag] = Mark(h.form, c.id)]
  BY DEF Press
<1>4. PICK new : new = [pc |-> "sent", h |-> h, id |-> c.id, shown |-> c.shown,
                        draft |-> <<Key(h, c.id), draft[Key(h, c.id)]>>]
  OBVIOUS
<1>5. UNCHANGED <<page, row, list, detail, loading, draft, spent, clock, lost>>
  BY DEF Press
<1>6. /\ h \in Handlers /\ HandlerOK(h) /\ h.name # "" /\ h.form.flag \in Flags(page)
      /\ Owner(new) = h
      /\ Single(h) => SingleOK(h)
  BY <1>2, <1>4, HandlerFacts DEF Owner
<1>7. /\ c.id \in Ids
      /\ c.id = Whole <=> h.form.reads = "new"
      /\ c.id # Whole => /\ c.id \in Rows
                         /\ Fits(c.shown, c.id)
                         /\ page.modal = "copied" /\ h.form.reads = "detail" => c.shown.state \in Openable
  BY <1>3, CopiesFacts
<1>8. FitsKept /\ clock \in Nat
  BY <1>5, NothingChanges DEF CountInv
<1>9. TaskOK(new)
  <2>1. OwnerOK(new)
    BY <1>4, <1>6, <1>7 DEF OwnerOK
  <2>2. PressedOK(new)
    <3>1. h.form.reads \in {"new", "list", "detail"}
      BY <1>6 DEF HandlerOK
    <3>2. Key(h, c.id) \in DraftKeys(page)
      BY <1>7, <3>1 DEF Key, DraftKeys
    <3>3. draft[Key(h, c.id)] \in Nat
      BY <3>2 DEF CountInv
    <3> QED
      BY <1>4, <1>6, <1>7, <3>3 DEF PressedOK
  <2>3. SentOK(new)
    BY <1>3, <1>4, <1>6, <1>7 DEF SentOK
  <2> QED
    BY <1>4, <2>1, <2>2, <2>3 DEF TaskOK, Pressed, Fetching
<1>10. TaskOK(new)'
  BY <1>2, <1>8, <1>9, TaskKept
<1>11. TasksInv' /\ task'[t] = new /\ \A u \in Tasks \ {t} : task'[u] = task[u]
  BY <1>2, <1>3, <1>4, <1>8, <1>10, TasksStep
<1>12. CopiesInv'
  BY <1>5, <1>8 DEF CopiesInv, WindowOK, FitsKept
<1>13. CountInv'
  <2>1. CountOf("sent")' = CountOf("sent") + 1
    BY <1>1, <1>4, <1>11, CountUp
  <2>2. CountOf("done")' = CountOf("done")
    BY <1>1, <1>4, <1>11, CountSame
  <2>3. clock + CountOf("sent") < MaxRequests
    BY DEF Press, Left, CountOf
  <2>4. CountOf("sent") \in Nat /\ MaxRequests \in Nat
    BY CountType, ScreensConstants DEF ScreensConstants
  <2>5. clock + (CountOf("sent") + 1) <= MaxRequests
    BY <1>8, <2>3, <2>4
  <2> QED
    BY <1>5, <2>1, <2>2, <2>5 DEF CountInv, DraftKeys
<1>14. BusyInv'
  <2>1. busy \in [Flags(page) -> SUBSET Ids]
    BY DEF BusyInv
  <2>2. PICK m : m = Mark(h.form, c.id)
    OBVIOUS
  <2>3. h.form.marks \in {"none", "id", "ids", "form"}
    BY <1>6 DEF HandlerOK
  <2>4. m \subseteq Ids /\ \A x \in m : Marks(new, h.form.flag, x) \/ x \in busy[h.form.flag]
    <3>1. CASE h.form.marks = "none"
      BY <2>2, <3>1 DEF Mark
    <3>2. CASE h.form.marks = "ids"
      <4>1. m = busy[h.form.flag] \cup {c.id}
        BY <2>2, <3>2 DEF Mark
      <4>2. Marks(new, h.form.flag, c.id)
        BY <1>4, <1>6 DEF Marks, Pressed
      <4>3. busy[h.form.flag] \subseteq Ids
        BY <1>6, <2>1
      <4> QED
        BY <1>7, <4>1, <4>2, <4>3
    <3>3. CASE h.form.marks \in {"id", "form"}
      <4>1. m = Marked(h.form, c.id)
        BY <2>2, <3>3 DEF Mark
      <4>2. \A x : Marks(new, h.form.flag, x)
        BY <1>4, <1>6, <3>3 DEF Marks, Pressed
      <4> QED
        BY <1>7, <4>1, <4>2 DEF Marked, Ids
    <3> QED
      BY <2>3, <3>1, <3>2, <3>3
  <2>5. /\ busy' \in [Flags(page) -> SUBSET Ids]
        /\ busy'[h.form.flag] = m
        /\ \A f \in Flags(page) \ {h.form.flag} : busy'[f] = busy[f]
    BY <1>3, <1>6, <2>1, <2>2, <2>4
  <2>6. \A f, x : ~Marks(task[t], f, x)
    BY <1>1 DEF Marks, Pressed, Fetching
  <2>7. ASSUME NEW f \in Flags(page), NEW x \in busy'[f]
        PROVE  \E u \in Tasks : Marks(task[u], f, x)'
    <3>1. CASE f = h.form.flag /\ Marks(new, f, x)
      BY <1>11, <3>1 DEF Marks, Owner
    <3>2. CASE x \in busy[f]
      <4>1. PICK u \in Tasks : Marks(task[u], f, x)
        BY <3>2 DEF BusyInv
      <4>2. u # t
        BY <2>6, <4>1
      <4> QED
        BY <1>11, <4>1, <4>2 DEF Marks, Owner
    <3> QED
      BY <2>4, <2>5, <3>1, <3>2
  <2> QED
    BY <1>2, <2>5, <2>7 DEF BusyInv
<1>15. LoadingInv'
  <2>1. loading' \subseteq {"list", "detail"}
    BY <1>5 DEF LoadingInv
  <2> QED
    BY <1>1, <1>5, <1>11, <2>1, LoadingStep DEF Fetching
<1>16. ASSUME NEW g \in OfPage[page.name], Single(g) PROVE DraftOK(g)'
  <2>1. DraftOK(g) /\ SingleOK(g) /\ g \in Handlers /\ g.form.page = page.name /\ g.form.flag \in Flags(page)
    BY <1>2, <1>16, HandlerFacts DEF DraftInv
  <2>2. busy \in [Flags(page) -> SUBSET Ids]
    BY DEF BusyInv
  <2>3. CASE g # h
    <3>1. g.name # h.name
      BY <1>6, <2>1, <2>3 DEF TablesAgree
    <3>2. h.form.flag # g.form.flag
      BY <1>2, <1>6, <2>1, <2>3, HandlerFacts DEF SingleOK
    <3>3. busy'[g.form.flag] = busy[g.form.flag]
      BY <1>3, <2>1, <2>2, <3>2
    <3>4. Untouched(t, g)
      BY <1>1, <1>4, <1>5, <1>11, <3>1, <3>3 DEF Untouched
    <3> QED
      BY <1>11, <2>1, <3>4, DraftUntouched
  <2>4. CASE g = h
    <3>1. Whole \notin busy[h.form.flag]
      BY <1>3, <1>6, <2>1, <2>4 DEF Disabled, Marked, SingleOK, HandlerOK
    <3>2. \A u \in Tasks : ~Active(u, h)
      BY <2>1, <2>4, <3>1 DEF DraftOK
    <3>3. Mark(h.form, c.id) = {Whole}
      BY <2>1, <2>4 DEF Mark, Marked, SingleOK
    <3>4. busy'[h.form.flag] = {Whole}
      BY <1>3, <2>1, <2>2, <2>4, <3>3
    <3>5. \A u \in Tasks : Active(u, h)' => u = t
      BY <1>11, <3>2 DEF Active
    <3>6. Key(h, c.id) = h.name
      BY <2>1, <2>4 DEF Key, SingleOK
    <3>7. task'[t].draft = <<h.name, draft[h.name]>>
      BY <1>4, <1>11, <3>6
    <3>8. \A u \in Tasks : task'[u].pc \in Pressed /\ task'[u].h.name = h.name => u = t
      BY <3>5 DEF Active
    <3>9. \A d \in spent : d[1] = h.name => d[2] <= draft[h.name] /\ d[2] # draft[h.name]
      BY <2>1, <2>4, <3>2 DEF DraftOK, Active, Pressed
    <3> QED
      BY <1>5, <2>4, <3>4, <3>5, <3>7, <3>8, <3>9 DEF DraftOK
  <2> QED
    BY <2>3, <2>4
<1>17. DraftInv'
  BY <1>2, <1>5, <1>16 DEF DraftInv, SpentOK
<1> QED
  BY <1>11, <1>12, <1>13, <1>14, <1>15, <1>17

-----------------------------------------------------------------------------
(* The server's steps, and what is done elsewhere.                         *)
LEMMA CopiesKept ==
    ASSUME CopiesInv, FitsKept, page' = page, list' = list, detail' = detail,
           row' \in [Rows -> Copy], \A r \in Rows : row'[r].version <= clock'
    PROVE  CopiesInv'
<1>1. \A d \in detail : WindowOK(d)'
  BY DEF CopiesInv, WindowOK, FitsKept
<1> QED
  BY <1>1 DEF CopiesInv, FitsKept

(* What the answer to a request does to the tasks, to the busy states and to the notices. *)
Answers(t, new) ==
    /\ page' = page /\ busy' = busy /\ loading' = loading
    /\ task[t].pc = "sent"
    /\ new.pc \in {"done", "refused"} /\ new.h = task[t].h /\ new.id = task[t].id
    /\ task' = [task EXCEPT ![t] = new]

LEMMA AnsweredStep ==
    ASSUME TablesAgree, PagesInv, FitsKept, NEW t \in Tasks, NEW new, Answers(t, new), TaskOK(new)'
    PROVE  /\ TasksInv' /\ BusyInv' /\ LoadingInv'
           /\ task'[t] = new /\ \A u \in Tasks \ {t} : task'[u] = task[u]
           /\ CountOf("sent")' = CountOf("sent") - 1
<1> USE DEF PagesInv
<1>1. TasksInv' /\ task'[t] = new /\ \A u \in Tasks \ {t} : task'[u] = task[u]
  BY TasksStep DEF Answers
<1>2. \A f, x : Marks(task[t], f, x) => Marks(task[t], f, x)'
  BY <1>1 DEF Answers, Marks, Owner, Pressed
<1>3. BusyInv'
  BY <1>1, <1>2, BusyStays DEF Answers
<1>4. loading' \subseteq {"list", "detail"}
  BY DEF LoadingInv, Answers
<1>5. LoadingInv'
  BY <1>1, <1>4, LoadingStep DEF Fetching, Answers
<1>6. CountOf("sent")' = CountOf("sent") - 1
  BY <1>1, CountDown DEF Answers
<1> QED
  BY <1>1, <1>3, <1>5, <1>6

LEMMA RespondStep ==
    ASSUME TablesAgree, PagesInv, NEW t \in Tasks, Respond(t)
    PROVE  PagesInv'
<1> USE DEF PagesInv
<1>1. UNCHANGED <<page, list, detail, busy, loading, draft, lost>> /\ task[t].pc = "sent"
  BY DEF Respond
<1>2. PICK c, h : c = task[t] /\ h = Owner(c)
  OBVIOUS
<1>3. page \in PageSet /\ clock \in Nat
  BY DEF CopiesInv, CountInv
<1>4. TaskOK(c) /\ OwnerOK(c) /\ PressedOK(c) /\ c.h.name # ""
  BY <1>1, <1>2 DEF TasksInv, TaskOK, Pressed, PressedOK
<1>5. h \in Handlers /\ h \in OfPage[page.name] /\ h.name = c.h.name /\ HandlerOK(h)
  BY <1>2, <1>3, <1>4, OwnerFacts
<1>6. PICK new : new = [pc |-> "done", h |-> c.h, id |-> c.id, draft |-> c.draft,
                        got |-> IF "reply" \in h.atOnce THEN row'[c.id] ELSE Whole]
  OBVIOUS
<1>7. /\ task' = [task EXCEPT ![t] = new]
      /\ IF h.route.gives = {} THEN clock' = clock + 1 /\ UNCHANGED <<row, spent>>
         ELSE /\ \E s \in h.route.gives : Change(Targets(c.id), s)
              /\ spent' = spent \cup {c.draft}
  BY <1>2, <1>6 DEF Respond, HandlerOf, Owner
<1>8. /\ FitsKept /\ clock' = clock + 1
      /\ row' \in [Rows -> Copy] /\ \A r \in Rows : row'[r].version <= clock'
  <2>1. CASE h.route.gives = {}
    BY <1>3, <1>7, <2>1, NothingChanges
  <2>2. CASE h.route.gives # {}
    <3>1. PICK s \in h.route.gives : Change(Targets(c.id), s)
      BY <1>7, <2>2
    <3>2. s \in States
      BY <1>5, StateFacts
    <3>3. Targets(c.id) \in SUBSET Rows
      BY <1>4 DEF Targets, OwnerOK, Ids
    <3> QED
      BY <1>3, <3>1, <3>2, <3>3, ARowChanges DEF Change
  <2> QED
    BY <2>1, <2>2
<1>9. TaskOK(new)'
  <2>1. Owner(new) = h
    BY <1>2, <1>6 DEF Owner
  <2>2. OwnerOK(new)' /\ PressedOK(new)
    BY <1>1, <1>2, <1>4, <1>6, <2>1 DEF OwnerOK, PressedOK
  <2>4. ASSUME "reply" \in h.atOnce PROVE new.id \in Rows /\ Fits(new.got, new.id)'
    <3>1. h.form.reads # "new"
      BY <1>5, <2>4 DEF HandlerOK
    <3>2. c.id \in Rows
      BY <1>2, <1>4, <3>1 DEF PressedOK, OwnerOK, Ids
    <3>3. new.id = c.id /\ new.got = row'[new.id]
      BY <1>6, <2>4
    <3> QED
      BY <1>8, <3>2, <3>3 DEF Fits
  <2> QED
    BY <1>6, <2>1, <2>2, <2>4 DEF TaskOK, Pressed, Fetching
<1>10. /\ TasksInv' /\ BusyInv' /\ LoadingInv'
       /\ task'[t] = new /\ \A u \in Tasks \ {t} : task'[u] = task[u]
       /\ CountOf("sent")' = CountOf("sent") - 1
  <2>1. new.pc = "done" /\ new.h = task[t].h /\ new.id = task[t].id
    BY <1>2, <1>6
  <2> QED
    <3>1. Answers(t, new)
      BY <1>1, <1>7, <2>1 DEF Answers
    <3> QED
      BY <1>8, <1>9, <3>1, AnsweredStep
<1>11. CopiesInv'
  BY <1>1, <1>8, CopiesKept
<1>12. CountInv'
  <2>1. CountOf("done")' = CountOf("done") + 1
    BY <1>1, <1>6, <1>10, CountUp
  <2>2. CountOf("sent") \in Nat /\ CountOf("done") \in Nat /\ MaxRequests \in Nat
    BY CountType, ScreensConstants DEF ScreensConstants
  <2>3. clock' \in Nat /\ clock' + CountOf("sent")' <= MaxRequests
    BY <1>3, <1>8, <1>10, <2>2 DEF CountInv
  <2>4. ASSUME NEW k \in DraftKeys(page) PROVE draft[k] + CountOf("done")' <= clock'
    <3>1. draft[k] \in Nat /\ draft[k] + CountOf("done") <= clock
      BY DEF CountInv
    <3> QED
      BY <1>3, <1>8, <2>1, <2>2, <3>1
  <2> QED
    BY <1>1, <2>3, <2>4 DEF CountInv, DraftKeys
<1>13. \A d \in spent' : d \in spent \/ d = c.draft
  BY <1>7
<1>14. c.draft = <<Key(h, c.id), c.draft[2]>> /\ c.draft[2] \in Nat
  BY <1>2, <1>4 DEF PressedOK
<1>15. ASSUME NEW g \in OfPage[page.name], Single(g) PROVE DraftOK(g)'
  <2>1. DraftOK(g) /\ SingleOK(g) /\ g.name \notin Rows
    BY <1>3, <1>15, HandlerFacts DEF DraftInv
  <2>2. CASE g.name # c.h.name
    <3>1. c.draft[1] # g.name
      <4>1. c.draft[1] = Key(h, c.id)
        BY <1>14
      <4>2. Key(h, c.id) = c.h.name \/ (h.form.reads = "list" /\ Key(h, c.id) = c.id)
        BY <1>5 DEF Key
      <4>3. h.form.reads = "list" => c.id \in Rows
        BY <1>2, <1>4 DEF PressedOK, OwnerOK, Ids
      <4> QED
        BY <2>1, <2>2, <4>1, <4>2, <4>3
    <3>2. Untouched(t, g)
      BY <1>1, <1>2, <1>6, <1>10, <1>13, <2>2, <3>1 DEF Untouched
    <3> QED
      BY <1>10, <2>1, <3>2, DraftUntouched
  <2>3. CASE g.name = c.h.name
    <3>1. \A u \in Tasks : Active(u, g)' <=> Active(u, g)
      BY <1>1, <1>2, <1>6, <1>10 DEF Active, Pressed
    <3>2. \A u \in Tasks : task'[u].pc \in Pressed /\ task'[u].h.name = g.name =>
             task'[u].draft = <<g.name, draft[g.name]>>
      BY <1>1, <1>2, <1>6, <1>10, <2>1 DEF DraftOK, Pressed
    <3>3. c.draft = <<g.name, draft[g.name]>>
      BY <1>1, <1>2, <2>1, <2>3 DEF DraftOK, Pressed
    <3>4. draft[g.name] \in Nat
      BY <1>3, <1>15, HandlerFacts DEF CountInv
    <3>5. \A d \in spent' : d[1] = g.name => d[2] <= draft[g.name]
      BY <1>13, <2>1, <3>3, <3>4 DEF DraftOK
    <3>6. task'[t].pc = "done" /\ task'[t].h.name = g.name
      BY <1>6, <1>10, <2>3
    <3> QED
      BY <1>1, <2>1, <3>1, <3>2, <3>5, <3>6 DEF DraftOK
  <2> QED
    BY <2>2, <2>3
<1>16. DraftInv'
  <2>1. SpentOK'
    BY <1>13, <1>14 DEF DraftInv, SpentOK
  <2> QED
    BY <1>1, <1>15, <2>1 DEF DraftInv
<1> QED
  BY <1>10, <1>11, <1>12, <1>16

LEMMA RefuseStep ==
    ASSUME TablesAgree, PagesInv, NEW t \in Tasks, Refuse(t)
    PROVE  PagesInv'
<1> USE DEF PagesInv
<1>1. /\ UNCHANGED <<page, row, list, detail, busy, loading, draft, spent, lost>>
      /\ task[t].pc = "sent" /\ clock' = clock + 1
  BY DEF Refuse
<1>2. PICK c : c = task[t]
  OBVIOUS
<1>3. page \in PageSet /\ clock \in Nat
  BY DEF CopiesInv, CountInv
<1>4. TaskOK(c)
  BY <1>2 DEF TasksInv
<1>5. PICK new : new = [pc |-> "refused", h |-> c.h, id |-> c.id, shown |-> c.shown, draft |-> c.draft]
  OBVIOUS
<1>6. task' = [task EXCEPT ![t] = new]
  <2>1. c = [pc |-> c.pc, h |-> c.h, id |-> c.id, shown |-> c.shown, draft |-> c.draft]
    BY <1>1, <1>2, <1>4 DEF TaskOK, SentOK
  <2>2. [c EXCEPT !.pc = "refused"] = new
    BY <1>5, <2>1
  <2> QED
    BY <1>2, <2>2 DEF Refuse
<1>7. /\ FitsKept
      /\ row' \in [Rows -> Copy] /\ \A r \in Rows : row'[r].version <= clock'
  BY <1>1, <1>3, NothingChanges
<1>8. TaskOK(new)'
  <2>1. Owner(new) = Owner(c)
    BY <1>5 DEF Owner
  <2>2. TaskOK(new)
    BY <1>1, <1>2, <1>4, <1>5, <2>1 DEF TaskOK, Pressed, Fetching, OwnerOK, PressedOK, SentOK
  <2> QED
    BY <1>1, <1>7, <2>2, TaskKept
<1>9. /\ TasksInv' /\ BusyInv' /\ LoadingInv'
      /\ task'[t] = new /\ \A u \in Tasks \ {t} : task'[u] = task[u]
      /\ CountOf("sent")' = CountOf("sent") - 1
  <2>1. new.pc = "refused" /\ new.h = task[t].h /\ new.id = task[t].id
    BY <1>2, <1>5
  <2> QED
    <3>1. Answers(t, new)
      BY <1>1, <1>6, <2>1 DEF Answers
    <3> QED
      BY <1>7, <1>8, <3>1, AnsweredStep
<1>10. CopiesInv'
  BY <1>1, <1>7, CopiesKept
<1>11. CountInv'
  <2>1. CountOf("done")' = CountOf("done")
    BY <1>1, <1>5, <1>9, CountSame
  <2>2. CountOf("sent") \in Nat /\ CountOf("done") \in Nat /\ MaxRequests \in Nat
    BY CountType, ScreensConstants DEF ScreensConstants
  <2>3. clock' \in Nat /\ clock' + CountOf("sent")' <= MaxRequests
    BY <1>1, <1>3, <1>9, <2>2 DEF CountInv
  <2>4. ASSUME NEW k \in DraftKeys(page) PROVE draft[k] + CountOf("done")' <= clock'
    <3>1. draft[k] \in Nat /\ draft[k] + CountOf("done") <= clock
      BY DEF CountInv
    <3> QED
      BY <1>1, <1>3, <2>1, <2>2, <3>1
  <2> QED
    BY <1>1, <2>3, <2>4 DEF CountInv, DraftKeys
<1>12. ASSUME NEW g \in OfPage[page.name], Single(g) PROVE DraftOK(g)'
  <2>1. DraftOK(g)
    BY <1>12 DEF DraftInv
  <2>2. \A u \in Tasks : Active(u, g)' <=> Active(u, g)
    BY <1>1, <1>2, <1>5, <1>9 DEF Active, Pressed
  <2>3. \A u \in Tasks : task'[u].pc \in Pressed /\ task'[u].h.name = g.name =>
           task'[u].draft = <<g.name, draft[g.name]>>
    BY <1>1, <1>2, <1>5, <1>9, <2>1 DEF DraftOK, Pressed
  <2>4. \A u \in Tasks : task[u].pc = "done" => task'[u] = task[u]
    BY <1>1, <1>9
  <2> QED
    BY <1>1, <2>1, <2>2, <2>3, <2>4 DEF DraftOK
<1>13. DraftInv'
  BY <1>1, <1>12 DEF DraftInv, SpentOK
<1> QED
  BY <1>9, <1>10, <1>11, <1>13

LEMMA ElsewhereStep ==
    ASSUME TablesAgree, PagesInv, NEW r \in Rows, Elsewhere(r)
    PROVE  PagesInv'
<1> USE DEF PagesInv
<1>1. UNCHANGED <<page, list, detail, busy, loading, draft, spent, task, lost>>
  BY DEF Elsewhere
<1>2. page \in PageSet /\ clock \in Nat
  BY DEF CopiesInv, CountInv
<1>3. PICK s \in States : Change({r}, s)
  <2>1. CASE \E h \in OfPage[page.name] : \E s \in h.route.gives : Change({r}, s)
    <3>1. PICK h \in OfPage[page.name] : \E s \in h.route.gives : Change({r}, s)
      BY <2>1
    <3>2. h.route.gives \subseteq States
      BY <1>2, HandlerFacts, StateFacts
    <3> QED
      BY <3>1, <3>2
  <2>2. CASE \E m \in page.moves : Change({r}, m[2])
    BY <1>2, <2>2, StateFacts
  <2> QED
    BY <2>1, <2>2 DEF Elsewhere
<1>4. /\ FitsKept /\ clock' = clock + 1
      /\ row' \in [Rows -> Copy] /\ \A q \in Rows : row'[q].version <= clock'
  <2>1. {r} \in SUBSET Rows
    OBVIOUS
  <2> QED
    BY <1>2, <1>3, <2>1, ARowChanges DEF Change
<1>5. CopiesInv'
  BY <1>1, <1>4, CopiesKept
<1>6. TasksInv'
  <2>1. ASSUME NEW t \in Tasks PROVE TaskOK(task[t])'
    <3>1. PICK c : c = task[t]
      OBVIOUS
    <3>2. TaskOK(c)'
      BY <1>1, <1>4, <3>1, TaskKept DEF TasksInv
    <3> QED
      BY <1>1, <3>1, <3>2
  <2> QED
    BY <1>1, <2>1 DEF TasksInv
<1>7. CountInv'
  <2>1. CountOf("done")' = CountOf("done") /\ CountOf("sent")' = CountOf("sent")
    BY <1>1 DEF CountOf
  <2>2. CountOf("sent") \in Nat /\ CountOf("done") \in Nat /\ MaxRequests \in Nat
    BY CountType, ScreensConstants DEF ScreensConstants
  <2>3. clock + CountOf("sent") < MaxRequests
    BY DEF Elsewhere, Left, CountOf
  <2>4. ASSUME NEW k \in DraftKeys(page) PROVE draft[k] + CountOf("done") <= clock'
    <3>1. draft[k] \in Nat /\ draft[k] + CountOf("done") <= clock
      BY DEF CountInv
    <3> QED
      BY <1>2, <1>4, <2>2, <3>1
  <2>5. clock' \in Nat /\ clock' + CountOf("sent") <= MaxRequests
    BY <1>2, <1>4, <2>2, <2>3
  <2> QED
    BY <1>1, <2>1, <2>4, <2>5 DEF CountInv, DraftKeys
<1>8. BusyInv' /\ LoadingInv'
  <2>1. BusyInv'
    <3>1. \A u \in Tasks : \A f, x : Marks(task[u], f, x) => Marks(task[u], f, x)'
      BY <1>1 DEF Marks, Owner
    <3> QED
      BY <1>1, <3>1 DEF BusyInv
  <2>2. LoadingInv'
    BY <1>1 DEF LoadingInv
  <2> QED
    BY <2>1, <2>2
<1>9. DraftInv'
  BY <1>1 DEF DraftInv, DraftOK, Active, SpentOK
<1> QED
  BY <1>5, <1>6, <1>7, <1>8, <1>9

-----------------------------------------------------------------------------
(* Handlers that go on with their loads, or leave.                         *)
LEMMA CountNoMore ==
    ASSUME NEW pc, NEW t \in Tasks, task'[t].pc # pc,
           \A u \in Tasks \ {t} : task'[u] = task[u]
    PROVE  CountOf(pc)' <= CountOf(pc)
<1>1. CASE task[t].pc = pc
  <2>1. CountOf(pc)' = CountOf(pc) - 1
    BY <1>1, CountDown
  <2> QED
    BY <2>1, CountType
<1>2. CASE task[t].pc # pc
  <2>1. CountOf(pc)' = CountOf(pc)
    BY <1>2, CountSame
  <2> QED
    BY <2>1, CountType
<1> QED
  BY <1>1, <1>2

LEMMA SingleUntouched ==
    ASSUME TablesAgree, PagesInv, page' = page, NEW t \in Tasks, OwnerOK(task[t]),
           Release(t) \/ busy' = busy, \A u \in Tasks \ {t} : task'[u] = task[u],
           NEW g \in OfPage[page.name], Single(g), g.name # task[t].h.name
    PROVE  busy'[g.form.flag] = busy[g.form.flag]
<1>1. page \in PageSet /\ TasksInv /\ BusyInv
  BY DEF PagesInv, CopiesInv
<1>2. CASE busy' = busy
  BY <1>2
<1>3. CASE Release(t)
  <2>1. PICK c : c = task[t]
    OBVIOUS
  <2>2. Owner(c).form.flag # g.form.flag
    BY <1>1, <2>1, SingleAlone
  <2>3. g.form.flag \in Flags(page)
    BY <1>1, HandlerFacts
  <2> QED
    BY <1>1, <1>3, <2>1, <2>2, <2>3, BusyReleased
<1> QED
  BY <1>2, <1>3

LEMMA GoesStep ==
    ASSUME TablesAgree, PagesInv, page' = page, FitsKept, NEW t \in Tasks,
           task[t].pc \in {"done", "load", "read"},
           NEW standing \in SUBSET loading, task[t].pc \in Fetching => Head(task[t].todo) \notin standing,
           NEW new, Goes(t, standing, new), TaskOK(new)'
    PROVE  /\ TasksInv' /\ BusyInv' /\ LoadingInv'
           /\ task'[t] = new /\ \A u \in Tasks \ {t} : task'[u] = task[u]
           /\ CountOf("sent")' <= CountOf("sent")
<1> USE DEF PagesInv
<1>1. TasksInv' /\ task'[t] = new /\ \A u \in Tasks \ {t} : task'[u] = task[u]
  BY TasksStep DEF Goes
<1>2. page \in PageSet /\ OwnerOK(task[t])
  BY DEF CopiesInv, TasksInv, TaskOK
<1>3. BusyInv'
  <2>1. CASE new.pc = "load"
    <3>1. busy' = busy
      BY <2>1 DEF Goes
    <3>2. \A f, x : Marks(task[t], f, x) => Marks(task[t], f, x)'
      BY <1>1, <2>1 DEF Marks, Owner, Goes, Fetching
    <3> QED
      BY <1>1, <3>1, <3>2, BusyStays
  <2>2. CASE new.pc # "load"
    <3>1. Release(t)
      BY <2>2 DEF Goes
    <3> QED
      BY <1>1, <1>2, <3>1, BusyReleased
  <2> QED
    BY <2>1, <2>2
<1>4. LoadingInv'
  <2>1. CASE new.pc = "load"
    <3>1. loading' = standing \cup {Head(new.todo)}
      BY <2>1 DEF Goes
    <3>2. Head(new.todo) \in {"list", "detail"}
      <4>1. new.todo \in Loads
        BY <2>1 DEF TaskOK, Fetching
      <4> QED
        BY <4>1, TodoFacts DEF Loads
    <3>3. loading' \subseteq {"list", "detail"}
      BY <3>1, <3>2 DEF LoadingInv
    <3> QED
      BY <1>1, <2>1, <3>1, <3>3, LoadingStep DEF Fetching
  <2>2. CASE new.pc # "load"
    <3>1. loading' = standing
      BY <2>2 DEF Goes
    <3>2. loading' \subseteq {"list", "detail"}
      BY <3>1 DEF LoadingInv
    <3> QED
      BY <1>1, <3>1, <3>2, LoadingStep
  <2> QED
    BY <2>1, <2>2
<1>5. CountOf("sent")' <= CountOf("sent")
  <2>1. task'[t].pc # "sent"
    BY <1>1 DEF Goes
  <2> QED
    BY <1>1, <2>1, CountNoMore
<1> QED
  BY <1>1, <1>3, <1>4, <1>5

(* A load that ended, well or not.                                         *)
LEMMA LoadedStep ==
    ASSUME TablesAgree, PagesInv, page' = page, FitsKept, NEW t \in Tasks,
           task[t].pc \in Fetching,
           Continue(t, Tail(task[t].todo), loading \ {Head(task[t].todo)}),
           draft' = draft, spent' = spent, clock' = clock, lost' \in 0 .. MaxLost
    PROVE  TasksInv' /\ BusyInv' /\ LoadingInv' /\ CountInv' /\ DraftInv'
<1> USE DEF PagesInv
<1>1. PICK c : c = task[t]
  OBVIOUS
<1>2. TaskOK(c) /\ OwnerOK(c) /\ c.todo \in Loads /\ TodoOK(c)
  BY <1>1 DEF TasksInv, TaskOK, Fetching
<1>3. RestOK(c, Tail(c.todo))
  <2>1. CASE c.todo = <<"list", "timer", "close">>
    <3>1. Tail(c.todo) = <<"timer", "close">> /\ ~Single(Owner(c))
      BY <1>2, <2>1, TodoFacts DEF TodoOK
    <3> QED
      BY <3>1 DEF RestOK, Rests
  <2>2. CASE c.todo # <<"list", "timer", "close">>
    <3>1. Tail(c.todo) \in {<<>>, <<"list">>}
      <4>1. CASE c.todo = <<"list">>
        BY <4>1, TodoFacts
      <4>2. CASE c.todo = <<"detail">>
        BY <4>2, TodoFacts
      <4>3. CASE c.todo = <<"detail", "list">>
        BY <4>3, TodoFacts
      <4> QED
        BY <1>2, <2>2, <4>1, <4>2, <4>3 DEF Loads
    <3>2. CASE Tail(c.todo) = <<>>
      BY <3>2, PlansDiffer DEF RestOK, Rests, Plans
    <3>3. CASE Tail(c.todo) = <<"list">>
      BY <3>3, PlansDiffer DEF RestOK, Rests, Plans
    <3> QED
      BY <3>1, <3>2, <3>3
  <2> QED
    BY <2>1, <2>2
<1>4. PICK standing : standing = loading \ {Head(c.todo)}
  OBVIOUS
<1>5. PICK new : Goes(t, standing, new) /\ TaskOK(new)'
  <2>1. PICK rest : rest = Tail(c.todo)
    OBVIOUS
  <2>2. RestOK(task[t], rest) /\ Continue(t, rest, standing)
    BY <1>1, <1>3, <1>4, <2>1
  <2> QED
    BY <1>1, <1>2, <2>2, ContinueStep
<1>6. /\ TasksInv' /\ BusyInv' /\ LoadingInv'
      /\ task'[t] = new /\ \A u \in Tasks \ {t} : task'[u] = task[u]
      /\ CountOf("sent")' <= CountOf("sent")
  <2>1. standing \in SUBSET loading /\ Head(task[t].todo) \notin standing
    BY <1>1, <1>4
  <2>2. task[t].pc \in {"done", "load", "read"}
    BY DEF Fetching
  <2> QED
    BY <1>5, <2>1, <2>2, GoesStep
<1>7. page \in PageSet
  BY DEF CopiesInv
<1>8. CountInv'
  <2>1. CountOf("done")' <= CountOf("done")
    <3>1. task'[t].pc # "done"
      BY <1>5, <1>6 DEF Goes
    <3> QED
      BY <1>6, <3>1, CountNoMore
  <2>2. /\ CountOf("sent") \in Nat /\ CountOf("done") \in Nat /\ MaxRequests \in Nat
        /\ CountOf("sent")' \in Nat /\ CountOf("done")' \in Nat
    <3>1. CountOf("sent") \in Nat /\ CountOf("done") \in Nat
      BY CountType
    <3>2. CountOf("sent")' \in Nat /\ CountOf("done")' \in Nat
      BY CountNext
    <3> QED
      BY <3>1, <3>2, ScreensConstants DEF ScreensConstants
  <2>3. clock + CountOf("sent")' <= MaxRequests
    BY <1>6, <2>2 DEF CountInv
  <2>4. ASSUME NEW k \in DraftKeys(page) PROVE draft[k] + CountOf("done")' <= clock
    <3>1. draft[k] \in Nat /\ draft[k] + CountOf("done") <= clock /\ clock \in Nat
      BY DEF CountInv
    <3> QED
      BY <2>1, <2>2, <3>1
  <2> QED
    BY <2>3, <2>4 DEF CountInv, DraftKeys
<1>9. ASSUME NEW g \in OfPage[page.name], Single(g) PROVE DraftOK(g)'
  <2>1. DraftOK(g)
    BY <1>9 DEF DraftInv
  <2>2. Release(t) \/ busy' = busy
    BY <1>5 DEF Goes
  <2>3. CASE g.name # c.h.name
    <3>1. busy'[g.form.flag] = busy[g.form.flag]
      BY <1>1, <1>2, <1>6, <1>9, <2>2, <2>3, SingleUntouched
    <3>2. Untouched(t, g)
      BY <1>1, <1>5, <1>6, <2>3, <3>1 DEF Untouched, Goes
    <3> QED
      BY <1>6, <2>1, <3>2, DraftUntouched
  <2>4. CASE g.name = c.h.name
    <3>1. Active(t, g) /\ \A u \in Tasks : Active(u, g) => u = t
      BY <1>1, <2>1, <2>4 DEF Active, DraftOK
    <3>2. new.pc \in {"idle", "load"}
      <4>1. new.pc # "idle" => Owner(new) = Owner(c)
        BY <1>1, <1>5 DEF Goes, Owner
      <4>2. Owner(c) = g
        BY <1>1, <1>2, <1>7, <1>9, <2>4, HandlerFacts
      <4> QED
        BY <1>5, <1>9, <4>1, <4>2 DEF Goes
    <3>3. \A u \in Tasks : ~(task[u].pc \in Pressed /\ task[u].h.name = g.name)
      BY <3>1 DEF Active, Pressed, Fetching
    <3>4. \A u \in Tasks : ~(task'[u].pc \in Pressed /\ task'[u].h.name = g.name)
      BY <1>6, <3>2, <3>3 DEF Pressed
    <3>5. \A d \in spent : d[1] = g.name => d[2] <= draft[g.name] /\ d[2] # draft[g.name]
      BY <2>1, <3>3 DEF DraftOK, Pressed
    <3>6. \A u \in Tasks : Active(u, g)' => u = t /\ new.pc = "load"
      BY <1>6, <3>1, <3>2 DEF Active, Pressed, Fetching
    <3>7. new.pc = "load" => Whole \in busy'[g.form.flag]
      BY <1>5, <2>1, <3>1 DEF Goes, DraftOK
    <3> QED
      BY <3>4, <3>5, <3>6, <3>7 DEF DraftOK
  <2> QED
    BY <2>3, <2>4
<1>10. DraftInv'
  BY <1>9 DEF DraftInv, SpentOK
<1> QED
  BY <1>6, <1>8, <1>10

-----------------------------------------------------------------------------
(* The answer comes, and is good.                                          *)
LEMMA TakeAnswerStep ==
    ASSUME TablesAgree, PagesInv, NEW t \in Tasks, TakeAnswer(t)
    PROVE  PagesInv'
<1> USE DEF PagesInv
<1>1. UNCHANGED <<page, row, list, spent, clock, lost>> /\ task[t].pc = "done"
  BY DEF TakeAnswer
<1>2. PICK c, h : c = task[t] /\ h = Owner(c)
  OBVIOUS
<1>3. page \in PageSet /\ clock \in Nat
  BY DEF CopiesInv, CountInv
<1>4. /\ OwnerOK(c) /\ PressedOK(c) /\ c.h.name # ""
      /\ "reply" \in h.atOnce => c.id \in Rows /\ Fits(c.got, c.id)
  BY <1>1, <1>2 DEF TasksInv, TaskOK, Pressed, PressedOK
<1>5. /\ h \in OfPage[page.name] /\ h.name = c.h.name /\ HandlerOK(h) /\ OnPageOK(page, h)
      /\ Single(h) => SingleOK(h)
  BY <1>2, <1>3, <1>4, OwnerFacts
<1>6. /\ detail' = IF "reply" \in h.atOnce THEN {[id |-> c.id, shown |-> c.got]}
                   ELSE IF "close" \in h.atOnce THEN {} ELSE detail
      /\ draft' = IF "clear" \in h.atOnce THEN [draft EXCEPT ![c.draft[1]] = @ + 1] ELSE draft
      /\ Continue(t, h.loads, loading)
  BY <1>2 DEF TakeAnswer, HandlerOf, Owner
<1>7. /\ FitsKept
      /\ row' \in [Rows -> Copy] /\ \A r \in Rows : row'[r].version <= clock'
  BY <1>1, <1>3, NothingChanges
<1>8. RestOK(c, h.loads)
  <2>1. h.loads \in Plans
    BY <1>5 DEF HandlerOK
  <2>2. ASSUME h.loads = <<"detail", "list">> PROVE c.id \in Rows /\ page.modal # "copied"
    BY <1>2, <1>4, <1>5, <2>2 DEF HandlerOK, OnPageOK, PressedOK, OwnerOK, Ids
  <2>3. h.loads # <<"detail">>
    <3>1. <<"detail">> # <<>> /\ <<"detail">> # <<"list">> /\ <<"detail">> # <<"detail", "list">>
          /\ <<"detail">> # <<"timer", "list">> /\ <<"detail">> # <<"list", "timer", "close">>
      BY TodoFacts
    <3> QED
      BY <2>1, <3>1 DEF Plans
  <2>4. ASSUME h.loads \in {<<"timer", "list">>, <<"timer", "close">>, <<"list", "timer", "close">>}
        PROVE  ~Single(h)
    <3>1. h.loads # <<"list">> /\ h.loads # <<"detail", "list">> /\ h.loads # <<>>
      BY <2>4, TodoFacts, PlansDiffer
    <3> QED
      BY <1>5, <3>1 DEF SingleOK
  <2> QED
    BY <1>2, <2>1, <2>2, <2>3, <2>4, TodoFacts DEF RestOK, Rests
<1>9. PICK new : Goes(t, loading, new) /\ TaskOK(new)'
  <2>1. PICK todo : todo = h.loads
    OBVIOUS
  <2>2. RestOK(task[t], todo) /\ Continue(t, todo, loading)
    BY <1>2, <1>6, <1>8, <2>1
  <2> QED
    BY <1>1, <1>2, <1>4, <2>2, ContinueStep
<1>10. /\ TasksInv' /\ BusyInv' /\ LoadingInv'
       /\ task'[t] = new /\ \A u \in Tasks \ {t} : task'[u] = task[u]
       /\ CountOf("sent")' <= CountOf("sent")
  <2>1. loading \in SUBSET loading /\ task[t].pc \notin Fetching
    BY <1>1 DEF Fetching
  <2> QED
    BY <1>1, <1>7, <1>9, <2>1, GoesStep
<1>11. CopiesInv'
  <2>1. ASSUME NEW d \in detail' PROVE WindowOK(d)' /\ \A e \in detail' : d = e
    <3>1. CASE "reply" \in h.atOnce
      <4>1. d = [id |-> c.id, shown |-> c.got] /\ \A e \in detail' : d = e
        BY <1>6, <2>1, <3>1
      <4>2. page.modal # "copied"
        BY <1>5, <3>1 DEF OnPageOK
      <4> QED
        BY <1>1, <1>4, <1>7, <3>1, <4>1, <4>2 DEF WindowOK, FitsKept
    <3>2. CASE "reply" \notin h.atOnce
      <4>1. d \in detail /\ detail' = detail
        BY <1>6, <2>1, <3>2
      <4> QED
        BY <1>1, <1>7, <4>1 DEF CopiesInv, WindowOK, FitsKept
    <3> QED
      BY <3>1, <3>2
  <2> QED
    BY <1>1, <1>7, <2>1 DEF CopiesInv, FitsKept
<1>12. c.draft = <<Key(h, c.id), c.draft[2]>>
  BY <1>2, <1>4 DEF PressedOK
<1>13. c.draft[1] = Key(h, c.id)
  BY <1>12
<1>14. h.form.reads = "list" => c.id \in Rows
  BY <1>2, <1>4 DEF PressedOK, OwnerOK, Ids
<1>15. CountInv'
  <2>1. CountOf("done")' = CountOf("done") - 1
    BY <1>1, <1>9, <1>10, CountDown DEF Goes
  <2>2. /\ CountOf("sent") \in Nat /\ CountOf("done") \in Nat /\ MaxRequests \in Nat
        /\ CountOf("sent")' \in Nat /\ CountOf("done")' \in Nat
    BY CountType, CountNext, ScreensConstants DEF ScreensConstants
  <2>3. clock + CountOf("sent")' <= MaxRequests
    BY <1>3, <1>10, <2>2 DEF CountInv
  <2>4. c.draft[1] \in DraftKeys(page)
    BY <1>5, <1>13, <1>14 DEF Key, DraftKeys
  <2>5. draft \in [DraftKeys(page) -> Nat]
    BY DEF CountInv
  <2>6. /\ draft' \in [DraftKeys(page) -> Nat]
        /\ \A k \in DraftKeys(page) : draft'[k] <= draft[k] + 1
    BY <1>6, <2>4, <2>5
  <2>7. ASSUME NEW k \in DraftKeys(page) PROVE draft'[k] + CountOf("done")' <= clock
    <3>1. draft[k] \in Nat /\ draft[k] + CountOf("done") <= clock /\ draft'[k] \in Nat
      BY <2>5, <2>6 DEF CountInv
    <3> QED
      BY <1>3, <2>1, <2>2, <2>6, <3>1
  <2> QED
    BY <1>1, <2>3, <2>6, <2>7 DEF CountInv, DraftKeys
<1>16. ASSUME NEW g \in OfPage[page.name], Single(g) PROVE DraftOK(g)'
  <2>1. /\ DraftOK(g) /\ SingleOK(g) /\ g.name \notin Rows /\ g.name \in DraftKeys(page)
        /\ draft \in [DraftKeys(page) -> Nat]
    BY <1>3, <1>16, HandlerFacts DEF DraftInv, CountInv
  <2>2. Release(t) \/ busy' = busy
    BY <1>9 DEF Goes
  <2>3. CASE g.name # c.h.name
    <3>1. busy'[g.form.flag] = busy[g.form.flag]
      BY <1>1, <1>2, <1>4, <1>10, <1>16, <2>2, <2>3, SingleUntouched
    <3>2. c.draft[1] # g.name
      BY <1>5, <1>13, <1>14, <2>1, <2>3 DEF Key
    <3>3. draft'[g.name] = draft[g.name]
      BY <1>6, <2>1, <3>2
    <3>4. Untouched(t, g)
      BY <1>1, <1>2, <1>9, <1>10, <2>3, <3>1, <3>3 DEF Untouched, Goes
    <3> QED
      BY <1>10, <2>1, <3>4, DraftUntouched
  <2>4. CASE g.name = c.h.name
    <3>1. Active(t, g) /\ \A u \in Tasks : Active(u, g) => u = t
      BY <1>1, <1>2, <2>1, <2>4 DEF Active, DraftOK, Pressed
    <3>2. g = h
      BY <1>2, <1>3, <1>4, <1>16, <2>4, HandlerFacts
    <3>3. new.pc \in {"idle", "load"}
      <4>1. new.pc # "idle" => Owner(new) = Owner(c)
        BY <1>2, <1>9 DEF Goes, Owner
      <4> QED
        BY <1>2, <1>9, <1>16, <3>2, <4>1 DEF Goes
    <3>4. c.draft[1] = g.name
      BY <1>5, <1>13, <2>1, <3>2 DEF Key, SingleOK
    <3>5. draft'[g.name] = draft[g.name] + 1 /\ draft[g.name] \in Nat
      BY <1>6, <2>1, <3>2, <3>4 DEF SingleOK
    <3>6. \A u \in Tasks : ~(task'[u].pc \in Pressed /\ task'[u].h.name = g.name)
      BY <1>10, <3>1, <3>3 DEF Active, Pressed
    <3>7. \A d \in spent : d[1] = g.name => d[2] <= draft'[g.name] /\ d[2] # draft'[g.name]
      <4> SUFFICES ASSUME NEW d \in spent, d[1] = g.name
                   PROVE  d[2] <= draft'[g.name] /\ d[2] # draft'[g.name]
        OBVIOUS
      <4>1. d[2] \in Nat /\ d[2] <= draft[g.name]
        BY <2>1 DEF DraftInv, SpentOK, DraftOK
      <4> QED
        BY <3>5, <4>1
    <3>8. \A u \in Tasks : Active(u, g)' => u = t /\ new.pc = "load"
      BY <1>10, <3>1, <3>3 DEF Active, Pressed, Fetching
    <3>9. new.pc = "load" => Whole \in busy'[g.form.flag]
      BY <1>9, <2>1, <3>1 DEF Goes, DraftOK
    <3> QED
      BY <1>1, <3>6, <3>7, <3>8, <3>9 DEF DraftOK
  <2> QED
    BY <2>3, <2>4
<1>17. DraftInv'
  BY <1>1, <1>16 DEF DraftInv, SpentOK
<1> QED
  BY <1>10, <1>11, <1>15, <1>17

(* An error is shown.                                                      *)
LEMMA ShowErrorStep ==
    ASSUME TablesAgree, PagesInv, NEW t \in Tasks, ShowError(t)
    PROVE  PagesInv'
<1> USE DEF PagesInv
<1>1. /\ UNCHANGED <<page, row, list, detail, loading, draft, clock>> /\ Leave(t)
      /\ task[t].pc \in Pressed
      /\ spent' \subseteq spent /\ lost' \in 0 .. MaxLost
      /\ task[t].pc = "done" => task[t].draft \notin spent'
  <2>1. MaxLost \in Nat /\ lost \in 0 .. MaxLost
    BY ScreensConstants DEF ScreensConstants, CountInv
  <2> QED
    BY <2>1 DEF ShowError, Pressed
<1>2. PICK c : c = task[t]
  OBVIOUS
<1>3. page \in PageSet /\ clock \in Nat
  BY DEF CopiesInv, CountInv
<1>4. OwnerOK(c) /\ c.h.name # ""
  BY <1>1, <1>2 DEF TasksInv, TaskOK, Pressed, PressedOK
<1>5. /\ FitsKept
      /\ row' \in [Rows -> Copy] /\ \A r \in Rows : row'[r].version <= clock'
  BY <1>1, <1>3, NothingChanges
<1>6. TaskOK(NoTask)'
  BY DEF TaskOK, NoTask, Pressed, Fetching
<1>7. TasksInv' /\ task'[t] = NoTask /\ \A u \in Tasks \ {t} : task'[u] = task[u]
  BY <1>1, <1>5, <1>6, TasksStep DEF Leave
<1>8. Release(t) /\ task'[t].pc = "idle"
  BY <1>1, <1>7 DEF Leave, NoTask
<1>9. BusyInv'
  BY <1>1, <1>2, <1>3, <1>4, <1>7, <1>8, BusyReleased
<1>10. CopiesInv'
  BY <1>1, <1>5, CopiesKept
<1>11. LoadingInv'
  <2>1. loading' \subseteq {"list", "detail"}
    BY <1>1 DEF LoadingInv
  <2> QED
    BY <1>1, <1>7, <2>1, LoadingStep DEF Fetching, Pressed
<1>12. CountInv'
  <2>1. CountOf("sent")' <= CountOf("sent") /\ CountOf("done")' <= CountOf("done")
    BY <1>7, <1>8, CountNoMore
  <2>2. /\ CountOf("sent") \in Nat /\ CountOf("done") \in Nat /\ MaxRequests \in Nat
        /\ CountOf("sent")' \in Nat /\ CountOf("done")' \in Nat
    BY CountType, CountNext, ScreensConstants DEF ScreensConstants
  <2>3. clock + CountOf("sent")' <= MaxRequests
    BY <1>3, <2>1, <2>2 DEF CountInv
  <2>4. ASSUME NEW k \in DraftKeys(page) PROVE draft[k] + CountOf("done")' <= clock
    <3>1. draft[k] \in Nat /\ draft[k] + CountOf("done") <= clock
      BY DEF CountInv
    <3> QED
      BY <1>3, <2>1, <2>2, <3>1
  <2> QED
    BY <1>1, <2>3, <2>4 DEF CountInv, DraftKeys
<1>13. ASSUME NEW g \in OfPage[page.name], Single(g) PROVE DraftOK(g)'
  <2>1. DraftOK(g)
    BY <1>13 DEF DraftInv
  <2>2. CASE g.name # c.h.name
    <3>1. busy'[g.form.flag] = busy[g.form.flag]
      BY <1>1, <1>2, <1>4, <1>7, <1>8, <1>13, <2>2, SingleUntouched
    <3>2. Untouched(t, g)
      BY <1>1, <1>2, <1>8, <2>2, <3>1 DEF Untouched
    <3> QED
      BY <1>7, <2>1, <3>2, DraftUntouched
  <2>3. CASE g.name = c.h.name
    <3>1. Active(t, g) /\ \A u \in Tasks : Active(u, g) => u = t
      BY <1>1, <1>2, <2>1, <2>3 DEF Active, DraftOK
    <3>2. \A u \in Tasks : ~Active(u, g)'
      BY <1>7, <1>8, <3>1 DEF Active, Pressed, Fetching
    <3>3. task[t].draft = <<g.name, draft[g.name]>>
      BY <1>1, <1>2, <2>1, <2>3 DEF DraftOK
    <3>4. ASSUME NEW d \in spent', d[1] = g.name PROVE d[2] <= draft[g.name] /\ d[2] # draft[g.name]
      <4>1. d \in spent /\ d = <<d[1], d[2]>>
        BY <1>1 DEF DraftInv, SpentOK
      <4>2. d[2] <= draft[g.name]
        BY <2>1, <3>4, <4>1 DEF DraftOK
      <4>3. SUFFICES ASSUME d[2] = draft[g.name] PROVE FALSE
        BY <4>2
      <4>4. task[t].pc = "done"
        BY <2>1, <3>1, <3>4, <4>1, <4>3 DEF DraftOK, Active, Pressed
      <4>5. d = task[t].draft
        BY <3>3, <3>4, <4>1, <4>3
      <4> QED
        BY <1>1, <4>4, <4>5
    <3>5. \A u \in Tasks : ~(task'[u].pc \in Pressed /\ task'[u].h.name = g.name)
      BY <3>2 DEF Active
    <3> QED
      BY <1>1, <3>2, <3>4, <3>5 DEF DraftOK
  <2> QED
    BY <2>2, <2>3
<1>14. DraftInv'
  BY <1>1, <1>13 DEF DraftInv, SpentOK
<1> QED
  BY <1>7, <1>9, <1>10, <1>11, <1>12, <1>14

-----------------------------------------------------------------------------
(* Loads.                                                                  *)
LEMMA ReadCopyStep ==
    ASSUME TablesAgree, PagesInv, NEW t \in Tasks, ReadCopy(t)
    PROVE  PagesInv'
<1> USE DEF PagesInv
<1>1. /\ UNCHANGED <<page, row, list, detail, busy, loading, draft, spent, clock, lost>>
      /\ task[t].pc = "load"
  BY DEF ReadCopy
<1>2. PICK c : c = task[t]
  OBVIOUS
<1>3. page \in PageSet /\ clock \in Nat
  BY DEF CopiesInv, CountInv
<1>4. OwnerOK(c) /\ c.todo \in Loads /\ TodoOK(c)
  BY <1>1, <1>2 DEF TasksInv, TaskOK, Fetching
<1>5. PICK new : new = [pc |-> "read", h |-> c.h, id |-> c.id, todo |-> c.todo,
                        got |-> IF Head(c.todo) = "list" THEN row ELSE row[c.id]]
  OBVIOUS
<1>6. task' = [task EXCEPT ![t] = new]
  BY <1>2, <1>5 DEF ReadCopy, TasksInv
<1>7. /\ FitsKept
      /\ row' \in [Rows -> Copy] /\ \A r \in Rows : row'[r].version <= clock'
  BY <1>1, <1>3, NothingChanges
<1>8. TaskOK(new)'
  <2>1. \A r \in Rows : Fits(row[r], r)
    BY DEF CopiesInv, Fits
  <2>2. row = [r \in Rows |-> row[r]]
    BY DEF CopiesInv
  <2>3. ReadOK(new)
    <3>1. CASE Head(c.todo) = "list"
      BY <1>5, <2>1, <2>2, <3>1 DEF ReadOK
    <3>2. CASE Head(c.todo) # "list"
      <4>1. c.id \in Rows
        BY <1>4, <3>2, TodoFacts DEF TodoOK, Loads
      <4> QED
        BY <1>5, <2>1, <3>2, <4>1 DEF ReadOK
    <3> QED
      BY <3>1, <3>2
  <2>4. TaskOK(new)
    BY <1>4, <1>5, <2>3 DEF TaskOK, Pressed, Fetching, OwnerOK, TodoOK, Owner
  <2> QED
    BY <1>1, <1>7, <2>4, TaskKept
<1>9. TasksInv' /\ task'[t] = new /\ \A u \in Tasks \ {t} : task'[u] = task[u]
  BY <1>1, <1>6, <1>7, <1>8, TasksStep
<1>10. new.pc = "read" /\ new.h = c.h /\ new.id = c.id /\ new.todo = c.todo
  BY <1>5
<1>11. BusyInv'
  <2>1. \A f, x : Marks(task[t], f, x) => Marks(task[t], f, x)'
    BY <1>2, <1>9, <1>10 DEF Marks, Owner, Fetching
  <2> QED
    BY <1>1, <1>9, <2>1, BusyStays
<1>12. LoadingInv'
  <2>1. loading' \subseteq {"list", "detail"}
    BY <1>1 DEF LoadingInv
  <2>2. task'[t].pc \in Fetching /\ task'[t].todo = task[t].todo
    BY <1>2, <1>9, <1>10 DEF Fetching
  <2> QED
    BY <1>1, <1>9, <2>1, <2>2, LoadingStep
<1>13. CopiesInv'
  BY <1>1, <1>7, CopiesKept
<1>14. CountInv'
  <2>1. CountOf("sent")' = CountOf("sent") /\ CountOf("done")' = CountOf("done")
    BY <1>1, <1>9, <1>10, CountSame
  <2> QED
    BY <1>1, <2>1 DEF CountInv, DraftKeys
<1>15. ASSUME NEW g \in OfPage[page.name], Single(g) PROVE DraftOK(g)'
  <2>1. DraftOK(g)
    BY <1>15 DEF DraftInv
  <2>2. \A u \in Tasks : Active(u, g)' <=> Active(u, g)
    BY <1>1, <1>2, <1>9, <1>10 DEF Active, Fetching
  <2>3. \A u \in Tasks : task'[u].pc \in Pressed => task'[u] = task[u]
    BY <1>9, <1>10 DEF Pressed
  <2>4. \A u \in Tasks : task[u].pc = "done" => task'[u] = task[u]
    BY <1>1, <1>9
  <2> QED
    BY <1>1, <2>1, <2>2, <2>3, <2>4 DEF DraftOK
<1>16. DraftInv'
  BY <1>1, <1>15 DEF DraftInv, SpentOK
<1> QED
  BY <1>9, <1>11, <1>12, <1>13, <1>14, <1>16

LEMMA ShowStep ==
    ASSUME TablesAgree, PagesInv, NEW t \in Tasks, Show(t)
    PROVE  PagesInv'
<1>1. UNCHANGED <<page, row, draft, spent, clock, lost>> /\ task[t].pc = "read"
  BY DEF Show
<1>2. PICK c : c = task[t]
  OBVIOUS
<1>3. clock \in Nat /\ CopiesInv /\ lost' \in 0 .. MaxLost
  BY <1>1 DEF PagesInv, CountInv
<1>4. c.todo \in Loads /\ TodoOK(c) /\ ReadOK(c)
  BY <1>1, <1>2 DEF PagesInv, TasksInv, TaskOK, Fetching
<1>5. /\ FitsKept
      /\ row' \in [Rows -> Copy] /\ \A r \in Rows : row'[r].version <= clock'
  BY <1>1, <1>3, NothingChanges
<1>6. TasksInv' /\ BusyInv' /\ LoadingInv' /\ CountInv' /\ DraftInv'
  <2>1. Continue(t, Tail(task[t].todo), loading \ {Head(task[t].todo)})
    BY DEF Show
  <2> QED
    BY <1>1, <1>3, <1>5, <2>1, LoadedStep DEF Fetching
<1>7. CopiesInv'
  <2>1. CASE Head(c.todo) = "list"
    <3>1. list' = c.got /\ detail' = detail
      BY <1>2, <2>1 DEF Show
    <3>2. c.got = [r \in Rows |-> c.got[r]] /\ \A r \in Rows : Fits(c.got[r], r)
      BY <1>4, <2>1 DEF ReadOK
    <3>3. list' \in [Rows -> Copy]
      BY <3>1, <3>2 DEF Fits
    <3> QED
      BY <1>1, <1>3, <1>5, <3>1, <3>2, <3>3 DEF CopiesInv, WindowOK, FitsKept
  <2>2. CASE Head(c.todo) # "list"
    <3>1. detail' = {[id |-> c.id, shown |-> c.got]} /\ list' = list
      BY <1>2, <2>2 DEF Show
    <3>2. c.id \in Rows /\ page.modal # "copied" /\ Fits(c.got, c.id)
      BY <1>4, <2>2, TodoFacts DEF TodoOK, Loads, ReadOK
    <3>3. ASSUME NEW d \in detail' PROVE WindowOK(d)' /\ \A e \in detail' : d = e
      <4>1. d = [id |-> c.id, shown |-> c.got]
        BY <3>1
      <4> QED
        BY <1>1, <1>5, <3>1, <3>2, <4>1 DEF WindowOK, FitsKept
    <3> QED
      BY <1>1, <1>3, <1>5, <3>1, <3>3 DEF CopiesInv, FitsKept
  <2> QED
    BY <2>1, <2>2
<1> QED
  BY <1>6, <1>7 DEF PagesInv

LEMMA MissStep ==
    ASSUME TablesAgree, PagesInv, NEW t \in Tasks, Miss(t)
    PROVE  PagesInv'
<1>1. UNCHANGED <<page, row, list, detail, draft, spent, clock>> /\ task[t].pc \in Fetching
  BY DEF Miss, Fetching
<1>2. clock \in Nat /\ CopiesInv /\ lost' \in 0 .. MaxLost
  BY ScreensConstants DEF PagesInv, CountInv, Miss, ScreensConstants
<1>3. /\ FitsKept
      /\ row' \in [Rows -> Copy] /\ \A r \in Rows : row'[r].version <= clock'
  BY <1>1, <1>2, NothingChanges
<1>4. TasksInv' /\ BusyInv' /\ LoadingInv' /\ CountInv' /\ DraftInv'
  <2>1. Continue(t, Tail(task[t].todo), loading \ {Head(task[t].todo)})
    BY DEF Miss
  <2> QED
    BY <1>1, <1>2, <1>3, <2>1, LoadedStep
<1>5. CopiesInv'
  BY <1>1, <1>2, <1>3, CopiesKept
<1> QED
  BY <1>4, <1>5 DEF PagesInv

-----------------------------------------------------------------------------
(* Windows that are opened and closed leave the handlers alone.            *)
LEMMA NoTaskMoves ==
    ASSUME PagesInv, UNCHANGED <<page, row, busy, loading, draft, spent, task, clock, lost>>
    PROVE  FitsKept /\ TasksInv' /\ CountInv' /\ LoadingInv' /\ BusyInv' /\ DraftInv'
<1> USE DEF PagesInv
<1>1. FitsKept
  BY NothingChanges DEF CountInv
<1>2. TasksInv'
  BY <1>1, TasksStay
<1>3. CountInv' /\ LoadingInv'
  BY DEF CountInv, CountOf, LoadingInv, DraftKeys
<1>4. BusyInv'
  BY DEF BusyInv, Marks
<1>5. DraftInv'
  BY DEF DraftInv, DraftOK, Active, SpentOK
<1> QED
  BY <1>1, <1>2, <1>3, <1>4, <1>5

(* Steps that send nothing: a timer, a refresh, a window opened or closed. *)

\* Nothing that was pressed becomes of it, and no busy state changes.
Aside(t, new) ==
    /\ UNCHANGED <<page, row, busy, draft, spent, clock, lost>>
    /\ task[t].pc \in {"idle", "timer"} /\ new.pc \in {"idle", "load"}
    /\ task[t].pc = "idle" => new.h.name = ""
    /\ task[t].pc = "timer" /\ new.pc = "load" => new.h = task[t].h
    /\ task' = [task EXCEPT ![t] = new]

LEMMA AsideStep ==
    ASSUME TablesAgree, PagesInv, NEW t \in Tasks, NEW new, Aside(t, new), TaskOK(new)'
    PROVE  /\ FitsKept /\ TasksInv' /\ BusyInv' /\ CountInv' /\ DraftInv'
           /\ task'[t] = new /\ \A u \in Tasks \ {t} : task'[u] = task[u]
<1> USE DEF PagesInv
<1>1. UNCHANGED <<page, row, busy, draft, spent, clock, lost>>
  BY DEF Aside
<1>2. page \in PageSet /\ clock \in Nat
  BY DEF CopiesInv, CountInv
<1>3. FitsKept
  BY <1>1, <1>2, NothingChanges
<1>4. TasksInv' /\ task'[t] = new /\ \A u \in Tasks \ {t} : task'[u] = task[u]
  BY <1>1, <1>3, TasksStep DEF Aside
<1>5. BusyInv'
  <2>1. \A f, x : ~Marks(task[t], f, x)
    BY DEF Aside, Marks, Pressed, Fetching
  <2> QED
    BY <1>1, <1>4, <2>1, BusyStays
<1>6. CountInv'
  <2>1. CountOf("sent")' = CountOf("sent") /\ CountOf("done")' = CountOf("done")
    BY <1>4, CountSame DEF Aside
  <2> QED
    BY <1>1, <2>1 DEF CountInv, DraftKeys
<1>7. ASSUME NEW g \in OfPage[page.name], Single(g) PROVE DraftOK(g)'
  <2>1. DraftOK(g) /\ g.name # ""
    BY <1>2, <1>7, HandlerFacts DEF DraftInv
  <2>2. task[t].pc = "timer" => task[t].h.name # g.name
    <3> SUFFICES ASSUME task[t].pc = "timer", task[t].h.name = g.name PROVE FALSE
      OBVIOUS
    <3>1. OwnerOK(task[t])
      BY DEF TasksInv, TaskOK
    <3>2. ~Single(Owner(task[t]))
      BY DEF TasksInv, TaskOK, TimerOK
    <3>3. Owner(task[t]) = g
      BY <1>2, <1>7, <3>1, HandlerFacts
    <3> QED
      BY <1>7, <3>2, <3>3
  <2>3. Untouched(t, g)
    BY <1>1, <1>4, <2>1, <2>2 DEF Untouched, Aside
  <2> QED
    BY <1>4, <2>1, <2>3, DraftUntouched
<1>8. DraftInv'
  BY <1>1, <1>7 DEF DraftInv, SpentOK
<1> QED
  BY <1>3, <1>4, <1>5, <1>6, <1>8

LEMMA FireStep ==
    ASSUME TablesAgree, PagesInv, NEW t \in Tasks, Fire(t)
    PROVE  PagesInv'
<1> USE DEF PagesInv
<1>1. UNCHANGED <<page, row, list, busy, loading, draft, spent, clock, lost>> /\ task[t].pc = "timer"
  BY DEF Fire
<1>2. PICK c : c = task[t]
  OBVIOUS
<1>3. OwnerOK(c) /\ TimerOK(c)
  BY <1>1, <1>2 DEF TasksInv, TaskOK
<1>4. clock \in Nat
  BY DEF CountInv
<1>5. \E new : Aside(t, new) /\ TaskOK(new)'
  <2>1. CASE Head(c.todo) = "close"
    <3>1. Aside(t, NoTask)
      BY <1>1, <1>2, <2>1 DEF Fire, Aside, NoTask
    <3>2. TaskOK(NoTask)'
      BY DEF TaskOK, NoTask, Pressed, Fetching
    <3> QED
      BY <3>1, <3>2
  <2>2. CASE Head(c.todo) # "close"
    <3>1. PICK new : new = [pc |-> "load", h |-> c.h, id |-> c.id, todo |-> c.todo]
      OBVIOUS
    <3>2. [c EXCEPT !.pc = "load"] = new
      BY <1>3, <3>1 DEF TimerOK
    <3>3. Aside(t, new)
      BY <1>1, <1>2, <2>2, <3>1, <3>2 DEF Fire, Aside
    <3>4. c.todo = <<"list">>
      BY <1>3, <2>2, TodoFacts DEF TimerOK
    <3>5. TodoOK(new)'
      BY <3>1, <3>4, TodoFacts, PlansDiffer DEF TodoOK
    <3>6. OwnerOK(new)'
      BY <1>1, <1>3, <3>1 DEF OwnerOK
    <3>7. TaskOK(new)'
      BY <3>1, <3>4, <3>5, <3>6 DEF TaskOK, Pressed, Fetching, Loads
    <3> QED
      BY <3>3, <3>7
  <2> QED
    BY <2>1, <2>2
<1>6. PICK new : Aside(t, new) /\ TaskOK(new)'
  BY <1>5
<1>7. /\ FitsKept /\ TasksInv' /\ BusyInv' /\ CountInv' /\ DraftInv'
      /\ task'[t] = new /\ \A u \in Tasks \ {t} : task'[u] = task[u]
  BY <1>6, AsideStep
<1>8. LoadingInv'
  <2>1. loading' \subseteq {"list", "detail"}
    BY <1>1 DEF LoadingInv
  <2> QED
    BY <1>1, <1>7, <2>1, LoadingStep DEF Fetching
<1>9. CopiesInv'
  <2>1. detail' \subseteq detail
    BY DEF Fire
  <2> QED
    BY <1>1, <1>7, <2>1 DEF CopiesInv, WindowOK, FitsKept
<1> QED
  BY <1>7, <1>8, <1>9

LEMMA LoadStarts ==
    ASSUME TablesAgree, PagesInv, NEW t \in Tasks, Free(t), NEW i \in Ids,
           NEW todo \in {<<"list">>, <<"detail">>},
           todo = <<"detail">> => i \in Rows /\ page.modal # "copied",
           loading' = loading \cup {Head(todo)},
           task' = [task EXCEPT ![t] = [pc |-> "load", h |-> JustLoads, id |-> i, todo |-> todo]],
           UNCHANGED <<page, row, list, detail, busy, draft, spent, clock, lost>>
    PROVE  PagesInv'
<1> USE DEF PagesInv
<1>1. task[t].pc = "idle"
  <2>1. task[t] = NoTask
    BY DEF Free
  <2> QED
    BY ONLY <2>1 DEF NoTask
<1>2. PICK new : new = [pc |-> "load", h |-> JustLoads, id |-> i, todo |-> todo]
  OBVIOUS
<1>3. Aside(t, new)
  BY <1>1, <1>2, NoOwner DEF Aside
<1>4. TaskOK(new)'
  <2>1. Head(todo) \in {"list", "detail"} /\ (Head(todo) = "detail" => todo = <<"detail">>)
    BY TodoFacts
  <2>2. todo # <<"list", "timer", "close">>
    BY PlansDiffer, TodoFacts
  <2>3. TodoOK(new)'
    BY <1>2, <2>1, <2>2 DEF TodoOK
  <2> QED
    BY <1>2, <2>3, NoOwner DEF TaskOK, OwnerOK, Pressed, Fetching, Loads
<1>5. /\ FitsKept /\ TasksInv' /\ BusyInv' /\ CountInv' /\ DraftInv'
      /\ task'[t] = new /\ \A u \in Tasks \ {t} : task'[u] = task[u]
  BY <1>3, <1>4, AsideStep
<1>6. LoadingInv'
  <2>1. Head(todo) \in {"list", "detail"}
    BY TodoFacts
  <2>2. loading' \subseteq {"list", "detail"}
    BY <2>1 DEF LoadingInv
  <2> QED
    <3>1. task'[t].pc \in Fetching /\ task'[t].todo = todo /\ task[t].pc \notin Fetching
      <4>1. new.pc = "load" /\ new.todo = todo
        BY ONLY <1>2
      <4>2. task'[t] = new
        BY ONLY <1>5
      <4> QED
        BY ONLY <1>1, <4>1, <4>2 DEF Fetching
    <3>2. \A x \in loading' : x = Head(todo) \/ x \in loading
      OBVIOUS
    <3> QED
      BY <1>5, <2>2, <3>1, <3>2, LoadingStep
<1>7. CopiesInv'
  BY <1>5 DEF CopiesInv, WindowOK, FitsKept
<1> QED
  BY <1>5, <1>6, <1>7

LEMMA RefreshStep ==
    ASSUME TablesAgree, PagesInv, NEW t \in Tasks, Refresh(t)
    PROVE  PagesInv'
<1>1. /\ loading' = loading \cup {Head(<<"list">>)}
      /\ task' = [task EXCEPT ![t] = [pc |-> "load", h |-> JustLoads, id |-> Whole, todo |-> <<"list">>]]
      /\ UNCHANGED <<page, row, list, detail, busy, draft, spent, clock, lost>>
      /\ Free(t)
  BY TodoFacts DEF Refresh
<1>2. PICK todo : todo = <<"list">>
  OBVIOUS
<1>3. todo # <<"detail">> /\ Whole \in Ids
  BY <1>2, PlansDiffer DEF Ids
<1> QED
  BY <1>1, <1>2, <1>3, LoadStarts

LEMMA OpenStep ==
    ASSUME TablesAgree, PagesInv, NEW t \in Tasks, NEW r \in Rows, Open(t, r)
    PROVE  PagesInv'
<1>1. UNCHANGED <<page, row, list, busy, draft, spent, clock, lost>>
  BY DEF Open
<1>2. CASE page.modal = "fetched"
  <2>1. /\ loading' = loading \cup {Head(<<"detail">>)}
        /\ task' = [task EXCEPT ![t] = [pc |-> "load", h |-> JustLoads, id |-> r, todo |-> <<"detail">>]]
        /\ detail' = detail /\ Free(t)
    BY <1>2, TodoFacts DEF Open
  <2>2. r \in Ids /\ page.modal # "copied"
    BY <1>2 DEF Ids
  <2> QED
    BY <1>1, <2>1, <2>2, LoadStarts
<1>3. CASE page.modal # "fetched"
  <2>1. /\ list[r].state \in Openable
        /\ detail' = {[id |-> r, shown |-> list[r]]}
        /\ UNCHANGED <<loading, task>>
    BY <1>3 DEF Open, Openable
  <2>2. FitsKept /\ CopiesInv
    BY <1>1, <2>1, NoTaskMoves DEF PagesInv
  <2>3. ASSUME NEW d \in detail' PROVE WindowOK(d)' /\ \A e \in detail' : d = e
    <3>1. d = [id |-> r, shown |-> list[r]]
      BY <2>1
    <3> QED
      BY <1>1, <2>1, <2>2, <3>1 DEF WindowOK, CopiesInv, FitsKept
  <2>4. CopiesInv'
    BY <1>1, <2>2, <2>3 DEF CopiesInv, FitsKept
  <2> QED
    BY <1>1, <2>1, <2>4, NoTaskMoves DEF PagesInv
<1> QED
  BY <1>2, <1>3

LEMMA CloseWindowStep ==
    ASSUME PagesInv, CloseWindow
    PROVE  PagesInv'
<1>1. UNCHANGED <<page, row, list, busy, loading, draft, spent, task, clock, lost>> /\ detail' = {}
  BY DEF CloseWindow
<1>2. CopiesInv'
  BY <1>1 DEF PagesInv, CopiesInv, Fits
<1> QED
  BY <1>1, <1>2, NoTaskMoves DEF PagesInv

-----------------------------------------------------------------------------
LEMMA PagesInit == TablesAgree /\ PageInit => PagesInv
<1> SUFFICES ASSUME TablesAgree, PageInit PROVE PagesInv
  OBVIOUS
<1>1. page \in PageSet /\ \A r \in Rows : page.starts[r] \in States
  BY StateFacts DEF PageInit
<1>2. task = [t \in Tasks |-> NoTask] /\ \A t \in Tasks : task[t].pc = "idle"
  BY DEF PageInit, NoTask
<1>3. row \in [Rows -> Copy] /\ list = row /\ \A r \in Rows : row[r].version = 0
  BY <1>1 DEF PageInit, Copy
<1>4. clock = 0 /\ lost = 0 /\ loading = {} /\ spent = {}
  BY DEF PageInit
<1>5. TasksInv
  BY <1>2 DEF TasksInv, TaskOK, Pressed, Fetching
<1>6. CopiesInv
  <2>1. \A r \in Rows : Fits(row[r], r)
    BY <1>3, <1>4 DEF Fits
  <2>2. ASSUME NEW d \in detail PROVE WindowOK(d) /\ \A e \in detail : d = e
    <3>1. page.modal = "page"
      BY <2>2 DEF PageInit
    <3>2. PICK r \in Rows : detail = {[id |-> r, shown |-> row[r]]}
      BY <3>1 DEF PageInit
    <3>3. d = [id |-> r, shown |-> row[r]]
      BY <3>2
    <3> QED
      BY <2>1, <3>1, <3>2, <3>3 DEF WindowOK
  <2> QED
    BY <1>1, <1>3, <1>4, <2>1, <2>2 DEF CopiesInv
<1>7. CountInv
  <2>1. CountOf("sent") = 0 /\ CountOf("done") = 0
    <3>1. {t \in Tasks : task[t].pc = "sent"} = {} /\ {t \in Tasks : task[t].pc = "done"} = {}
      BY <1>2
    <3> QED
      BY <3>1, FS_EmptySet DEF CountOf
  <2>2. draft = [k \in DraftKeys(page) |-> 0]
    BY DEF PageInit
  <2> QED
    BY <1>4, <2>1, <2>2, ScreensConstants DEF CountInv, ScreensConstants
<1>8. BusyInv
  BY DEF PageInit, BusyInv
<1>9. LoadingInv
  BY <1>4 DEF LoadingInv
<1>10. DraftInv
  BY <1>2, <1>4 DEF DraftInv, DraftOK, SpentOK, Active, Pressed, Fetching
<1> QED
  BY <1>5, <1>6, <1>7, <1>8, <1>9, <1>10 DEF PagesInv

LEMMA PagesNext == TablesAgree /\ PagesInv /\ [PageNext]_pageVars => PagesInv'
<1> SUFFICES ASSUME TablesAgree, PagesInv, [PageNext]_pageVars PROVE PagesInv'
  OBVIOUS
<1>1. ASSUME NEW t \in Tasks, NEW h \in OfPage[page.name], Press(t, h) PROVE PagesInv'
  BY <1>1, PressStep
<1>2. ASSUME NEW t \in Tasks, Run(t) PROVE PagesInv'
  BY <1>2, RespondStep, RefuseStep, TakeAnswerStep, ShowErrorStep, ReadCopyStep, ShowStep, FireStep DEF Run
<1>3. ASSUME NEW t \in Tasks, Miss(t) \/ Refresh(t) PROVE PagesInv'
  BY <1>3, MissStep, RefreshStep
<1>4. ASSUME NEW t \in Tasks, NEW r \in Rows, Open(t, r) PROVE PagesInv'
  BY <1>4, OpenStep
<1>5. ASSUME NEW r \in Rows, Elsewhere(r) PROVE PagesInv'
  BY <1>5, ElsewhereStep
<1>6. ASSUME CloseWindow PROVE PagesInv'
  BY <1>6, CloseWindowStep
<1>7. ASSUME UNCHANGED pageVars PROVE PagesInv'
  <2>1. UNCHANGED <<page, row, list, detail, busy, loading, draft, spent, task, clock, lost>>
    BY <1>7 DEF pageVars
  <2>2. CopiesInv'
    BY <2>1 DEF PagesInv, CopiesInv, WindowOK, Fits
  <2> QED
    BY <2>1, <2>2, NoTaskMoves DEF PagesInv
<1> QED
  BY <1>1, <1>2, <1>3, <1>4, <1>5, <1>6, <1>7 DEF PageNext

LEMMA PagesAlways == TablesAgree /\ PageSpec => []PagesInv
<1>1. TablesAgree => []TablesAgree
  OBVIOUS
<1> QED
  BY <1>1, PagesInit, PagesNext, PTL DEF PageSpec

LEMMA ScreensFollow == PagesInv => ScreensInv
<1> SUFFICES ASSUME PagesInv PROVE ScreensInv
  OBVIOUS
<1> USE DEF PagesInv
<1>1. MaxRequests \in Nat /\ CountOf("sent") \in Nat /\ CountOf("done") \in Nat
  BY CountType, ScreensConstants DEF ScreensConstants
<1>2. clock \in Nat /\ clock <= MaxRequests
  BY <1>1 DEF CountInv
<1>3. \A r \in Rows : row[r].version \in 0..MaxRequests /\ list[r].version \in 0..MaxRequests
  <2>1. \A x \in Copy : x.version <= clock => x.version \in 0..MaxRequests
    BY <1>1, <1>2 DEF Copy
  <2> QED
    BY <2>1 DEF CopiesInv, Fits
<1>4. Cardinality(detail) <= 1
  <2>1. CASE detail = {}
    BY <2>1, FS_EmptySet
  <2>2. CASE detail # {}
    <3>1. PICK d \in detail : TRUE
      BY <2>2
    <3>2. detail = {d}
      BY <3>1 DEF CopiesInv
    <3> QED
      BY <3>2, FS_Singleton
  <2> QED
    BY <2>1, <2>2
<1>5. draft \in [DraftKeys(page) -> 0..MaxRequests]
  <2>1. draft \in [DraftKeys(page) -> Nat]
    BY DEF CountInv
  <2>2. ASSUME NEW k \in DraftKeys(page) PROVE draft[k] \in 0..MaxRequests
    <3>1. draft[k] \in Nat /\ draft[k] + CountOf("done") <= clock
      BY <2>1 DEF CountInv
    <3> QED
      BY <1>1, <1>2, <3>1
  <2> QED
    BY <2>1, <2>2
<1>6. PageTypeOK
  BY <1>3, <1>4, <1>5 DEF PageTypeOK, CopiesInv, BusyInv, Ids, LoadingInv, CountInv
<1>7. FormsComeBack
  <2> SUFFICES ASSUME \A t \in Tasks : task[t] = NoTask
               PROVE  (\A f \in DOMAIN busy : busy[f] = {}) /\ loading = {}
    BY DEF FormsComeBack
  <2>1. \A t \in Tasks : task[t].pc \notin Pressed \cup Fetching
    BY DEF NoTask, Pressed, Fetching
  <2>2. \A f \in Flags(page) : busy[f] = {}
    BY <2>1 DEF BusyInv, Marks
  <2>3. DOMAIN busy = Flags(page)
    BY DEF BusyInv
  <2> QED
    BY <2>1, <2>2, <2>3 DEF LoadingInv
<1> QED
  BY <1>6, <1>7 DEF ScreensInv

(* In every reachable state of a page: its busy states and its notices stand for handlers under way *)
(* and are gone with the last of them, and its copies, drafts and counts keep to their ranges. *)
THEOREM ScreensComeBack == TheTables /\ PageSpec => []ScreensInv
  BY TheTablesAgree, PagesAlways, ScreensFollow, PTL

-----------------------------------------------------------------------------
(* A request that was sent stands until its own handler takes a step.      *)
LEMMA OnlyOwnStep ==
    ASSUME TasksInv, NEW t \in Tasks, NEW u \in Tasks, u # t,
           \/ \E h \in OfPage[page.name] : Press(u, h)
           \/ Run(u) \/ Miss(u) \/ Refresh(u) \/ \E r \in Rows : Open(u, r)
    PROVE  task'[t] = task[t]
<1>1. task = [v \in Tasks |-> task[v]]
  BY DEF TasksInv
<1>2. ASSUME NEW todo, NEW standing, Continue(u, todo, standing) PROVE task'[t] = task[t]
  BY <1>1, <1>2 DEF Continue, Leave
<1>3. CASE \E h \in OfPage[page.name] : Press(u, h)
  BY <1>1, <1>3 DEF Press
<1>4. CASE Respond(u) \/ Refuse(u) \/ ReadCopy(u) \/ Fire(u) \/ ShowError(u)
  BY <1>1, <1>4 DEF Respond, Refuse, ReadCopy, Fire, ShowError, Leave
<1>5. CASE TakeAnswer(u) \/ Show(u) \/ Miss(u)
  BY <1>2, <1>5 DEF TakeAnswer, Show, Miss
<1>6. CASE Refresh(u) \/ \E r \in Rows : Open(u, r)
  BY <1>1, <1>6 DEF Refresh, Open
<1> QED
  BY <1>3, <1>4, <1>5, <1>6 DEF Run

LEMMA SentStands ==
    ASSUME TasksInv, [PageNext]_pageVars, NEW t \in Tasks, task[t].pc = "sent"
    PROVE  task'[t] = task[t] \/ Respond(t) \/ Refuse(t) \/ ShowError(t)
<1>1. CASE UNCHANGED task
  BY <1>1
<1>2. ASSUME NEW u \in Tasks,
             \/ \E h \in OfPage[page.name] : Press(u, h)
             \/ Run(u) \/ Miss(u) \/ Refresh(u) \/ \E r \in Rows : Open(u, r)
      PROVE  task'[t] = task[t] \/ Respond(t) \/ Refuse(t) \/ ShowError(t)
  <2>1. CASE u # t
    BY <1>2, <2>1, OnlyOwnStep
  <2>2. CASE u = t
    <3>1. task[t] # NoTask
      BY DEF NoTask
    <3>2. ~(\E h \in OfPage[page.name] : Press(t, h)) /\ ~Refresh(t)
      BY <3>1 DEF Press, Refresh, Free
    <3>3. ~Miss(t) /\ ~TakeAnswer(t) /\ ~ReadCopy(t) /\ ~Show(t) /\ ~Fire(t)
      BY DEF Miss, TakeAnswer, ReadCopy, Show, Fire
    <3>4. ASSUME NEW r \in Rows, Open(t, r) PROVE task'[t] = task[t]
      BY <3>1, <3>4 DEF Open, Free
    <3> QED
      BY <1>2, <2>2, <3>2, <3>3, <3>4 DEF Run
  <2> QED
    BY <2>1, <2>2
<1>3. CASE \E r \in Rows : Elsewhere(r)
  BY <1>3 DEF Elsewhere
<1>4. CASE CloseWindow
  BY <1>4 DEF CloseWindow
<1> QED
  BY <1>1, <1>2, <1>3, <1>4 DEF PageNext, pageVars

LEMMA TakesIsRespond ==
    ASSUME TasksInv, [PageNext]_pageVars, NEW t \in Tasks, Takes(t)
    PROVE  Respond(t)
<1>1. task[t].pc = "sent" /\ task'[t].pc = "done"
  BY DEF Takes
<1>2. CASE Refuse(t)
  <2>1. task'[t].pc = "refused"
    BY <1>1, <1>2 DEF Refuse, TasksInv, TaskOK, SentOK
  <2> QED
    BY <1>1, <2>1
<1>3. CASE ShowError(t)
  <2>1. task'[t] = NoTask
    BY <1>3 DEF ShowError, Leave, TasksInv
  <2> QED
    BY <1>1, <2>1 DEF NoTask
<1> QED
  BY <1>1, <1>2, <1>3, SentStands

LEMMA SentFacts ==
    ASSUME TablesAgree, PagesInv, NEW t \in Tasks, task[t].pc = "sent"
    PROVE  /\ OwnerOK(task[t]) /\ PressedOK(task[t]) /\ SentOK(task[t]) /\ task[t].h.name # ""
           /\ HandlerOf(t) = Owner(task[t])
           /\ HandlerOf(t) \in OfPage[page.name] /\ HandlerOf(t).name = task[t].h.name
           /\ HandlerOK(HandlerOf(t)) /\ OnPageOK(page, HandlerOf(t))
           /\ task[t].id # Whole => task[t].id \in Rows
<1>1. PICK c : c = task[t]
  OBVIOUS
<1>2. OwnerOK(c) /\ PressedOK(c) /\ SentOK(c) /\ c.h.name # "" /\ (c.id # Whole => c.id \in Rows)
  BY <1>1 DEF PagesInv, TasksInv, TaskOK, Pressed, PressedOK, OwnerOK, Ids
<1>3. page \in PageSet
  BY DEF PagesInv, CopiesInv
<1>4. HandlerOf(t) = Owner(c)
  BY <1>1 DEF HandlerOf, Owner
<1> QED
  BY <1>1, <1>2, <1>3, <1>4, OwnerFacts

(* An operation of which that is promised is done to the record as the page showed it when the button *)
(* was pressed.                                                                                       *)
THEOREM DoneToWhatWasShown == TheTables /\ PageSpec => ActsOnWhatWasShown
<1>1. TablesAgree /\ PagesInv /\ [PageNext]_pageVars =>
        [\A t \in Tasks : Takes(t) /\ task[t].h.name \in Promised => row[task[t].id] = task[t].shown]_pageVars
  <2> SUFFICES ASSUME TablesAgree, PagesInv, [PageNext]_pageVars,
                      NEW t \in Tasks, Takes(t), task[t].h.name \in Promised
               PROVE  row[task[t].id] = task[t].shown
    OBVIOUS
  <2>1. Respond(t) /\ task[t].pc = "sent"
    BY TakesIsRespond DEF PagesInv, Takes
  <2>2. PICK c, h : c = task[t] /\ h = HandlerOf(t)
    OBVIOUS
  <2>3. /\ OwnerOK(c) /\ PressedOK(c) /\ SentOK(c)
        /\ h = Owner(c) /\ h.name = c.h.name /\ HandlerOK(h)
        /\ c.id # Whole => c.id \in Rows
    BY <2>1, <2>2, SentFacts
  <2>4. h.form.reads # "new" /\ h.route.compares /\ h.sends
    BY <2>2, <2>3 DEF HandlerOK
  <2>5. c.id # Whole
    BY <2>3, <2>4 DEF PressedOK
  <2>6. c.shown.version = row[c.id].version
    BY <2>1, <2>2, <2>4, <2>5 DEF Respond, Accepts
  <2>7. Fits(c.shown, c.id)
    BY <2>3, <2>5 DEF SentOK
  <2> QED
    BY <2>2, <2>6, <2>7 DEF Fits
<1>2. TablesAgree => []TablesAgree
  OBVIOUS
<1> QED
  BY <1>1, <1>2, TheTablesAgree, PagesAlways, PTL DEF PageSpec, ActsOnWhatWasShown

(* No page offers what its route refuses: a press is refused only if the record changed after the page *)
(* read it.                                                                                            *)
THEOREM RefusalsAreStale == TheTables /\ PageSpec => RefusedOnlyWhenStale
<1>1. TablesAgree /\ PagesInv /\ [PageNext]_pageVars =>
        [\A t \in Tasks : /\ task[t].pc = "sent" /\ task'[t].pc = "refused"
                          /\ task[t].h.name \notin Regardless
                         => row[task[t].id] # task[t].shown]_pageVars
  <2> SUFFICES ASSUME TablesAgree, PagesInv, [PageNext]_pageVars,
                      NEW t \in Tasks, task[t].pc = "sent", task'[t].pc = "refused",
                      task[t].h.name \notin Regardless, row[task[t].id] = task[t].shown
               PROVE  FALSE
    OBVIOUS
  <2>1. Refuse(t)
    <3>1. CASE Respond(t)
      <4>1. task'[t].pc = "done"
        BY <3>1 DEF Respond, PagesInv, TasksInv
      <4> QED
        BY <4>1
    <3>2. CASE ShowError(t)
      <4>1. task'[t] = NoTask
        BY <3>2 DEF ShowError, Leave, PagesInv, TasksInv
      <4> QED
        BY <4>1 DEF NoTask
    <3> QED
      BY <3>1, <3>2, SentStands DEF PagesInv
  <2>2. PICK c, h : c = task[t] /\ h = HandlerOf(t)
    OBVIOUS
  <2>3. /\ OwnerOK(c) /\ PressedOK(c) /\ SentOK(c)
        /\ h = Owner(c) /\ h.name = c.h.name /\ OnPageOK(page, h)
        /\ c.id # Whole => c.id \in Rows
    BY <2>2, SentFacts
  <2>4. c.id # Whole /\ ~(/\ row[c.id].state \in h.route.takes
                          /\ h.route.compares /\ h.sends => c.shown.version = row[c.id].version)
    BY <2>1, <2>2 DEF Refuse, Accepts
  <2>5. row[c.id].state \notin h.route.takes
    BY <2>2, <2>4
  <2>6. h.form.reads # "new"
    BY <2>3, <2>4 DEF PressedOK
  <2>7. /\ c.shown.state \in h.form.on
        /\ page.modal = "copied" /\ h.form.reads = "detail" => c.shown.state \in Openable
    BY <2>3, <2>4 DEF SentOK
  <2>8. c.shown.state \in h.route.takes
    BY <2>2, <2>3, <2>6, <2>7 DEF OnPageOK
  <2> QED
    BY <2>2, <2>5, <2>8
<1>2. TablesAgree => []TablesAgree
  OBVIOUS
<1> QED
  BY <1>1, <1>2, TheTablesAgree, PagesAlways, PTL DEF PageSpec, RefusedOnlyWhenStale

(* What was typed into a form that is cleared when it succeeds takes effect *)
(* once, but for the payments beside the invoices.                         *)
THEOREM DraftsTakeEffectOnce == TheTables /\ PageSpec => OneEffectPerDraft
<1>1. TablesAgree /\ PagesInv /\ [PageNext]_pageVars =>
        [\A t \in Tasks : /\ Takes(t)
                          /\ "clear" \in HandlerOf(t).atOnce
                          /\ task[t].h.name # "RecordPayment"
                         => task[t].draft \notin spent]_pageVars
  <2> SUFFICES ASSUME TablesAgree, PagesInv, NEW t \in Tasks, Takes(t),
                      "clear" \in HandlerOf(t).atOnce, task[t].h.name # "RecordPayment",
                      task[t].draft \in spent
               PROVE  FALSE
    OBVIOUS
  <2>1. task[t].pc = "sent"
    BY DEF Takes
  <2>2. PICK h : h = HandlerOf(t)
    OBVIOUS
  <2>3. h \in OfPage[page.name] /\ h.name = task[t].h.name /\ Single(h)
    BY <2>1, <2>2, SentFacts DEF HandlerOK
  <2>4. DraftOK(h)
    BY <2>3 DEF PagesInv, DraftInv
  <2>5. task[t].draft = <<h.name, draft[h.name]>>
    BY <2>1, <2>3, <2>4 DEF DraftOK, Pressed
  <2>6. PICK d \in spent : d = <<h.name, draft[h.name]>>
    BY <2>5
  <2>7. d[1] = h.name /\ d[2] = draft[h.name]
    BY <2>6
  <2>8. PICK u \in Tasks : task[u].pc = "done" /\ task[u].h.name = h.name
    BY <2>4, <2>7 DEF DraftOK
  <2>9. u = t
    BY <2>1, <2>3, <2>4, <2>8 DEF DraftOK, Active, Pressed
  <2> QED
    BY <2>1, <2>8, <2>9
<1>2. TablesAgree => []TablesAgree
  OBVIOUS
<1> QED
  BY <1>1, <1>2, TheTablesAgree, PagesAlways, PTL DEF PageSpec, OneEffectPerDraft
=============================================================================
