---------------------------- MODULE Orders_proofs ----------------------------
(***************************************************************************)
(* What follows a confirmed quotation, for any orders, stock, splits,      *)
(* subscriptions, plans, dates, lines and number of members of staff.      *)
(* Changes of a subscription take turns: what a request computes before    *)
(* its transaction is what it would have computed in it.  Billing plans    *)
(* are whole.  And what the proofs of Fulfillment show of an instance, and *)
(* those of Subscription, holds of the parts of OrderFlow.                 *)
(***************************************************************************)
EXTENDS OrderFlow, Sums

-----------------------------------------------------------------------------
(* Taking turns.                                                           *)

RequestFields == {"pc", "sub", "change", "expected", "upgrade", "credit"}

(* A request under way keeps an ACTIVE subscription as long as it has the  *)
(* version the client sent, and what it computed fits the terms.           *)
RequestOK(t) ==
    LET s == req[t].sub
        change == req[t].change
    IN  req[t].pc # "idle" =>
          /\ s \in Subscriptions /\ change \in Changes
          /\ req[t].expected \in Nat /\ req[t].expected <= sub[s].version
          /\ sub[s].status # "NONE"
          /\ VersionUnchanged(t) =>
                /\ sub[s].status = "ACTIVE"
                /\ req[t].pc # "read" =>
                      /\ req[t].upgrade = UpgradeNow(s, change)
                      /\ req[t].credit = CreditNow(s, change)

TurnsInv ==
    /\ sub \in [Subscriptions -> SubscriptionRow]
    /\ req = [t \in Requests |-> req[t]]
    /\ credits = [s \in Subscriptions |-> credits[s]]
    /\ \A t \in Requests : /\ req[t] = [f \in RequestFields |-> req[t][f]]
                           /\ RequestOK(t)

(* A subscription is left alone, or created, or moves on by a version.     *)
SubMoves ==
    \A s \in Subscriptions :
        \/ sub'[s] = sub[s]
        \/ sub[s].status = "NONE"
        \/ sub'[s].version = sub[s].version + 1 /\ sub'[s].status # "NONE"

LEMMA OthersStayOK ==
    ASSUME TurnsInv, SubMoves, NEW t \in Requests, req'[t] = req[t]
    PROVE  RequestOK(t)'
<1> SUFFICES ASSUME req[t].pc # "idle" PROVE RequestOK(t)'
  BY DEF RequestOK
<1>1. RequestOK(t) /\ req[t].sub \in Subscriptions /\ sub[req[t].sub].version \in Nat
  BY DEF TurnsInv, RequestOK, SubscriptionRow
<1>2. CASE sub'[req[t].sub] = sub[req[t].sub]
  BY <1>1, <1>2 DEF RequestOK, VersionUnchanged, UpgradeNow, CreditNow
<1>3. CASE sub'[req[t].sub] # sub[req[t].sub]
  <2>1. /\ sub'[req[t].sub].version = sub[req[t].sub].version + 1
        /\ sub'[req[t].sub].status # "NONE"
    BY <1>1, <1>3 DEF SubMoves, RequestOK
  <2> QED
    BY <1>1, <2>1 DEF RequestOK, VersionUnchanged
<1> QED
  BY <1>2, <1>3

LEMMA IdleShape == Idle.pc = "idle" /\ Idle = [f \in RequestFields |-> Idle[f]]
BY DEF Idle, RequestFields

(* A request that ends leaves the others as they were.                     *)
LEMMA Closing ==
    ASSUME TurnsInv, SubMoves, NEW t \in Requests, Close(t),
           sub' \in [Subscriptions -> SubscriptionRow],
           credits' = [s \in Subscriptions |-> credits'[s]]
    PROVE  TurnsInv'
<1>1. /\ req'[t] = Idle /\ \A u \in Requests \ {t} : req'[u] = req[u]
      /\ req' = [u \in Requests |-> req'[u]]
  BY DEF Close, TurnsInv
<1>2. ASSUME NEW u \in Requests
      PROVE  req'[u] = [f \in RequestFields |-> req'[u][f]] /\ RequestOK(u)'
  <2>1. CASE u = t
    BY <1>1, <2>1, IdleShape DEF RequestOK
  <2>2. CASE u # t
    <3>1. req'[u] = req[u]
      BY <1>1, <2>2
    <3> QED
      BY <3>1, OthersStayOK DEF TurnsInv
  <2> QED
    BY <2>1, <2>2
<1> QED
  BY <1>1, <1>2 DEF TurnsInv

LEMMA NewScheduleType ==
    ASSUME NEW change \in Changes, NEW upgrade
    PROVE  NewSchedule(change, upgrade) \in Schedule /\ change.cycle \in Cycles
<1>1. /\ change.day \in Int /\ change.amount \in Nat /\ change.cycle \in Cycles
      /\ CycleDays[change.cycle] \in Nat
  BY SubscriptionAssumption DEF SubscriptionAssumption, Change
<1> QED
  BY <1>1 DEF NewSchedule, Schedule, EndOfCycle

LEMMA ModifyMoves ==
    ASSUME TurnsInv, NEW t \in Requests, Modify(t)
    PROVE  LET s == req[t].sub
               new == NewSchedule(req[t].change, req[t].upgrade)
           IN  /\ sub' \in [Subscriptions -> SubscriptionRow] /\ SubMoves
               /\ s \in Subscriptions /\ sub[s].status = "ACTIVE"
               /\ \A o \in Subscriptions \ {s} : sub'[o] = sub[o]
               /\ Last(sub'[s].schedules) = new
               /\ sub'[s].schedules = Append(sub[s].schedules, new)
<1> DEFINE s == req[t].sub
           new == NewSchedule(req[t].change, req[t].upgrade)
<1>1. PICK n \in Schedule : n = new /\ req[t].change.cycle \in Cycles
  BY NewScheduleType DEF TurnsInv, RequestOK, Modify
<1>2. PICK c \in Cycles : c = req[t].change.cycle
  BY <1>1
<1>3. s \in Subscriptions /\ sub[s].status = "ACTIVE"
  BY DEF Modify, TurnsInv, RequestOK
<1>4. PICK u \in SubscriptionRow : u = sub[s]
  BY <1>3 DEF TurnsInv
<1>5. PICK v : v = [sub[s] EXCEPT !.cycle = req[t].change.cycle, !.nextBill = new.end,
                                  !.version = @ + 1, !.schedules = Append(@, new)]
  OBVIOUS
<1>6. sub' = [sub EXCEPT ![s] = v]
  BY <1>5, Zenon DEF Modify
<1>7. v = [status |-> u.status, cycle |-> c, nextBill |-> n.end, version |-> u.version + 1,
           schedules |-> Append(u.schedules, n)]
  BY <1>1, <1>2, <1>4, <1>5 DEF SubscriptionRow
<1>8. Append(u.schedules, n) \in Seq(Schedule) /\ Last(Append(u.schedules, n)) = n
  BY DEF SubscriptionRow, Last
<1>9. v \in SubscriptionRow /\ v.version = u.version + 1 /\ v.status = "ACTIVE"
  BY <1>3, <1>4, <1>7, <1>8 DEF SubscriptionRow, Schedule
<1>10. /\ sub' \in [Subscriptions -> SubscriptionRow] /\ sub'[s] = v
       /\ \A o \in Subscriptions \ {s} : sub'[o] = sub[o]
  BY <1>3, <1>6, <1>9 DEF TurnsInv
<1>11. SubMoves
  BY <1>4, <1>9, <1>10 DEF SubMoves
<1>12. /\ Last(sub'[s].schedules) = new
       /\ sub'[s].schedules = Append(sub[s].schedules, new)
  <2>1. v.schedules = Append(u.schedules, n)
    BY <1>7
  <2> QED
    BY <1>1, <1>4, <1>8, <1>10, <2>1
<1> QED
  BY <1>3, <1>10, <1>11, <1>12

LEMMA CancelMoves ==
    ASSUME TurnsInv, NEW t \in Requests, Cancel(t)
    PROVE  LET s == req[t].sub
           IN  /\ sub' \in [Subscriptions -> SubscriptionRow] /\ SubMoves
               /\ s \in Subscriptions /\ sub[s].status = "ACTIVE"
               /\ sub'[s].schedules = sub[s].schedules
               /\ \A o \in Subscriptions \ {s} : sub'[o] = sub[o] /\ credits'[o] = credits[o]
               /\ credits' = [o \in Subscriptions |-> credits'[o]]
               /\ credits'[s] = IF req[t].credit > 0 THEN Append(credits[s], req[t].credit)
                                ELSE credits[s]
<1> DEFINE s == req[t].sub
<1>1. s \in Subscriptions /\ sub[s].status = "ACTIVE"
  BY DEF Cancel, TurnsInv, RequestOK
<1>2. PICK u \in SubscriptionRow : u = sub[s]
  BY <1>1 DEF TurnsInv
<1>3. PICK v : v = [sub[s] EXCEPT !.status = "CANCELLED", !.version = @ + 1]
  OBVIOUS
<1>4. sub' = [sub EXCEPT ![s] = v]
  BY <1>3, Zenon DEF Cancel
<1>5. /\ v \in SubscriptionRow /\ v.version = u.version + 1 /\ v.status = "CANCELLED"
      /\ v.schedules = u.schedules
  <2>1. v = [status |-> "CANCELLED", cycle |-> u.cycle, nextBill |-> u.nextBill,
             version |-> u.version + 1, schedules |-> u.schedules]
    BY <1>2, <1>3 DEF SubscriptionRow
  <2> QED
    BY <2>1 DEF SubscriptionRow
<1>6. /\ sub' \in [Subscriptions -> SubscriptionRow] /\ sub'[s] = v
      /\ \A o \in Subscriptions \ {s} : sub'[o] = sub[o]
  BY <1>1, <1>4, <1>5 DEF TurnsInv
<1>7. SubMoves
  BY <1>2, <1>5, <1>6 DEF SubMoves
<1>8. credits = [o \in Subscriptions |-> credits[o]]
  BY DEF TurnsInv
<1>9. /\ credits' = [o \in Subscriptions |-> credits'[o]]
      /\ credits'[s] = IF req[t].credit > 0 THEN Append(credits[s], req[t].credit)
                       ELSE credits[s]
      /\ \A o \in Subscriptions \ {s} : credits'[o] = credits[o]
  BY <1>1, <1>8 DEF Cancel
<1> QED
  BY <1>1, <1>2, <1>5, <1>6, <1>7, <1>9

LEMMA StartsRight == Init => TurnsInv
<1> SUFFICES ASSUME Init PROVE TurnsInv
  OBVIOUS
<1>1. NoSubscription \in SubscriptionRow
  BY SubscriptionAssumption DEF SubscriptionAssumption, NoSubscription, SubscriptionRow
<1>2. sub \in [Subscriptions -> SubscriptionRow]
  BY <1>1 DEF Init
<1>3. /\ req = [t \in Requests |-> req[t]] /\ \A t \in Requests : req[t] = Idle
      /\ credits = [s \in Subscriptions |-> credits[s]]
  BY DEF Init
<1> QED
  BY <1>2, <1>3, IdleShape DEF TurnsInv, RequestOK

LEMMA StepKeepsTurns == ASSUME TurnsInv, [Next]_vars PROVE TurnsInv'
<1>1. ASSUME NEW s \in Subscriptions, NEW c \in Cycles, NEW a \in Amounts, Create(s, c, a)
      PROVE  TurnsInv'
  <2>1. PICK v : v = [status |-> "ACTIVE", cycle |-> c, nextBill |-> EndOfCycle(FirstDay, c),
                      version |-> 1,
                      schedules |-> <<[start |-> FirstDay, end |-> EndOfCycle(FirstDay, c),
                                       amount |-> a, status |-> "SCHEDULED"]>>]
    OBVIOUS
  <2>2. EndOfCycle(FirstDay, c) \in Int /\ FirstDay \in Int /\ a \in Nat
    BY SubscriptionAssumption DEF SubscriptionAssumption, EndOfCycle
  <2>3. [start |-> FirstDay, end |-> EndOfCycle(FirstDay, c),
         amount |-> a, status |-> "SCHEDULED"] \in Schedule
    BY <2>2 DEF Schedule
  <2>4. v \in SubscriptionRow
    BY <2>1, <2>2, <2>3 DEF SubscriptionRow
  <2>5. sub' = [sub EXCEPT ![s] = v] /\ UNCHANGED <<credits, req>> /\ sub[s].status = "NONE"
    BY <1>1, <2>1 DEF Create
  <2>6. sub' \in [Subscriptions -> SubscriptionRow] /\ SubMoves
    BY <2>4, <2>5 DEF TurnsInv, SubMoves
  <2>7. \A t \in Requests : RequestOK(t)'
    BY <2>5, <2>6, OthersStayOK
  <2> QED
    BY <2>5, <2>6, <2>7 DEF TurnsInv
<1>2. ASSUME NEW t \in Requests, NEW s \in Subscriptions, NEW change \in Changes,
             Read(t, s, change)
      PROVE  TurnsInv'
  <2>0. PICK e \in 1 .. sub[s].version :
          req' = [req EXCEPT ![t] = [Idle EXCEPT !.pc = "read", !.sub = s,
                                                 !.change = change, !.expected = e]]
    BY <1>2 DEF Read
  <2>1. PICK q :
          /\ q = [Idle EXCEPT !.pc = "read", !.sub = s, !.change = change, !.expected = e]
          /\ req' = [req EXCEPT ![t] = q]
    BY <2>0
  <2>2. q = [pc |-> "read", sub |-> s, change |-> change, expected |-> e,
             upgrade |-> FALSE, credit |-> 0]
    BY <2>1 DEF Idle
  <2>3. /\ req'[t] = q /\ \A u \in Requests \ {t} : req'[u] = req[u]
        /\ req' = [u \in Requests |-> req'[u]]
    BY <2>1 DEF TurnsInv
  <2>4. UNCHANGED <<sub, credits>> /\ sub[s].status = "ACTIVE" /\ sub[s].version \in Nat
    BY <1>2 DEF Read, TurnsInv, SubscriptionRow
  <2>5. ASSUME NEW u \in Requests
        PROVE  req'[u] = [f \in RequestFields |-> req'[u][f]] /\ RequestOK(u)'
    <3>1. CASE u = t
      BY <2>2, <2>3, <2>4, <3>1 DEF RequestOK, RequestFields
    <3>2. CASE u # t
      <4>1. req'[u] = req[u] /\ SubMoves
        BY <2>3, <2>4, <3>2 DEF SubMoves
      <4> QED
        BY <4>1, OthersStayOK DEF TurnsInv
    <3> QED
      BY <3>1, <3>2
  <2> QED
    BY <2>3, <2>4, <2>5 DEF TurnsInv
<1>3. ASSUME NEW t \in Requests, Compute(t) PROVE TurnsInv'
  <2> DEFINE s == req[t].sub
             change == req[t].change
  <2>1. PICK q : q = [req[t] EXCEPT !.pc = change.op, !.upgrade = UpgradeNow(s, change),
                                    !.credit = CreditNow(s, change)]
    OBVIOUS
  <2>2. /\ req[t] = [f \in RequestFields |-> req[t][f]] /\ RequestOK(t)
        /\ req[t].pc = "read"
    BY <1>3 DEF TurnsInv, Compute
  <2>3. /\ q = [f \in RequestFields |-> q[f]] /\ q.sub = s /\ q.change = change
        /\ q.expected = req[t].expected
        /\ q.upgrade = UpgradeNow(s, change) /\ q.credit = CreditNow(s, change)
    BY <2>1, <2>2 DEF RequestFields
  <2>4. req' = [req EXCEPT ![t] = q] /\ UNCHANGED <<sub, credits>>
    BY <1>3, <2>1 DEF Compute
  <2>5. /\ req'[t] = q /\ \A u \in Requests \ {t} : req'[u] = req[u]
        /\ req' = [u \in Requests |-> req'[u]]
    BY <2>4 DEF TurnsInv
  <2>6. ASSUME NEW u \in Requests
        PROVE  req'[u] = [f \in RequestFields |-> req'[u][f]] /\ RequestOK(u)'
    <3>1. CASE u = t
      BY <2>2, <2>3, <2>4, <2>5, <3>1
      DEF RequestOK, VersionUnchanged, UpgradeNow, CreditNow
    <3>2. CASE u # t
      <4>1. req'[u] = req[u] /\ SubMoves
        BY <2>4, <2>5, <3>2 DEF SubMoves
      <4> QED
        BY <4>1, OthersStayOK DEF TurnsInv
    <3> QED
      BY <3>1, <3>2
  <2> QED
    BY <2>4, <2>5, <2>6 DEF TurnsInv
<1>4. ASSUME NEW t \in Requests, Modify(t) PROVE TurnsInv'
  <2>1. sub' \in [Subscriptions -> SubscriptionRow] /\ SubMoves
    BY <1>4, ModifyMoves
  <2>2. Close(t) /\ credits' = credits
    BY <1>4 DEF Modify
  <2>3. credits' = [s \in Subscriptions |-> credits'[s]]
    BY <2>2 DEF TurnsInv
  <2> QED
    BY <2>1, <2>2, <2>3, Closing
<1>5. ASSUME NEW t \in Requests, Cancel(t) PROVE TurnsInv'
  <2>1. /\ sub' \in [Subscriptions -> SubscriptionRow] /\ SubMoves
        /\ credits' = [o \in Subscriptions |-> credits'[o]]
    BY <1>5, CancelMoves
  <2>2. Close(t)
    BY <1>5 DEF Cancel
  <2> QED
    BY <2>1, <2>2, Closing
<1>6. ASSUME NEW t \in Requests, Abort(t) PROVE TurnsInv'
  BY <1>6, Closing DEF Abort, TurnsInv, SubMoves
<1>7. CASE UNCHANGED vars
  BY <1>7 DEF vars, TurnsInv, RequestOK, VersionUnchanged, UpgradeNow, CreditNow
<1> QED
  BY <1>1, <1>2, <1>3, <1>4, <1>5, <1>6, <1>7 DEF Next

LEMMA TurnsAlways == Spec => []TurnsInv
BY StartsRight, StepKeepsTurns, PTL DEF Spec

LEMMA CancelledStays ==
    ASSUME TurnsInv, Next, NEW s \in Subscriptions, sub[s].status = "CANCELLED"
    PROVE  sub'[s] = sub[s] /\ credits'[s] = credits[s]
<1>1. ASSUME NEW o \in Subscriptions, NEW c \in Cycles, NEW a \in Amounts, Create(o, c, a)
      PROVE  sub'[s] = sub[s] /\ credits'[s] = credits[s]
  BY <1>1 DEF Create, TurnsInv
<1>2. ASSUME NEW t \in Requests, Modify(t)
      PROVE  sub'[s] = sub[s] /\ credits'[s] = credits[s]
  <2>1. sub'[s] = sub[s]
    BY <1>2, ModifyMoves
  <2> QED
    BY <1>2, <2>1 DEF Modify
<1>3. ASSUME NEW t \in Requests, Cancel(t)
      PROVE  sub'[s] = sub[s] /\ credits'[s] = credits[s]
  BY <1>3, CancelMoves
<1>4. CASE \E t \in Requests : \/ \E o \in Subscriptions, change \in Changes : Read(t, o, change)
                               \/ Compute(t) \/ Abort(t)
  BY <1>4 DEF Read, Compute, Abort
<1> QED
  BY <1>1, <1>2, <1>3, <1>4 DEF Next

LEMMA ComputedThen ==
    ASSUME TurnsInv, NEW t \in Requests
    PROVE  LET s == req[t].sub
           IN  /\ Modify(t) => Last(sub'[s].schedules).status =
                     NewSchedule(req[t].change, UpgradeNow(s, req[t].change)).status
               /\ Cancel(t) => credits'[s] =
                     IF CreditNow(s, req[t].change) > 0
                     THEN Append(credits[s], CreditNow(s, req[t].change))
                     ELSE credits[s]
<1>1. ASSUME Modify(t)
      PROVE  Last(sub'[req[t].sub].schedules).status =
                 NewSchedule(req[t].change, UpgradeNow(req[t].sub, req[t].change)).status
  <2>1. Last(sub'[req[t].sub].schedules) = NewSchedule(req[t].change, req[t].upgrade)
    BY <1>1, ModifyMoves
  <2>2. req[t].upgrade = UpgradeNow(req[t].sub, req[t].change)
    BY <1>1 DEF Modify, TurnsInv, RequestOK
  <2> QED
    BY <2>1, <2>2
<1>2. ASSUME Cancel(t)
      PROVE  credits'[req[t].sub] =
                 IF CreditNow(req[t].sub, req[t].change) > 0
                 THEN Append(credits[req[t].sub], CreditNow(req[t].sub, req[t].change))
                 ELSE credits[req[t].sub]
  <2>1. req[t].credit = CreditNow(req[t].sub, req[t].change)
    BY <1>2 DEF Cancel, TurnsInv, RequestOK
  <2> QED
    BY <1>2, <2>1, CancelMoves
<1> QED
  BY <1>1, <1>2

(* A change, though computed before its transaction, takes effect as if    *)
(* computed in it, and nothing changes a subscription once it is           *)
(* cancelled: the client's version stands between reading and writing.     *)
THEOREM TurnsTaken == Spec => ChangesTakeTurns
<1> DEFINE Stays == \A s \in Subscriptions : sub[s].status = "CANCELLED" =>
                       sub'[s] = sub[s] /\ credits'[s] = credits[s]
           Computed == \A t \in Requests :
             LET s == req[t].sub
             IN  /\ Modify(t) => Last(sub'[s].schedules).status =
                       NewSchedule(req[t].change, UpgradeNow(s, req[t].change)).status
                 /\ Cancel(t) => credits'[s] =
                       IF CreditNow(s, req[t].change) > 0
                       THEN Append(credits[s], CreditNow(s, req[t].change))
                       ELSE credits[s]
<1>1. TurnsInv /\ [Next]_vars => [Stays]_vars
  BY CancelledStays
<1>2. TurnsInv /\ [Next]_vars => [Computed]_vars
  BY ComputedThen
<1>3. Spec => [][Stays]_vars
  BY <1>1, TurnsAlways, PTL DEF Spec
<1>4. Spec => [][Computed]_vars
  BY <1>2, TurnsAlways, PTL DEF Spec
<1> QED
  BY <1>3, <1>4 DEF ChangesTakeTurns, CancelledIsFinal, ComputedOnCurrentTerms

-----------------------------------------------------------------------------
(* Types of subscriptions.                                                 *)

(* The schedule that a change is computed from.                            *)
LEMMA ActiveIsSchedule ==
    ASSUME NEW schedules \in Seq(Schedule), schedules # << >>
    PROVE  ActiveSchedule(schedules) \in Schedule
<1>1. PICK n \in Nat \ {0} : n = Len(schedules) /\ DOMAIN schedules = 1 .. n
  BY EmptySeq
<1>2. /\ \A i \in 1 .. n : schedules[i] \in Schedule /\ schedules[i].start \in Int
      /\ 1 \in 1 .. n
  <2>1. \A i \in 1 .. n : schedules[i] \in Schedule
    BY <1>1
  <2>2. \A row \in Schedule : row.start \in Int
    BY DEF Schedule
  <2> QED
    BY <2>1, <2>2
<1>3. PICK starts : starts = {schedules[i].start : i \in 1 .. n}
  OBVIOUS
<1>4. /\ IsFiniteSet(starts) /\ starts # {} /\ starts \subseteq Int
  <2>1. IsFiniteSet(1 .. n)
    BY FS_Interval
  <2>2. PICK f : f = [i \in 1 .. n |-> schedules[i].start]
    OBVIOUS
  <2>3. f \in Surjection(1 .. n, starts)
    BY <1>3, <2>2 DEF Surjection
  <2>4. IsFiniteSet(starts)
    BY <2>1, <2>3, FS_Surjection
  <2> QED
    BY <1>2, <1>3, <2>4
<1>5. PICK low \in starts : \A y \in starts : low <= y
  BY <1>4, MaxMinIsIn
<1>6. PICK firsts : firsts = {i \in 1 .. n : schedules[i].start = low}
  OBVIOUS
<1>7. IsFiniteSet(firsts) /\ firsts # {} /\ firsts \subseteq Int
  <2>1. IsFiniteSet(1 .. n)
    BY FS_Interval
  <2> QED
    BY <1>3, <1>5, <1>6, <2>1, FS_Subset
<1>8. PICK i \in firsts : \A j \in firsts : i <= j
  BY <1>7, MaxMinIsIn
<1>9. ASSUME NEW j \in 1 .. n
      PROVE  \/ schedules[i].start < schedules[j].start
             \/ schedules[i].start = schedules[j].start /\ i <= j
  <2>1. schedules[j].start \in starts /\ schedules[i].start = low /\ low <= schedules[j].start
    BY <1>3, <1>5, <1>6
  <2>2. CASE schedules[j].start = low
    BY <1>6, <1>8, <2>1, <2>2
  <2>3. CASE schedules[j].start # low
    BY <1>2, <1>4, <2>1, <2>3
  <2> QED
    BY <2>2, <2>3
<1>10. i \in DOMAIN schedules
  BY <1>1, <1>6
<1>11. PICK k : k = CHOOSE h \in DOMAIN schedules : \A j \in DOMAIN schedules :
                       \/ schedules[h].start < schedules[j].start
                       \/ schedules[h].start = schedules[j].start /\ h <= j
  OBVIOUS
<1>12. k \in DOMAIN schedules
  BY <1>1, <1>9, <1>10, <1>11
<1> QED
  BY <1>1, <1>2, <1>11, <1>12 DEF ActiveSchedule

TermsInv ==
    /\ TypeOK
    /\ \A s \in Subscriptions : sub[s].status # "NONE" => sub[s].schedules # << >>

LEMMA TermsStart ==
    ASSUME Subscriptions # {}, Changes # {}, Init PROVE TermsInv
<1>1. NoSubscription \in SubscriptionRow /\ NoSubscription.status = "NONE"
  BY SubscriptionAssumption DEF SubscriptionAssumption, NoSubscription, SubscriptionRow
<1>2. Idle \in Request
  BY DEF Idle, Request
<1> QED
  BY <1>1, <1>2 DEF Init, TermsInv, TypeOK

LEMMA IdleType == ASSUME Subscriptions # {}, Changes # {} PROVE Idle \in Request
BY DEF Idle, Request

LEMMA ComputedTypes ==
    ASSUME TermsInv, NEW s \in Subscriptions, sub[s].status # "NONE", NEW change \in Changes
    PROVE  CreditNow(s, change) \in Nat /\ UpgradeNow(s, change) \in BOOLEAN
<1>1. sub[s].schedules \in Seq(Schedule) /\ sub[s].schedules # << >>
  BY DEF TermsInv, TypeOK, SubscriptionRow
<1>2. PICK a \in Schedule : a = ActiveSchedule(sub[s].schedules)
  BY <1>1, ActiveIsSchedule
<1>3. change.day \in Int
  BY SubscriptionAssumption DEF SubscriptionAssumption, Change
<1>4. Credit(a, change.day, Rule) \in 0 .. a.amount /\ a.amount \in Nat
  BY <1>3, RefundIsWithin DEF Schedule
<1>5. CreditNow(s, change) \in Nat
  BY <1>2, <1>4 DEF CreditNow
<1> QED
  BY <1>5 DEF UpgradeNow, IsUpgrade

LEMMA SchedulesStay ==
    ASSUME TurnsInv, TermsInv, Subscriptions # {}, Changes # {}, Next
    PROVE  TermsInv'
<1>0. /\ sub \in [Subscriptions -> SubscriptionRow] /\ invoiced \in [Subscriptions -> Nat]
      /\ credits \in [Subscriptions -> Seq(Nat)] /\ req \in [Requests -> Request]
      /\ \A s \in Subscriptions : sub[s].status # "NONE" => sub[s].schedules # << >>
      /\ Idle \in Request
  BY IdleType DEF TermsInv, TypeOK
<1>1. ASSUME NEW s \in Subscriptions, NEW c \in Cycles, NEW a \in Amounts, Create(s, c, a)
      PROVE  TermsInv'
  <2>1. PICK v : v = [status |-> "ACTIVE", cycle |-> c, nextBill |-> EndOfCycle(FirstDay, c),
                      version |-> 1,
                      schedules |-> <<[start |-> FirstDay, end |-> EndOfCycle(FirstDay, c),
                                       amount |-> a, status |-> "SCHEDULED"]>>]
    OBVIOUS
  <2>2. EndOfCycle(FirstDay, c) \in Int /\ FirstDay \in Int /\ a \in Nat
    BY SubscriptionAssumption DEF SubscriptionAssumption, EndOfCycle
  <2>3. [start |-> FirstDay, end |-> EndOfCycle(FirstDay, c),
         amount |-> a, status |-> "SCHEDULED"] \in Schedule
    BY <2>2 DEF Schedule
  <2>4. v \in SubscriptionRow /\ v.schedules # << >>
    BY <2>1, <2>2, <2>3 DEF SubscriptionRow
  <2>5. /\ sub' = [sub EXCEPT ![s] = v] /\ invoiced' = [invoiced EXCEPT ![s] = a]
        /\ UNCHANGED <<credits, req>>
    BY <1>1, <2>1 DEF Create
  <2> QED
    BY <1>0, <2>2, <2>4, <2>5 DEF TermsInv, TypeOK
<1>2. ASSUME NEW t \in Requests, NEW s \in Subscriptions, NEW change \in Changes,
             Read(t, s, change)
      PROVE  TermsInv'
  <2>0. PICK e \in 1 .. sub[s].version :
          req' = [req EXCEPT ![t] = [Idle EXCEPT !.pc = "read", !.sub = s,
                                                 !.change = change, !.expected = e]]
    BY <1>2 DEF Read
  <2>1. PICK q :
          /\ q = [Idle EXCEPT !.pc = "read", !.sub = s, !.change = change, !.expected = e]
          /\ req' = [req EXCEPT ![t] = q]
    BY <2>0
  <2>2. q = [pc |-> "read", sub |-> s, change |-> change, expected |-> e,
             upgrade |-> FALSE, credit |-> 0]
    BY <2>1 DEF Idle
  <2>3. sub[s].version \in Nat
    BY <1>0 DEF SubscriptionRow
  <2>4. q \in Request
    BY <2>2, <2>3 DEF Request
  <2>5. UNCHANGED <<sub, invoiced, credits>>
    BY <1>2 DEF Read
  <2> QED
    BY <1>0, <2>1, <2>4, <2>5 DEF TermsInv, TypeOK
<1>3. ASSUME NEW t \in Requests, Compute(t) PROVE TermsInv'
  <2>1. /\ req[t].pc = "read" /\ req[t].sub \in Subscriptions /\ req[t].change \in Changes
        /\ sub[req[t].sub].status # "NONE" /\ req[t].change.op \in {"modify", "cancel"}
    BY <1>3, SubscriptionAssumption
    DEF Compute, TurnsInv, RequestOK, SubscriptionAssumption, Change
  <2>2. PICK q : q = [req[t] EXCEPT !.pc = req[t].change.op,
                                    !.upgrade = UpgradeNow(req[t].sub, req[t].change),
                                    !.credit = CreditNow(req[t].sub, req[t].change)]
    OBVIOUS
  <2>3. PICK up \in BOOLEAN, n \in Nat : /\ up = UpgradeNow(req[t].sub, req[t].change)
                                        /\ n = CreditNow(req[t].sub, req[t].change)
    BY <2>1, ComputedTypes
  <2>4. PICK r \in Request : r = req[t]
    BY <1>0
  <2>5. q = [pc |-> r.change.op, sub |-> r.sub, change |-> r.change,
             expected |-> r.expected, upgrade |-> up, credit |-> n]
    BY <2>2, <2>3, <2>4 DEF Request
  <2>6. q \in Request
    BY <2>1, <2>3, <2>4, <2>5 DEF Request
  <2>7. req' = [req EXCEPT ![t] = q] /\ UNCHANGED <<sub, invoiced, credits>>
    BY <1>3, <2>2 DEF Compute
  <2> QED
    BY <1>0, <2>6, <2>7 DEF TermsInv, TypeOK
<1>4. ASSUME NEW t \in Requests, Modify(t) PROVE TermsInv'
  <2>1. /\ sub' \in [Subscriptions -> SubscriptionRow] /\ req[t].sub \in Subscriptions
        /\ \A o \in Subscriptions \ {req[t].sub} : sub'[o] = sub[o]
        /\ sub'[req[t].sub].schedules =
              Append(sub[req[t].sub].schedules, NewSchedule(req[t].change, req[t].upgrade))
    BY <1>4, ModifyMoves
  <2>2. PICK n \in Schedule : n = NewSchedule(req[t].change, req[t].upgrade)
    BY <1>4, NewScheduleType DEF TurnsInv, RequestOK, Modify
  <2>3. sub'[req[t].sub].schedules = Append(sub[req[t].sub].schedules, n)
    BY <2>1, <2>2
  <2>4. sub'[req[t].sub].schedules # << >>
    <3>1. PICK old \in Seq(Schedule) : old = sub[req[t].sub].schedules
      BY <1>0, <2>1 DEF SubscriptionRow
    <3> QED
      BY <2>3, <3>1
  <2>5. UNCHANGED <<invoiced, credits>> /\ req' \in [Requests -> Request]
    BY <1>0, <1>4 DEF Modify, Close
  <2> QED
    BY <1>0, <2>1, <2>4, <2>5 DEF TermsInv, TypeOK
<1>5. ASSUME NEW t \in Requests, Cancel(t) PROVE TermsInv'
  <2>1. /\ sub' \in [Subscriptions -> SubscriptionRow] /\ req[t].sub \in Subscriptions
        /\ \A o \in Subscriptions \ {req[t].sub} :
              sub'[o] = sub[o] /\ credits'[o] = credits[o]
        /\ sub[req[t].sub].status = "ACTIVE"
        /\ sub'[req[t].sub].schedules = sub[req[t].sub].schedules
        /\ credits' = [o \in Subscriptions |-> credits'[o]]
        /\ credits'[req[t].sub] = IF req[t].credit > 0
                                  THEN Append(credits[req[t].sub], req[t].credit)
                                  ELSE credits[req[t].sub]
    BY <1>5, CancelMoves
  <2>3. UNCHANGED invoiced /\ req' \in [Requests -> Request]
    BY <1>0, <1>5 DEF Cancel, Close
  <2>4. credits' \in [Subscriptions -> Seq(Nat)]
    <3>1. req[t].credit \in Nat
      BY <1>0 DEF Request
    <3>2. credits'[req[t].sub] \in Seq(Nat)
      BY <1>0, <2>1, <3>1
    <3>3. \A o \in Subscriptions : credits'[o] \in Seq(Nat)
      BY <1>0, <2>1, <3>2
    <3> QED
      BY <2>1, <3>3
  <2> QED
    BY <1>0, <2>1, <2>3, <2>4 DEF TermsInv, TypeOK
<1>6. ASSUME NEW t \in Requests, Abort(t) PROVE TermsInv'
  BY <1>0, <1>6 DEF Abort, Close, TermsInv, TypeOK
<1> QED
  BY <1>1, <1>2, <1>3, <1>4, <1>5, <1>6 DEF Next

(* Rows, invoices and credit notes keep their types: no refund is computed *)
(* from a subscription without schedules, and none is negative.            *)
THEOREM SubscriptionsTyped ==
    ASSUME Subscriptions # {}, Changes # {} PROVE Spec => []TermsInv
<1>1. Init => TurnsInv /\ TermsInv
  BY StartsRight, TermsStart
<1>2. TurnsInv /\ TermsInv /\ [Next]_vars => TurnsInv' /\ TermsInv'
  <2>1. TermsInv /\ UNCHANGED vars => TermsInv'
    BY DEF vars, TermsInv, TypeOK
  <2> QED
    BY <2>1, SchedulesStay, StepKeepsTurns
<1> QED
  BY <1>1, <1>2, PTL DEF Spec

-----------------------------------------------------------------------------
(***************************************************************************)
(* Billing plans.                                                          *)
(***************************************************************************)
(* The sequence of a set holds each of its members once.                   *)
LEMMA SequenceOfSet ==
    ASSUME NEW S, IsFiniteSet(S)
    PROVE  \E n \in Nat : \E f \in [1 .. n -> S] :
              /\ f = Plan!SetToSeq(S)
              /\ \A a, b \in 1 .. n : f[a] = f[b] => a = b
              /\ \A x \in S : \E i \in 1 .. n : f[i] = x
<1>1. Plan!Cardinality(S) = Cardinality(S)
  BY DEF Plan!Cardinality, Cardinality
<1>2. PICK n \in Nat : n = Cardinality(S)
  BY FS_CardinalityType
<1>3. PICK g \in Bijection(1 .. n, S) : TRUE
  BY <1>2, FS_CardinalityType DEF ExistsBijection
<1>4. g \in [1 .. n -> S] /\ Plan!IsInjective(g)
  BY <1>3 DEF Bijection, Injection, IsInjective, Plan!IsInjective
<1>5. PICK f : f = CHOOSE h \in [1 .. n -> S] : Plan!IsInjective(h)
  OBVIOUS
<1>6. f \in [1 .. n -> S] /\ Plan!IsInjective(f)
  BY <1>4, <1>5
<1>7. f = Plan!SetToSeq(S)
  BY <1>1, <1>2, <1>5 DEF Plan!SetToSeq
<1>8. \A a, b \in 1 .. n : f[a] = f[b] => a = b
  BY <1>6 DEF Plan!IsInjective
<1>9. \A x \in S : \E i \in 1 .. n : f[i] = x
  <2>1. IsFiniteSet(1 .. n) /\ Cardinality(1 .. n) = n
    BY FS_Interval
  <2>2. PICK R : R = {f[i] : i \in 1 .. n}
    OBVIOUS
  <2>3. f \in Bijection(1 .. n, R)
    BY <1>6, <1>8, <2>2 DEF Bijection, Injection, Surjection, IsInjective
  <2>4. ExistsBijection(1 .. n, R)
    BY <2>3 DEF ExistsBijection
  <2>5. Cardinality(R) = n
    BY <2>1, <2>4, FS_Bijection
  <2>6. R \subseteq S
    BY <1>6, <2>2
  <2>7. R = S
    BY <1>2, <2>5, <2>6, FS_Subset
  <2> QED
    BY <2>2, <2>7
<1> QED
  BY <1>6, <1>7, <1>8, <1>9

Subscribed(q, l) == [quotation |-> q, line |-> l]

Invoice(q, lines) == [quotation |-> q, lines |-> lines]

(* What a billing plan has to hold for PlanIsComplete.                     *)
Whole(q) ==
    \/ \E n \in DOMAIN invoices : invoices[n] = Invoice(q, {})
    \/ /\ \A l \in Plan!RecurringLines(q) :
             \E n \in DOMAIN subscriptions : subscriptions[n] = Subscribed(q, l)
       /\ Plan!OneTimeLines(q) # {} =>
             \E n \in DOMAIN invoices : invoices[n] = Invoice(q, Plan!OneTimeLines(q))

PlansInv ==
    /\ Plan!TypeOK
    /\ \A q \in Quotations : Plan!Billed(q) \/ q \in planned => Whole(q)

(* Sequences only grow at their end.                                       *)
Extends(longer, shorter) ==
    \A n \in DOMAIN shorter : n \in DOMAIN longer /\ longer[n] = shorter[n]

LEMMA WholeStays ==
    ASSUME Extends(subscriptions', subscriptions), Extends(invoices', invoices),
           NEW q, Whole(q)
    PROVE  Whole(q)'
BY DEF Extends, Whole, Plan!RecurringLines, Plan!OneTimeLines

LEMMA AppendExtends ==
    ASSUME NEW S, NEW s \in Seq(S), NEW x \in S
    PROVE  /\ Append(s, x) \in Seq(S) /\ Extends(Append(s, x), s)
           /\ DOMAIN Append(s, x) = DOMAIN s \union {Len(s) + 1}
           /\ Append(s, x)[Len(s) + 1] = x /\ Len(s) + 1 \notin DOMAIN s
BY DEF Extends

LEMMA ConcatExtends ==
    ASSUME NEW S, NEW s \in Seq(S), NEW n \in Nat, NEW f \in [1 .. n -> S]
    PROVE  /\ s \o f \in Seq(S) /\ Extends(s \o f, s)
           /\ DOMAIN (s \o f) = 1 .. Len(s) + n
           /\ \A i \in 1 .. n : (s \o f)[Len(s) + i] = f[i]
<1>1. f \in Seq(S) /\ Len(f) = n
  BY SeqDef
<1> QED
  BY <1>1 DEF Extends

(* What a request writes: the invoice of the one-time lines, and each      *)
(* recurring line once.                                                    *)
Writes(q) ==
    \E n \in Nat : \E f \in [1 .. n -> {Subscribed(q, l) : l \in Plan!RecurringLines(q)}] :
        /\ subscriptions' = subscriptions \o f
        /\ \A a, b \in 1 .. n : f[a] = f[b] => a = b
        /\ \A l \in Plan!RecurringLines(q) : \E i \in 1 .. n : f[i] = Subscribed(q, l)
        /\ invoices' = IF Plan!OneTimeLines(q) = {} THEN invoices
                       ELSE Append(invoices, Invoice(q, Plan!OneTimeLines(q)))

LEMMA CommitWrites ==
    ASSUME Plan!TypeOK, NEW t \in Planners, Plan!Commit(t)
    PROVE  Writes(asked[t].quotation)
<1>1. PICK q \in Quotations : q = asked[t].quotation
  BY DEF Plan!TypeOK, Plan!Request
<1>2. PICK S : S = {Subscribed(q, l) : l \in Plan!RecurringLines(q)}
  OBVIOUS
<1>3. IsFiniteSet(S)
  <2>1. IsFiniteSet(Plan!RecurringLines(q))
    <3>1. IsFiniteSet(LinesOf[q])
      BY PartsAreInstances DEF Plan!PlanConstants, Plan!IsFiniteSet, IsFiniteSet
    <3> QED
      BY <3>1, FS_Subset DEF Plan!RecurringLines
  <2>2. PICK g : g = [l \in Plan!RecurringLines(q) |-> Subscribed(q, l)]
    OBVIOUS
  <2>3. g \in Surjection(Plan!RecurringLines(q), S)
    BY <1>2, <2>2 DEF Surjection
  <2> QED
    BY <2>1, <2>3, FS_Surjection
<1>4a. PICK n \in Nat : \E f \in [1 .. n -> S] :
          /\ f = Plan!SetToSeq(S)
          /\ \A a, b \in 1 .. n : f[a] = f[b] => a = b
          /\ \A x \in S : \E i \in 1 .. n : f[i] = x
  BY <1>3, SequenceOfSet
<1>4. PICK f \in [1 .. n -> S] :
          /\ f = Plan!SetToSeq(S)
          /\ \A a, b \in 1 .. n : f[a] = f[b] => a = b
          /\ \A x \in S : \E i \in 1 .. n : f[i] = x
  BY <1>4a
<1>5. S = {[quotation |-> q, line |-> l] : l \in Plan!RecurringLines(q)}
  BY <1>2 DEF Subscribed
<1>6. /\ subscriptions' = subscriptions \o f
      /\ invoices' = IF Plan!OneTimeLines(q) = {} THEN invoices
                     ELSE Append(invoices, Invoice(q, Plan!OneTimeLines(q)))
  BY <1>1, <1>4, <1>5 DEF Plan!Commit, Invoice
<1>7. \A l \in Plan!RecurringLines(q) : \E i \in 1 .. n : f[i] = Subscribed(q, l)
  BY <1>2, <1>4
<1>8. f \in [1 .. n -> {Subscribed(q, l) : l \in Plan!RecurringLines(q)}]
  BY <1>2
<1>9. Writes(q)
  BY <1>4, <1>6, <1>7, <1>8, Zenon DEF Writes
<1> QED
  BY <1>1, <1>9

(* The sequences that a request leaves.                                    *)
LEMMA WritesGrow ==
    ASSUME Plan!TypeOK, NEW q \in Quotations, Writes(q)
    PROVE  /\ subscriptions' \in Seq([quotation : Quotations, line : Recurring])
           /\ invoices' \in Seq([quotation : Quotations, lines : SUBSET Lines])
           /\ Extends(subscriptions', subscriptions) /\ Extends(invoices', invoices)
           /\ Whole(q)'
           /\ \A r \in Quotations \ {q} : Plan!Billed(r)' => Plan!Billed(r)
<1>1. PICK n \in Nat : \E f \in [1 .. n -> {Subscribed(q, l) : l \in Plan!RecurringLines(q)}] :
          /\ subscriptions' = subscriptions \o f
          /\ \A a, b \in 1 .. n : f[a] = f[b] => a = b
          /\ \A l \in Plan!RecurringLines(q) : \E i \in 1 .. n : f[i] = Subscribed(q, l)
          /\ invoices' = IF Plan!OneTimeLines(q) = {} THEN invoices
                         ELSE Append(invoices, Invoice(q, Plan!OneTimeLines(q)))
  BY DEF Writes
<1>2. PICK f \in [1 .. n -> {Subscribed(q, l) : l \in Plan!RecurringLines(q)}] :
          /\ subscriptions' = subscriptions \o f
          /\ \A a, b \in 1 .. n : f[a] = f[b] => a = b
          /\ \A l \in Plan!RecurringLines(q) : \E i \in 1 .. n : f[i] = Subscribed(q, l)
          /\ invoices' = IF Plan!OneTimeLines(q) = {} THEN invoices
                         ELSE Append(invoices, Invoice(q, Plan!OneTimeLines(q)))
  BY <1>1
<1>3. PICK T : T = [quotation : Quotations, line : Recurring]
  OBVIOUS
<1>4. PICK I : I = [quotation : Quotations, lines : SUBSET Lines]
  OBVIOUS
<1>5. /\ subscriptions \in Seq(T) /\ invoices \in Seq(I)
      /\ \A x \in T : x.quotation \in Quotations
  BY <1>3, <1>4 DEF Plan!TypeOK
<1>6. f \in [1 .. n -> T] /\ \A i \in 1 .. n : f[i].quotation = q
  BY <1>3 DEF Subscribed, Plan!RecurringLines
<1>7. Invoice(q, Plan!OneTimeLines(q)) \in I
  BY <1>4, PartsAreInstances DEF Invoice, Plan!OneTimeLines, Plan!PlanConstants
<1>8. /\ subscriptions' \in Seq(T) /\ Extends(subscriptions', subscriptions)
      /\ DOMAIN subscriptions' = 1 .. Len(subscriptions) + n
      /\ \A i \in 1 .. n : subscriptions'[Len(subscriptions) + i] = f[i]
      /\ Len(subscriptions) \in Nat /\ DOMAIN subscriptions = 1 .. Len(subscriptions)
  BY <1>2, <1>5, <1>6, ConcatExtends
<1>9. /\ invoices' \in Seq(I) /\ Extends(invoices', invoices)
      /\ \A m \in DOMAIN invoices' \ DOMAIN invoices : invoices'[m].quotation = q
      /\ Plan!OneTimeLines(q) # {} =>
            \E m \in DOMAIN invoices' : invoices'[m] = Invoice(q, Plan!OneTimeLines(q))
  <2>1. CASE Plan!OneTimeLines(q) = {}
    BY <1>2, <1>5, <2>1 DEF Extends
  <2>2. CASE Plan!OneTimeLines(q) # {}
    <3>1. PICK x \in I : x = Invoice(q, Plan!OneTimeLines(q)) /\ x.quotation = q
      BY <1>7 DEF Invoice
    <3>2. invoices' = Append(invoices, x)
      BY <1>2, <2>2, <3>1
    <3>3. /\ invoices' \in Seq(I) /\ Extends(invoices', invoices)
          /\ DOMAIN invoices' = DOMAIN invoices \union {Len(invoices) + 1}
          /\ invoices'[Len(invoices) + 1] = x
      BY <1>5, <3>2, AppendExtends
    <3> QED
      BY <3>1, <3>3
  <2> QED
    BY <2>1, <2>2
<1>10. \A l \in Plan!RecurringLines(q) :
          \E m \in DOMAIN subscriptions' : subscriptions'[m] = Subscribed(q, l)
  <2> SUFFICES ASSUME NEW l \in Plan!RecurringLines(q)
               PROVE  \E m \in DOMAIN subscriptions' : subscriptions'[m] = Subscribed(q, l)
    OBVIOUS
  <2>1. PICK i \in 1 .. n : f[i] = Subscribed(q, l)
    BY <1>2
  <2>2. Len(subscriptions) + i \in 1 .. Len(subscriptions) + n
    BY <1>8
  <2> QED
    BY <1>8, <2>1, <2>2
<1>11. Whole(q)'
  BY <1>9, <1>10 DEF Whole, Plan!RecurringLines, Plan!OneTimeLines
<1>12. ASSUME NEW r \in Quotations \ {q}, Plan!Billed(r)' PROVE Plan!Billed(r)
  <2>1. ASSUME NEW m \in DOMAIN subscriptions', subscriptions'[m].quotation = r
        PROVE  Plan!Billed(r)
    <3>1. CASE m \in DOMAIN subscriptions
      BY <1>8, <2>1, <3>1 DEF Extends, Plan!Billed, Plan!SubscriptionsOf
    <3>2. CASE m \notin DOMAIN subscriptions
      <4>1. PICK i \in 1 .. n : m = Len(subscriptions) + i
        <5>1. m - Len(subscriptions) \in 1 .. n
          BY <1>8, <3>2
        <5>2. m = Len(subscriptions) + (m - Len(subscriptions))
          BY <1>8
        <5> QED
          BY <5>1, <5>2
      <4> QED
        BY <1>6, <1>8, <2>1, <4>1
    <3> QED
      BY <3>1, <3>2
  <2>2. ASSUME NEW m \in DOMAIN invoices', invoices'[m].quotation = r
        PROVE  Plan!Billed(r)
    BY <1>9, <2>2 DEF Extends, Plan!Billed, Plan!InvoicesOf
  <2> QED
    BY <1>12, <2>1, <2>2 DEF Plan!Billed, Plan!InvoicesOf, Plan!SubscriptionsOf
<1> QED
  BY <1>3, <1>4, <1>8, <1>9, <1>11, <1>12

(* Finance's own invoice.                                                  *)
LEMMA TypedGrows ==
    ASSUME Plan!TypeOK, NEW q \in Quotations, Plan!TypeInvoice(q)
    PROVE  /\ invoices' \in Seq([quotation : Quotations, lines : SUBSET Lines])
           /\ Extends(subscriptions', subscriptions) /\ Extends(invoices', invoices)
           /\ DOMAIN invoices' = DOMAIN invoices \union {Len(invoices) + 1}
           /\ invoices'[Len(invoices) + 1] = Invoice(q, {})
           /\ Whole(q)'
           /\ \A r \in Quotations \ {q} : Plan!Billed(r)' => Plan!Billed(r)
<1>1. PICK I : I = [quotation : Quotations, lines : SUBSET Lines]
  OBVIOUS
<1>2a. Invoice(q, {}) \in I /\ Invoice(q, {}).quotation = q
  BY <1>1 DEF Invoice
<1>2. PICK x \in I : x = Invoice(q, {}) /\ x.quotation = q
  BY <1>2a
<1>3. subscriptions' = subscriptions /\ invoices' = Append(invoices, x) /\ invoices \in Seq(I)
  BY <1>1, <1>2 DEF Plan!TypeInvoice, Plan!TypeOK, Invoice
<1>4. /\ invoices' \in Seq(I) /\ Extends(invoices', invoices)
      /\ DOMAIN invoices' = DOMAIN invoices \union {Len(invoices) + 1}
      /\ invoices'[Len(invoices) + 1] = x
  BY <1>3, AppendExtends
<1>5. Whole(q)'
  BY <1>2, <1>4 DEF Whole
<1>6. ASSUME NEW r \in Quotations \ {q}, Plan!Billed(r)' PROVE Plan!Billed(r)
  BY <1>2, <1>3, <1>4, <1>6
  DEF Extends, Plan!Billed, Plan!InvoicesOf, Plan!SubscriptionsOf
<1> QED
  BY <1>1, <1>2, <1>3, <1>4, <1>5, <1>6 DEF Extends

LEMMA IdlePlanner == Plan!Idle \in Plan!Request /\ Plan!Idle.pc = "idle"
BY PartsAreInstances DEF Plan!PlanConstants, Plan!Idle, Plan!Request

LEMMA PlansStart == ASSUME Plan!Init PROVE PlansInv
<1>1. Plan!TypeOK
  <2>1. << >> \in Seq([quotation : Quotations, line : Recurring])
        /\ << >> \in Seq([quotation : Quotations, lines : SUBSET Lines])
    OBVIOUS
  <2> QED
    BY <2>1, IdlePlanner DEF Plan!Init, Plan!TypeOK
<1>2. DOMAIN subscriptions = {} /\ DOMAIN invoices = {} /\ planned = {}
  BY DEF Plan!Init
<1> QED
  BY <1>1, <1>2, IdlePlanner
  DEF PlansInv, Plan!Billed, Plan!InvoicesOf, Plan!SubscriptionsOf, Plan!Init

(* A step that bills nothing.                                              *)
BillsNothing ==
    /\ UNCHANGED <<subscriptions, invoices>>
    /\ asked' \in [Planners -> Plan!Request]
    /\ \A q \in planned' : q \in planned \/ (q \in Quotations /\ Plan!Billed(q))

LEMMA NothingBilled == ASSUME PlansInv, BillsNothing PROVE PlansInv'
<1>1. \A q : Whole(q)' <=> Whole(q)
  BY DEF BillsNothing, Whole, Plan!RecurringLines, Plan!OneTimeLines
<1>2. \A q : Plan!Billed(q)' <=> Plan!Billed(q)
  BY DEF BillsNothing, Plan!Billed, Plan!InvoicesOf, Plan!SubscriptionsOf
<1>3. Plan!TypeOK'
  BY DEF BillsNothing, PlansInv, Plan!TypeOK
<1> QED
  BY <1>1, <1>2, <1>3 DEF BillsNothing, PlansInv

LEMMA PlansStay == ASSUME PlansInv, [Plan!Next]_Plan!vars PROVE PlansInv'
<1>0. Plan!TypeOK /\ asked \in [Planners -> Plan!Request] /\ planned \subseteq Quotations
  BY DEF PlansInv, Plan!TypeOK
<1>1. ASSUME NEW t \in Planners, NEW q \in Quotations, Plan!CreateFromQuotation(t, q)
      PROVE  PlansInv'
  <2>1. asked' \in [Planners -> Plan!Request]
    BY <1>0, <1>1 DEF Plan!CreateFromQuotation, Plan!Request
  <2> QED
    BY <1>1, <2>1, NothingBilled DEF BillsNothing, Plan!CreateFromQuotation
<1>2. ASSUME NEW t \in Planners, Plan!ReturnExisting(t) PROVE PlansInv'
  <2>1. asked' \in [Planners -> Plan!Request] /\ asked[t].quotation \in Quotations
    BY <1>0, <1>2, IdlePlanner DEF Plan!ReturnExisting, Plan!Request
  <2> QED
    BY <1>2, <2>1, NothingBilled DEF BillsNothing, Plan!ReturnExisting
<1>3. ASSUME NEW t \in Planners, Plan!FindNothing(t) PROVE PlansInv'
  <2>1. asked' \in [Planners -> Plan!Request]
    BY <1>0, <1>3 DEF Plan!FindNothing, Plan!Request
  <2> QED
    BY <1>3, <2>1, NothingBilled DEF BillsNothing, Plan!FindNothing
<1>4. ASSUME NEW t \in Planners, Plan!Commit(t) PROVE PlansInv'
  <2>1. PICK q \in Quotations : q = asked[t].quotation
    BY <1>0 DEF Plan!Request
  <2>2. /\ subscriptions' \in Seq([quotation : Quotations, line : Recurring])
        /\ invoices' \in Seq([quotation : Quotations, lines : SUBSET Lines])
        /\ Extends(subscriptions', subscriptions) /\ Extends(invoices', invoices)
        /\ Whole(q)'
        /\ \A r \in Quotations \ {q} : Plan!Billed(r)' => Plan!Billed(r)
    BY <1>0, <1>4, <2>1, CommitWrites, WritesGrow
  <2>3. /\ asked' = [asked EXCEPT ![t] = Plan!Idle]
        /\ planned' \subseteq planned \union {q}
    BY <1>4, <2>1 DEF Plan!Commit
  <2>4. Plan!TypeOK'
    BY <1>0, <2>2, <2>3, IdlePlanner DEF Plan!TypeOK
  <2>5. \A r \in Quotations : Whole(r) => Whole(r)'
    BY <2>2, WholeStays
  <2> QED
    BY <2>2, <2>3, <2>4, <2>5 DEF PlansInv
<1>5. ASSUME NEW t \in Planners, Plan!Abort(t) PROVE PlansInv'
  <2>1. asked' \in [Planners -> Plan!Request]
    BY <1>0, <1>5, IdlePlanner DEF Plan!Abort
  <2> QED
    BY <1>5, <2>1, NothingBilled DEF BillsNothing, Plan!Abort
<1>6. ASSUME NEW q \in Quotations, Plan!TypeInvoice(q) PROVE PlansInv'
  <2>1. /\ invoices' \in Seq([quotation : Quotations, lines : SUBSET Lines])
        /\ Extends(subscriptions', subscriptions) /\ Extends(invoices', invoices)
        /\ Whole(q)'
        /\ \A r \in Quotations \ {q} : Plan!Billed(r)' => Plan!Billed(r)
    BY <1>0, <1>6, TypedGrows
  <2>2. UNCHANGED <<subscriptions, asked, planned>>
    BY <1>6 DEF Plan!TypeInvoice
  <2>3. Plan!TypeOK'
    BY <1>0, <2>1, <2>2 DEF Plan!TypeOK
  <2>4. \A r \in Quotations : Whole(r) => Whole(r)'
    BY <2>1, WholeStays
  <2> QED
    BY <2>1, <2>2, <2>3, <2>4 DEF PlansInv
<1>7. CASE UNCHANGED Plan!vars
  BY <1>0, <1>7, NothingBilled DEF BillsNothing, Plan!vars
<1> QED
  BY <1>1, <1>2, <1>3, <1>4, <1>5, <1>6, <1>7 DEF Plan!Next

-----------------------------------------------------------------------------
(***************************************************************************)
(* The parts run on their own.                                             *)
(***************************************************************************)
(* Only its own part moves the variables of a part.                        *)
LEMMA CrossedRuns ==
    ASSUME [OrdersNext]_flow PROVE part # "forms" => [Crossed!Next]_Crossed!vars
BY DEF OrdersNext, flow, stockVars, planVars, vars, Crossed!vars

LEMMA FormsRun ==
    ASSUME [OrdersNext]_flow PROVE part = "forms" => [Forms!Next]_Forms!vars
BY DEF OrdersNext, flow, stockVars, planVars, vars, Forms!vars

LEMMA SubscriptionsRun ==
    ASSUME [OrdersNext]_flow PROVE [Next]_vars
BY DEF OrdersNext, flow, stockVars, planVars, vars

LEMMA PlansRun ==
    ASSUME [OrdersNext]_flow PROVE [Plan!Next]_Plan!vars
BY DEF OrdersNext, flow, stockVars, planVars, vars, Plan!vars

LEMMA PartStays == ASSUME [OrdersNext]_flow PROVE part' = part
BY DEF OrdersNext, flow

LEMMA CrossedFlow == OrdersSpec /\ part # "forms" => Crossed!Spec /\ [](part # "forms")
<1>1. OrdersInit /\ part # "forms" => Crossed!Init
  BY DEF OrdersInit
<1>2. [OrdersNext]_flow /\ part # "forms" => [Crossed!Next]_Crossed!vars
  BY CrossedRuns
<1>3. [OrdersNext]_flow /\ part # "forms" => (part # "forms")'
  BY PartStays
<1> QED
  BY <1>1, <1>2, <1>3, PTL DEF OrdersSpec, Crossed!Spec

LEMMA FormsFlow == OrdersSpec /\ part = "forms" => Forms!Spec /\ [](part = "forms")
<1>1. OrdersInit /\ part = "forms" => Forms!Init
  BY DEF OrdersInit
<1>2. [OrdersNext]_flow /\ part = "forms" => [Forms!Next]_Forms!vars
  BY FormsRun
<1>3. [OrdersNext]_flow /\ part = "forms" => (part = "forms")'
  BY PartStays
<1> QED
  BY <1>1, <1>2, <1>3, PTL DEF OrdersSpec, Forms!Spec

LEMMA CrossedAddUp == Crossed!Spec => [](Crossed!TypeOK /\ Crossed!UnitsAreAccountedFor /\ Crossed!LinesAreCovered /\ Crossed!OrderFollowsFulfillment)
<1>0. Crossed!FulfillmentConstants /\ 1 <= 1
  BY PartsAreInstances
<1>1. Crossed!Spec => []Crossed!TypeOK
  BY <1>0, Crossed!StockIsTyped
<1>2. Crossed!Spec => []Crossed!UnitsAreAccountedFor
  BY <1>0, Crossed!UnitsAccounted
<1>4. Crossed!OverridesNameOnce
  BY DEF Crossed!OverridesNameOnce
<1>3. Crossed!Spec => []Crossed!LinesAreCovered
  BY <1>0, <1>4, Crossed!EveryLineCovered
<1>5. Crossed!Spec => []Crossed!OrderFollowsFulfillment
  BY <1>0, Crossed!OrdersFollowFulfillment
<1> QED
  BY <1>1, <1>2, <1>3, <1>5, PTL

LEMMA FormsAddUp ==
    ASSUME Forms!OverridesNameOnce
    PROVE  Forms!Spec => [](Forms!TypeOK /\ Forms!LinesAreCovered)
<1>0. Forms!FulfillmentConstants
  BY PartsAreInstances
<1>1. Forms!Spec => [](Forms!TypeOK /\ Forms!StockInv)
  BY <1>0, Forms!StockIsTyped
<1>2. Forms!Spec => []Forms!LinesAreCovered
  BY <1>0, Forms!EveryLineCovered
<1> QED
  BY <1>1, <1>2, PTL

LEMMA SubscriptionFlow == OrdersSpec => Spec
<1>1. OrdersInit => Init
  BY DEF OrdersInit
<1>2. [OrdersNext]_flow => [Next]_vars
  BY SubscriptionsRun
<1> QED
  BY <1>1, <1>2, PTL DEF OrdersSpec, Spec

LEMMA PlanFlow == OrdersSpec => Plan!Spec
<1>1. OrdersInit => Plan!Init
  BY DEF OrdersInit
<1>2. [OrdersNext]_flow => [Plan!Next]_Plan!vars
  BY PlansRun
<1> QED
  BY <1>1, <1>2, PTL DEF OrdersSpec, Plan!Spec

-----------------------------------------------------------------------------
(***************************************************************************)
(* What the run of the whole shows, for every instance.                    *)
(***************************************************************************)
(* Units, lines and statuses of orders add up while they are spread and    *)
(* shipped by the suggestion; with stock figures and splits typed in, the  *)
(* lines do, as long as a split names no warehouse twice.                  *)
THEOREM OrdersAddUp ==
    ASSUME Forms!OverridesNameOnce, Subscriptions # {}, Changes # {}
    PROVE  OrdersSpec => []AllocationsAddUp
<1> DEFINE C == /\ Crossed!TypeOK /\ Crossed!UnitsAreAccountedFor
                /\ Crossed!LinesAreCovered /\ Crossed!OrderFollowsFulfillment
           F == Forms!TypeOK /\ Forms!LinesAreCovered
           P == part # "forms"
           Q == part = "forms"
<1>1. OrdersSpec /\ P => []C /\ []P
  BY CrossedFlow, CrossedAddUp, PTL
<1>2. OrdersSpec /\ Q => []F /\ []Q
  BY FormsFlow, FormsAddUp, PTL
<1>3. OrdersSpec => []TypeOK
  <2>1. Spec => []TermsInv
    BY SubscriptionsTyped
  <2>2. TermsInv => TypeOK
    BY DEF TermsInv
  <2> QED
    BY <2>1, <2>2, SubscriptionFlow, PTL
<1>4. TypeOK /\ C /\ P => AllocationsAddUp
  BY DEF AllocationsAddUp
<1>5. TypeOK /\ F /\ Q => AllocationsAddUp
  BY DEF AllocationsAddUp
<1>6. P \/ Q
  OBVIOUS
<1> HIDE DEF C, F, P, Q
<1> QED
  BY <1>1, <1>2, <1>3, <1>4, <1>5, <1>6, PTL

(* What an order was allocated stays, in either part.                      *)
THEOREM OrdersKeepAllocations == OrdersSpec => AllocationIsKept
<1> DEFINE P == part # "forms"
           Q == part = "forms"
           K == IF part = "forms" THEN Forms!KeepsAllocations ELSE Crossed!KeepsAllocations
<1>1. Crossed!Spec => [][Crossed!KeepsAllocations]_Crossed!vars
  BY Crossed!AllocationKept DEF Crossed!AllocationIsKept
<1>2. Forms!Spec => [][Forms!KeepsAllocations]_Forms!vars
  BY Forms!AllocationKept DEF Forms!AllocationIsKept
<1>3. P /\ [OrdersNext]_flow /\ [Crossed!KeepsAllocations]_Crossed!vars
      => [K]_<<part, stockVars>>
  BY PartStays DEF stockVars, Crossed!vars, Crossed!db
<1>4. Q /\ [OrdersNext]_flow /\ [Forms!KeepsAllocations]_Forms!vars
      => [K]_<<part, stockVars>>
  BY PartStays DEF stockVars, Forms!vars, Forms!db
<1>5. P \/ Q
  OBVIOUS
<1>6. OrdersSpec /\ P => [][K]_<<part, stockVars>>
  BY <1>1, <1>3, CrossedFlow, PTL DEF OrdersSpec
<1>7. OrdersSpec /\ Q => [][K]_<<part, stockVars>>
  BY <1>2, <1>4, FormsFlow, PTL DEF OrdersSpec
<1> QED
  BY <1>5, <1>6, <1>7 DEF AllocationIsKept

(* The transactions of either part implement the ledger.                   *)
THEOREM OrdersKeepLedger == OrdersSpec => LedgerSpec
<1> DEFINE P == part # "forms"
           Q == part = "forms"
           I == IF part = "forms" THEN Forms!Ledger!LedgerInit ELSE Crossed!Ledger!LedgerInit
           N == IF part = "forms"
                THEN Forms!Ledger!LedgerNext \/ UNCHANGED Forms!Ledger!ledger
                ELSE Crossed!Ledger!LedgerNext \/ UNCHANGED Crossed!Ledger!ledger
<1>0. Crossed!FulfillmentConstants /\ Forms!FulfillmentConstants
  BY PartsAreInstances
<1>1. Crossed!Spec => Crossed!Ledger!LedgerInit /\ [][Crossed!Ledger!LedgerNext]_Crossed!Ledger!ledger
  BY <1>0, Crossed!LedgerKept DEF Crossed!LedgerSpec, Crossed!Ledger!LedgerSpec
<1>2. Forms!Spec => Forms!Ledger!LedgerInit /\ [][Forms!Ledger!LedgerNext]_Forms!Ledger!ledger
  BY <1>0, Forms!LedgerKept DEF Forms!LedgerSpec, Forms!Ledger!LedgerSpec
<1>3. P /\ [OrdersNext]_flow /\ [Crossed!Ledger!LedgerNext]_Crossed!Ledger!ledger
      => [N]_<<part, stockVars>>
  OBVIOUS
<1>4. Q /\ [OrdersNext]_flow /\ [Forms!Ledger!LedgerNext]_Forms!Ledger!ledger
      => [N]_<<part, stockVars>>
  OBVIOUS
<1>5. P \/ Q
  OBVIOUS
<1>6. (P /\ Crossed!Ledger!LedgerInit => I) /\ (Q /\ Forms!Ledger!LedgerInit => I)
  OBVIOUS
<1>7. OrdersSpec /\ P => [][N]_<<part, stockVars>> /\ I
  BY <1>1, <1>3, <1>6, CrossedFlow, PTL DEF OrdersSpec
<1>8. OrdersSpec /\ Q => [][N]_<<part, stockVars>> /\ I
  BY <1>2, <1>4, <1>6, FormsFlow, PTL DEF OrdersSpec
<1> QED
  BY <1>5, <1>7, <1>8 DEF LedgerSpec

(* Changes of subscriptions take turns, whatever goes on beside them.      *)
THEOREM OrdersTakeTurns == OrdersSpec => ChangesTakeTurns
BY SubscriptionFlow, TurnsTaken

(* Whoever was given a billing plan finds every line billed, for any       *)
(* number of requests at once (createFromQuotation).                       *)
THEOREM PlansAreWhole == OrdersSpec => []PlansAreComplete
<1>1. PlansInv => PlansAreComplete
  BY DEF PlansAreComplete, PlansInv, Plan!TypeOK, Plan!PlanIsComplete, Whole, Subscribed,
         Invoice
<1>2. Plan!Init => PlansInv
  BY PlansStart
<1>3. PlansInv /\ [Plan!Next]_Plan!vars => PlansInv'
  BY PlansStay
<1> QED
  BY <1>1, <1>2, <1>3, PlanFlow, PTL DEF Plan!Spec
=============================================================================
