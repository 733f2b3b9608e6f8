---------------------------- MODULE Subscription ----------------------------
(***************************************************************************)
(* Mid-cycle changes and cancellation of subscriptions.  The service reads *)
(* the subscription and then its billing schedules, computes proration or  *)
(* refund from them, and only then starts the transaction that writes the  *)
(* result, on condition of the version the client sent.                    *)
(*                                                                         *)
(* A cycle lasts CycleDays: months of uneven length are left out.          *)
(***************************************************************************)
EXTENDS Proration, Sequences, SequencesExt

CONSTANTS Subscriptions, Requests,
          Cycles, CycleDays,    \* CycleDays[c]: the days of a cycle
          Amounts,              \* of new subscriptions, in cents
          Changes,              \* what staff may ask for, see Change
          FirstDay,             \* the day every subscription starts
          Rule,                 \* the plan's refund settings
          MaxVersion            \* bound on versions

VARIABLES sub,      \* sub[s]: Subscription with its schedules, as created
          invoiced, \* invoiced[s]: total of the invoice made with it
          credits,  \* credits[s]: amounts of its credit notes
          req       \* req[t]: what a request has read

vars == <<sub, invoiced, credits, req>>

Schedule == [start : Int, end : Int, amount : Nat,
             status : {"SCHEDULED", "PRORATED_UPGRADE", "PRORATED_DOWNGRADE"}]

SubscriptionRow == [status : {"NONE", "ACTIVE", "CANCELLED"}, cycle : Cycles,
                    nextBill : Int, version : Nat, schedules : Seq(Schedule)]

(* A change of plan or a cancellation, on a date of the user's choice.     *)
Change == [op : {"modify", "cancel"}, cycle : Cycles, amount : Nat,
           day : Int, immediate : BOOLEAN]

ASSUME SubscriptionAssumption ==
    /\ Changes \subseteq Change /\ Amounts \subseteq Nat
    /\ FirstDay \in Int /\ Cycles # {} /\ CycleDays \in [Cycles -> Nat]

Request == [pc : {"idle", "read", "modify", "cancel"}, sub : Subscriptions,
            change : Changes, expected : Nat, upgrade : BOOLEAN, credit : Nat]

NoSubscription == [status |-> "NONE", cycle |-> CHOOSE c \in Cycles : TRUE,
                   nextBill |-> 0, version |-> 1, schedules |-> << >>]

Idle == [pc |-> "idle", sub |-> CHOOSE s \in Subscriptions : TRUE,
         change |-> CHOOSE c \in Changes : TRUE, expected |-> 0,
         upgrade |-> FALSE, credit |-> 0]

TypeOK == /\ sub \in [Subscriptions -> SubscriptionRow]
          /\ invoiced \in [Subscriptions -> Nat]
          /\ credits \in [Subscriptions -> Seq(Nat)]
          /\ req \in [Requests -> Request]

Init == /\ sub = [s \in Subscriptions |-> NoSubscription]
        /\ invoiced = [s \in Subscriptions |-> 0]
        /\ credits = [s \in Subscriptions |-> << >>]
        /\ req = [t \in Requests |-> Idle]

EndOfCycle(day, cycle) == day + CycleDays[cycle]

Create(s, cycle, amount) ==
    LET end == EndOfCycle(FirstDay, cycle)
    IN  /\ sub[s].status = "NONE"
        /\ sub' = [sub EXCEPT ![s] =
             [status |-> "ACTIVE", cycle |-> cycle, nextBill |-> end, version |-> 1,
              schedules |-> <<[start |-> FirstDay, end |-> end, amount |-> amount,
                               status |-> "SCHEDULED"]>>]]
        /\ invoiced' = [invoiced EXCEPT ![s] = amount]
        /\ UNCHANGED <<credits, req>>

(* Clients send a version they were shown.                                 *)
Read(t, s, change) ==
    /\ req[t].pc = "idle"
    /\ sub[s].status = "ACTIVE" /\ sub[s].version < MaxVersion
    /\ \E expected \in 1 .. sub[s].version :
          req' = [req EXCEPT ![t] =
             [Idle EXCEPT !.pc = "read", !.sub = s, !.change = change,
                          !.expected = expected]]
    /\ UNCHANGED <<sub, invoiced, credits>>

(* The service takes the first of the schedules, sorted by cycleStart.     *)
ActiveSchedule(schedules) ==
    schedules[CHOOSE i \in DOMAIN schedules : \A j \in DOMAIN schedules :
                \/ schedules[i].start < schedules[j].start
                \/ schedules[i].start = schedules[j].start /\ i <= j]

CreditNow(s, change) ==
    IF change.op = "cancel" /\ change.immediate
    THEN Credit(ActiveSchedule(sub[s].schedules), change.day, Rule) ELSE 0

UpgradeNow(s, change) ==
    /\ change.op = "modify"
    /\ IsUpgrade(ActiveSchedule(sub[s].schedules), change.day, change.amount)

Compute(t) ==
    LET change == req[t].change
    IN  /\ req[t].pc = "read"
        /\ req' = [req EXCEPT ![t].pc = change.op,
                              ![t].upgrade = UpgradeNow(req[t].sub, change),
                              ![t].credit = CreditNow(req[t].sub, change)]
        /\ UNCHANGED <<sub, invoiced, credits>>

Close(t) == req' = [req EXCEPT ![t] = Idle]

(* Fault: the version is not checked.                                      *)
VersionUnchecked(t) == TRUE

VersionUnchanged(t) == sub[req[t].sub].version = req[t].expected

NewSchedule(change, upgrade) ==
    [start |-> change.day, end |-> EndOfCycle(change.day, change.cycle),
     amount |-> change.amount,
     status |-> IF upgrade THEN "PRORATED_UPGRADE" ELSE "PRORATED_DOWNGRADE"]

Modify(t) ==
    LET s   == req[t].sub
        new == NewSchedule(req[t].change, req[t].upgrade)
    IN  /\ req[t].pc = "modify" /\ VersionUnchanged(t)
        /\ sub' = [sub EXCEPT ![s].cycle = req[t].change.cycle, ![s].nextBill = new.end,
                              ![s].version = @ + 1, ![s].schedules = Append(@, new)]
        /\ Close(t) /\ UNCHANGED <<invoiced, credits>>

(* The credit note goes to the invoice made with the subscription, which   *)
(* keeps its status.                                                       *)
Cancel(t) ==
    LET s == req[t].sub
    IN  /\ req[t].pc = "cancel" /\ VersionUnchanged(t)
        /\ sub' = [sub EXCEPT ![s].status = "CANCELLED", ![s].version = @ + 1]
        /\ credits' = [credits EXCEPT ![s] =
             IF req[t].credit > 0 THEN Append(@, req[t].credit) ELSE @]
        /\ Close(t) /\ UNCHANGED invoiced

(* A refused check, a version conflict or a lost connection.               *)
Abort(t) == req[t].pc # "idle" /\ Close(t) /\ UNCHANGED <<sub, invoiced, credits>>

Next == \/ \E s \in Subscriptions, c \in Cycles, a \in Amounts : Create(s, c, a)
        \/ \E t \in Requests :
              \/ \E s \in Subscriptions, change \in Changes : Read(t, s, change)
              \/ Compute(t) \/ Modify(t) \/ Cancel(t) \/ Abort(t)

Spec == Init /\ [][Next]_vars

(***************************************************************************)
(* Properties                                                              *)
(***************************************************************************)
(* A cancelled subscription stays as it is, and gets no second credit      *)
(* note, whatever change was under way when it was cancelled.              *)
CancelledIsFinal ==
    [][\A s \in Subscriptions : sub[s].status = "CANCELLED" =>
            sub'[s] = sub[s] /\ credits'[s] = credits[s]]_vars

(* A change is computed before its transaction, and yet takes effect as if *)
(* computed in it: the refund and the kind of schedule follow from the     *)
(* terms that the change replaces (withOptimisticVersion).                 *)
ComputedOnCurrentTerms ==
    [][\A t \in Requests :
         LET s == req[t].sub
         IN  /\ Modify(t) => Last(sub'[s].schedules).status =
                   NewSchedule(req[t].change, UpgradeNow(s, req[t].change)).status
             /\ Cancel(t) => credits'[s] =
                   IF CreditNow(s, req[t].change) > 0
                   THEN Append(credits[s], CreditNow(s, req[t].change))
                   ELSE credits[s]]_vars

(* Changes and a cancellation take turns, although they are computed       *)
(* before: each follows from the terms that it finds, and the cancellation *)
(* is the last.                                                            *)
ChangesTakeTurns == CancelledIsFinal /\ ComputedOnCurrentTerms
=============================================================================
