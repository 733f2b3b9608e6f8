----------------------------- MODULE Quotation -----------------------------
(***************************************************************************)
(* The Quotation aggregate: its rows in PostgreSQL and what one committed  *)
(* transaction writes to them.  One quotation is modelled; aggregates      *)
(* share nothing but configuration.                                        *)
(*                                                                         *)
(* A deal abstracts what a quotation line carries (product, quantity, line *)
(* discount); a pct is an order discount.  Chain gives the approval steps  *)
(* that a rule set (discount ceilings and approval rules) demands for      *)
(* given terms: ceilings, margin, risk score, band and rule look-up.       *)
(***************************************************************************)
EXTENDS Naturals, Sequences

CONSTANTS
    Lines,       \* ids a quotation line may have
    Deals,       \* what a line may say
    NoDeal,      \* the line does not exist
    Pcts,        \* order discounts
    DefaultPct,  \* the order discount of a new quotation
    NoPct,       \* a negotiation without a counter-discount
    Roles,       \* roles an approval step may require
    RuleSets,    \* ceilings and approval rules, as one evaluation may read them
    Chain        \* Chain[rules][terms]: the roles to approve, in step order

LineMaps == [Lines -> Deals \cup {NoDeal}]
Terms == [lines : LineMaps, disc : Pcts]

ASSUME QuotationAssumption ==
    /\ NoDeal \notin Deals
    /\ DefaultPct \in Pcts
    /\ NoPct \notin Pcts
    /\ Chain \in [RuleSets -> [Terms -> Seq(Roles)]]

VARIABLES
    status,        \* Quotation.status
    version,       \* Quotation.version, the optimistic lock
    lines,         \* QuotationLine rows
    disc,          \* Quotation.orderDiscountPct
    snapshots,     \* QuotationVersion rows, by versionNo, with their records
    negotiations,  \* Negotiation rows in order of creation
    rules          \* active discount and approval rules

aggregate == <<status, version, lines, disc, snapshots, negotiations>>

(***************************************************************************)
(* Values                                                                  *)
(***************************************************************************)
Negotiable == {"SENT_TO_CUSTOMER", "UNDER_NEGOTIATION"}
Awaiting == {"PENDING_APPROVAL", "RE_APPROVAL_REQUIRED"}
Statuses == {"DRAFT", "APPROVED", "REJECTED", "CONFIRMED"}
                \cup Negotiable \cup Awaiting

Decisions == {"APPROVE", "REJECT", "RETURN"}
ActionToStatus ==
    [d \in Decisions |-> CASE d = "APPROVE" -> "APPROVED"
                           [] d = "REJECT"  -> "REJECTED"
                           [] d = "RETURN"  -> "RETURNED"]

Record == [role : Roles,
           status : {"PENDING", "APPROVED", "REJECTED", "RETURNED"}]
Snapshot == [terms : Terms, records : Seq(Record)]
Negotiation == [status : {"PENDING", "ACCEPTED", "REJECTED"},
                counter : Pcts \cup {NoPct}]

NoLines == [l \in Lines |-> NoDeal]
CurrentTerms == [lines |-> lines, disc |-> disc]
PendingRecords(chain) ==
    [s \in DOMAIN chain |-> [role |-> chain[s], status |-> "PENDING"]]

IsPending(v, s) == snapshots[v].records[s].status = "PENDING"
(* Faults: a step decided out of order; a comparison off by one.           *)
FirstPendingUnordered(v, s) == IsPending(v, s)
FirstPendingOffByOne(v, s) ==
    /\ IsPending(v, s)
    /\ \A t \in DOMAIN snapshots[v].records : IsPending(v, t) => s < t
FirstPending(v, s) ==
    /\ IsPending(v, s)
    /\ \A t \in DOMAIN snapshots[v].records : IsPending(v, t) => s <= t
(* Fault: the step being decided still counts as pending.                  *)
OthersPendingCountsOwn(v, s) ==
    \E t \in DOMAIN snapshots[v].records : IsPending(v, t)
OthersPending(v, s) ==
    \E t \in DOMAIN snapshots[v].records \ {s} : IsPending(v, t)
NoPendingNegotiation ==
    \A n \in DOMAIN negotiations : negotiations[n].status # "PENDING"

(* The status an approved chain ends in, by the status the quotation had.  *)
TerminalApprovedStatus(st) ==
    IF st = "RE_APPROVAL_REQUIRED" THEN "CONFIRMED" ELSE "SENT_TO_CUSTOMER"

(***************************************************************************)
(* What a committed transaction writes.                                    *)
(***************************************************************************)
NextVersion == version' = version + 1

Create ==
    /\ status = "DRAFT"
    /\ version = 1
    /\ lines = NoLines
    /\ disc = DefaultPct
    /\ snapshots = << >>
    /\ negotiations = << >>
    /\ rules \in RuleSets

(* Fault: an edit that leaves the version alone.                           *)
WriteTermsUnversioned(ls, d) ==
    /\ lines' = ls
    /\ disc' = d
    /\ UNCHANGED <<status, version, snapshots, negotiations>>

(* A draft edit: line rows first, then the conditional version bump.       *)
WriteTerms(ls, d) ==
    /\ lines' = ls
    /\ disc' = d
    /\ NextVersion
    /\ UNCHANGED <<status, snapshots, negotiations>>

(* Fault: a re-submission that copies the payload of the version before.   *)
FreezeOldPayload(terms, chain, newStatus) ==
    /\ snapshots' = Append(snapshots,
           [terms   |-> IF snapshots = << >> THEN terms
                        ELSE snapshots[Len(snapshots)].terms,
            records |-> PendingRecords(chain)])
    /\ status' = newStatus
    /\ NextVersion
    /\ UNCHANGED <<lines, disc, negotiations>>

(* Freeze the terms as the next QuotationVersion with its chain.           *)
Freeze(terms, chain, newStatus) ==
    /\ snapshots' = Append(snapshots, [terms   |-> terms,
                                       records |-> PendingRecords(chain)])
    /\ status' = newStatus
    /\ NextVersion
    /\ UNCHANGED <<lines, disc, negotiations>>

(* Fault: a request that does not move the quotation to negotiation.       *)
OpenNegotiationStatusKept(counter) ==
    /\ negotiations' = Append(negotiations, [status  |-> "PENDING",
                                             counter |-> counter])
    /\ NextVersion
    /\ UNCHANGED <<status, lines, disc, snapshots>>

OpenNegotiation(counter) ==
    /\ negotiations' = Append(negotiations, [status  |-> "PENDING",
                                             counter |-> counter])
    /\ status' = "UNDER_NEGOTIATION"
    /\ NextVersion
    /\ UNCHANGED <<lines, disc, snapshots>>

Accept ==
    /\ status' = "CONFIRMED"
    /\ NextVersion
    /\ UNCHANGED <<lines, disc, snapshots, negotiations>>

(* Fault: trusting any earlier approval.                                   *)
ConfirmWriteTrustsOldApproval(terms, chain) ==
    IF chain # << >> /\ snapshots = << >>
    THEN Freeze(terms, chain, "RE_APPROVAL_REQUIRED")
    ELSE Accept

(* A confirmation either re-routes the terms to approval or accepts them.  *)
ConfirmWrite(terms, chain) ==
    IF chain # << >>
    THEN Freeze(terms, chain, "RE_APPROVAL_REQUIRED")
    ELSE Accept

(* Faults: a declined request left open; a quotation left under            *)
(* negotiation.                                                            *)
CloseNegotiationDeclineLost(n, applying) ==
    /\ negotiations' = [negotiations EXCEPT
           ![n].status = IF applying THEN "ACCEPTED" ELSE "PENDING"]
    /\ disc' = IF applying /\ negotiations[n].counter # NoPct
               THEN negotiations[n].counter
               ELSE disc
    /\ status' = "SENT_TO_CUSTOMER"
    /\ NextVersion
    /\ UNCHANGED <<lines, snapshots>>
CloseNegotiationStatusKept(n, applying) ==
    /\ negotiations' = [negotiations EXCEPT
           ![n].status = IF applying THEN "ACCEPTED" ELSE "REJECTED"]
    /\ disc' = IF applying /\ negotiations[n].counter # NoPct
               THEN negotiations[n].counter
               ELSE disc
    /\ NextVersion
    /\ UNCHANGED <<status, lines, snapshots>>

CloseNegotiation(n, applying) ==
    /\ negotiations' = [negotiations EXCEPT
           ![n].status = IF applying THEN "ACCEPTED" ELSE "REJECTED"]
    /\ disc' = IF applying /\ negotiations[n].counter # NoPct
               THEN negotiations[n].counter
               ELSE disc
    /\ status' = "SENT_TO_CUSTOMER"
    /\ NextVersion
    /\ UNCHANGED <<lines, snapshots>>

(* A decision settles the quotation unless it approves a step that is not  *)
(* the last one pending; only a settling decision writes the quotation.    *)
Settles(v, s, action) == action = "APPROVE" => ~OthersPending(v, s)

SettledStatus(action, seenStatus) ==
    CASE action = "REJECT"  -> "REJECTED"
      [] action = "RETURN"  -> "DRAFT"
      [] action = "APPROVE" -> TerminalApprovedStatus(seenStatus)

RecordDecision(v, s, action) ==
    /\ snapshots' = [snapshots EXCEPT
           ![v].records[s].status = ActionToStatus[action]]
    /\ UNCHANGED <<lines, disc, negotiations>>

DecideWrite(v, s, action, seenStatus) ==
    /\ RecordDecision(v, s, action)
    /\ IF Settles(v, s, action)
       THEN status' = SettledStatus(action, seenStatus) /\ NextVersion
       ELSE UNCHANGED <<status, version>>
=============================================================================
