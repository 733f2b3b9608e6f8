-------------------------- MODULE QuotationSerial --------------------------
(***************************************************************************)
(* What the quotation services promise: every operation takes effect in    *)
(* one step, on the state it finds, with its conditions true in that       *)
(* state.  QuotationService shows that the code, whose operations read     *)
(* first and write later, implements this.                                 *)
(*                                                                         *)
(* Submission and confirmation read configuration that no version          *)
(* protects, so they may follow any rule set an administrator can set.     *)
(***************************************************************************)
EXTENDS Quotation

CONSTANT MaxVersion  \* bound: users start nothing new beyond this version

ASSUME MaxVersionAssumption == MaxVersion \in Nat

vars == <<aggregate, rules>>

Room == version < MaxVersion

Edit ==
    /\ Room
    /\ status = "DRAFT"
    /\ \E ls \in LineMaps, d \in Pcts : WriteTerms(ls, d)
    /\ UNCHANGED rules

Submit ==
    /\ Room
    /\ status = "DRAFT"
    /\ lines # NoLines
    /\ \E r \in RuleSets :
         LET chain == Chain[r][CurrentTerms]
         IN Freeze(CurrentTerms, chain,
                   IF chain # << >> THEN "PENDING_APPROVAL" ELSE "APPROVED")
    /\ UNCHANGED rules

Negotiate ==
    /\ Room
    /\ status \in Negotiable
    /\ NoPendingNegotiation
    /\ \E counter \in Pcts \cup {NoPct} : OpenNegotiation(counter)
    /\ UNCHANGED rules

Confirm ==
    /\ Room
    /\ status \in Negotiable
    /\ NoPendingNegotiation
    /\ \E r \in RuleSets : ConfirmWrite(CurrentTerms, Chain[r][CurrentTerms])
    /\ UNCHANGED rules

Resolve ==
    /\ status = "UNDER_NEGOTIATION"
    /\ \E n \in DOMAIN negotiations, applying \in BOOLEAN :
         /\ negotiations[n].status = "PENDING"
         /\ CloseNegotiation(n, applying)
    /\ UNCHANGED rules

Decide ==
    /\ \E v \in DOMAIN snapshots :
         \E s \in DOMAIN snapshots[v].records, action \in Decisions :
            /\ FirstPending(v, s)
            /\ DecideWrite(v, s, action, status)
    /\ UNCHANGED rules

(* An administrator creates, changes, deactivates or deletes rules.        *)
ChangeRules ==
    /\ rules' \in RuleSets
    /\ UNCHANGED aggregate

SerialNext ==
    \/ Edit
    \/ Submit
    \/ Negotiate
    \/ Confirm
    \/ Resolve
    \/ Decide
    \/ ChangeRules

SerialSpec == Create /\ [][SerialNext]_vars

(***************************************************************************)
(* Type                                                                    *)
(***************************************************************************)
(* Every row holds values its column allows, and versions start at 1.      *)
TypeOK ==
    /\ status \in Statuses
    /\ version \in Nat \ {0}
    /\ lines \in LineMaps
    /\ disc \in Pcts
    /\ snapshots \in Seq(Snapshot)
    /\ negotiations \in Seq(Negotiation)
    /\ rules \in RuleSets

(***************************************************************************)
(* Invariants                                                              *)
(***************************************************************************)
(* The customer has at most one open request (negotiate's check, which is  *)
(* made before the row it protects is inserted).                           *)
AtMostOnePendingNegotiation ==
    \A m, n \in DOMAIN negotiations :
       negotiations[m].status = "PENDING" /\ negotiations[n].status = "PENDING"
          => m = n

(* A quotation under negotiation has a request that resolve can answer.    *)
UnderNegotiationHasRequest ==
    status = "UNDER_NEGOTIATION" => ~NoPendingNegotiation

(* The customer's requests never get stuck behind one another: at most one *)
(* is open, and while it is negotiated it is there to be answered.         *)
NegotiationInv == AtMostOnePendingNegotiation /\ UnderNegotiationHasRequest

(* A quotation that waits for approval has a step somebody can decide, in  *)
(* its latest version: it can always leave (approval-record-service).      *)
AwaitingHasPendingStep ==
    status \in Awaiting =>
       /\ snapshots # << >>
       /\ \E s \in DOMAIN snapshots[Len(snapshots)].records :
            IsPending(Len(snapshots), s)

(* While a quotation waits for approval or an answer to the customer, the  *)
(* terms it holds are the terms of its latest version.                     *)
ReviewedTermsAreCurrent ==
    status \in Awaiting \cup {"APPROVED"} =>
       /\ snapshots # << >>
       /\ snapshots[Len(snapshots)].terms = CurrentTerms

(* A review can always be ended, and is about the terms that are held.     *)
ReviewInv == AwaitingHasPendingStep /\ ReviewedTermsAreCurrent

(* Steps are decided in order: none is decided while an earlier one is     *)
(* pending.                                                                *)
DecidedInOrder ==
    \A v \in DOMAIN snapshots :
       \A s, t \in DOMAIN snapshots[v].records :
          s < t /\ IsPending(v, s) => IsPending(v, t)

(* A review is about the terms held, can be ended, and goes step by step.  *)
ReviewsAreSound == ReviewInv /\ DecidedInOrder

(***************************************************************************)
(* What a step may never do                                                *)
(***************************************************************************)
(* Terms change only in Draft, or when the discount the customer asked for *)
(* is accepted, whatever requests were in flight when they were frozen.    *)
AcceptsCounter ==
    /\ status = "UNDER_NEGOTIATION"
    /\ lines' = lines
    /\ \E n \in DOMAIN negotiations :
         /\ negotiations[n].status = "PENDING"
         /\ negotiations'[n].status = "ACCEPTED"
         /\ disc' = negotiations[n].counter

TermsFrozenOutsideDraft ==
    [][CurrentTerms' # CurrentTerms => status = "DRAFT" \/ AcceptsCounter]_vars

(* A new QuotationVersion holds the terms of the quotation at the moment   *)
(* it is committed, though they were read earlier; old ones keep theirs.   *)
SnapshotsAreFaithful ==
    [][snapshots' # snapshots =>
         /\ \A v \in DOMAIN snapshots :
              snapshots'[v].terms = snapshots[v].terms
         /\ Len(snapshots') # Len(snapshots) =>
              /\ Len(snapshots') = Len(snapshots) + 1
              /\ snapshots'[Len(snapshots')].terms = CurrentTerms]_vars

(* A decided step is never decided again (a second reviewer gets 409).     *)
DecisionsAreFinal ==
    [][\A v \in DOMAIN snapshots : \A s \in DOMAIN snapshots[v].records :
          ~IsPending(v, s) =>
             snapshots'[v].records[s] = snapshots[v].records[s]]_vars

(* What was submitted and what was decided stays on record as it was.      *)
HistoryIsKept == SnapshotsAreFaithful /\ DecisionsAreFinal

(* Every change that a reader of the row must notice moves the version.    *)
ChangesMoveVersion ==
    [][\/ version' = version + 1
       \/ /\ version' = version
          /\ UNCHANGED <<status, lines, disc, negotiations>>
          /\ Len(snapshots') = Len(snapshots)]_vars

(***************************************************************************)
(* Properties of chains of one step (LOW and MEDIUM by default).  With two *)
(* steps a rejection or return of the first leaves the second pending and  *)
(* decidable, and the first three fail: see the README's findings.         *)
(***************************************************************************)
FullyApproved ==
    /\ snapshots # << >>
    /\ snapshots[Len(snapshots)].terms = CurrentTerms
    /\ \A s \in DOMAIN snapshots[Len(snapshots)].records :
         snapshots[Len(snapshots)].records[s].status = "APPROVED"

(* A rejected quotation stays rejected (TAD 11: terminal).                 *)
RejectIsTerminal == [][status = "REJECTED" => status' = "REJECTED"]_vars

(* A quotation leaves review for the customer or for confirmation only by  *)
(* approval of every step of its latest version (TAD 9: an old approval    *)
(* does not authorize new terms).                                          *)
OldApprovalsAuthorizeNothing ==
    [][status' \in {"SENT_TO_CUSTOMER", "CONFIRMED"} /\ status \in Awaiting
          => FullyApproved']_vars

(* An open customer request can be answered: resolve accepts it.           *)
RequestsStayResolvable ==
    ~NoPendingNegotiation => status = "UNDER_NEGOTIATION"

(* Confirmed terms either needed no approval under some rules in force, or *)
(* are those of the latest version, approved at every step.                *)
ConfirmedIsAuthorised ==
    status = "CONFIRMED" =>
       \/ \E r \in RuleSets : Chain[r][CurrentTerms] = << >>
       \/ FullyApproved

(***************************************************************************)
(* Liveness.  Approvers act on what their queue shows, and sales answers   *)
(* open requests; nobody else has to do anything.                          *)
(***************************************************************************)
FairSpec == SerialSpec /\ WF_vars(Decide) /\ WF_vars(Resolve)

(* A quotation under review is decided, stale steps notwithstanding.       *)
ReviewEnds == status \in Awaiting ~> status \notin Awaiting

(* Every customer request is answered.                                     *)
RequestsAreAnswered == ~NoPendingNegotiation ~> NoPendingNegotiation
=============================================================================
