-------------------------- MODULE QuotationService --------------------------
(***************************************************************************)
(* The quotation, approval and negotiation services as they run: several   *)
(* requests in flight, each a few database statements.  Transactions run   *)
(* at PostgreSQL's READ COMMITTED, so every statement sees what was        *)
(* committed when it starts, and a request is                              *)
(*                                                                         *)
(*   Start   reads the quotation row and checks its status,                *)
(*   Load    reads what else the operation needs (lines, rules, records),  *)
(*   commit  writes, on condition that the version is still the expected   *)
(*           one (withOptimisticVersion), or                               *)
(*   Abort   rolls back: a failed check, a conflict, a lost connection.    *)
(*                                                                         *)
(* Draft edits and submissions expect the version the client was shown;    *)
(* the others expect the version that Start read.                          *)
(***************************************************************************)
EXTENDS QuotationSerial

CONSTANT Requests  \* requests that may be in flight together

VARIABLE req

allVars == <<aggregate, rules, req>>

Ops == {"none", "edit", "submit", "negotiate", "confirm", "resolve", "decide"}

(* What a request remembers of its reads.                                  *)
Request == [pc       : {"idle", "started", "loaded"},
            op       : Ops,
            expected : Nat,         \* version the commit is conditional on
            seen     : Nat,         \* version Start read
            status   : Statuses,    \* status Start read
            terms    : Terms,       \* discount Start read, lines Load read
            chain    : Seq(Roles),  \* approval steps Load computed
            target   : Nat,         \* QuotationVersion or Negotiation
            step     : Nat]         \* ApprovalRecord of that version

Idle == [pc |-> "idle", op |-> "none", expected |-> 0, seen |-> 0,
         status |-> "DRAFT",
         terms |-> [lines |-> NoLines, disc |-> DefaultPct],
         chain |-> << >>, target |-> 0, step |-> 0]

ServiceInit == Create /\ req = [r \in Requests |-> Idle]

(***************************************************************************)
(* Phases                                                                  *)
(***************************************************************************)
Begin(r, op, expected, target, step) ==
    /\ req[r].pc = "idle"
    /\ req' = [req EXCEPT ![r] =
         [pc |-> "started", op |-> op, expected |-> expected,
          seen |-> version, status |-> status,
          terms |-> [lines |-> NoLines, disc |-> disc],
          chain |-> << >>, target |-> target, step |-> step]]
    /\ UNCHANGED vars

At(r, op, pc) == req[r].op = op /\ req[r].pc = pc

Load(r, terms, chain, target) ==
    /\ req' = [req EXCEPT ![r].pc = "loaded", ![r].terms = terms,
                          ![r].chain = chain, ![r].target = target]
    /\ UNCHANGED vars

(* Fault: an update that is not conditional on the version.                *)
VersionIgnored(r) == version >= req[r].expected
VersionUnchanged(r) == version = req[r].expected

Commits(r, op, pc) ==
    /\ At(r, op, pc)
    /\ VersionUnchanged(r)
    /\ req' = [req EXCEPT ![r] = Idle]
    /\ UNCHANGED rules

Abort(r) ==
    /\ req[r].pc # "idle"
    /\ req' = [req EXCEPT ![r] = Idle]
    /\ UNCHANGED vars

(* The terms a request has put together: its discount and the lines read   *)
(* now, by a later statement.                                              *)
TermsRead(r) == [lines |-> lines, disc |-> req[r].terms.disc]

(***************************************************************************)
(* Draft edits (assertOwnedDraft, then one transaction)                    *)
(***************************************************************************)
EditStart(r) ==
    /\ Room
    /\ status = "DRAFT"
    /\ \E e \in 1 .. version : Begin(r, "edit", e, 0, 0)

AddLine(r) ==
    /\ Commits(r, "edit", "started")
    /\ \E l \in Lines, d \in Deals :
         /\ lines[l] = NoDeal
         /\ WriteTerms([lines EXCEPT ![l] = d], disc)

RemoveLine(r) ==
    /\ Commits(r, "edit", "started")
    /\ \E l \in Lines :
         /\ lines[l] # NoDeal
         /\ WriteTerms([lines EXCEPT ![l] = NoDeal], disc)

UpdateLineQuantity(r) ==
    /\ Commits(r, "edit", "started")
    /\ \E l \in Lines, d \in Deals :
         /\ lines[l] # NoDeal
         /\ WriteTerms([lines EXCEPT ![l] = d], disc)

(* Any of the existing lines, the order discount, or both.                 *)
UpdateDiscounts(r) ==
    /\ Commits(r, "edit", "started")
    /\ \E ls \in LineMaps, d \in Pcts :
         /\ \A l \in Lines : ls[l] = NoDeal <=> lines[l] = NoDeal
         /\ WriteTerms(ls, d)

(***************************************************************************)
(* Submission                                                              *)
(***************************************************************************)
SubmitStart(r) ==
    /\ Room
    /\ status = "DRAFT"
    /\ \E e \in 1 .. version : Begin(r, "submit", e, 0, 0)

(* Ceilings and approval rules are read in two statements.  What is read   *)
(* around a change of either, old ceilings and new rules, is a rule set    *)
(* too: the administrator may have put it in force for that moment.        *)
SubmitLoad(r) ==
    /\ At(r, "submit", "started")
    /\ lines # NoLines
    /\ Load(r, TermsRead(r), Chain[rules][TermsRead(r)], 0)

(* Fault: the status decided from rules read a second time.                *)
SubmitCommitRulesReread(r) ==
    /\ Commits(r, "submit", "loaded")
    /\ Freeze(req[r].terms, req[r].chain,
              IF Chain[rules][req[r].terms] # << >>
              THEN "PENDING_APPROVAL" ELSE "APPROVED")

SubmitCommit(r) ==
    /\ Commits(r, "submit", "loaded")
    /\ Freeze(req[r].terms, req[r].chain,
              IF req[r].chain # << >> THEN "PENDING_APPROVAL" ELSE "APPROVED")

(***************************************************************************)
(* Customer negotiation and confirmation                                   *)
(***************************************************************************)
NegotiateStart(r) ==
    /\ Room
    /\ status \in Negotiable
    /\ Begin(r, "negotiate", version, 0, 0)

NegotiateLoad(r) ==
    /\ At(r, "negotiate", "started")
    /\ NoPendingNegotiation
    /\ Load(r, req[r].terms, << >>, 0)

NegotiateCommit(r) ==
    /\ Commits(r, "negotiate", "loaded")
    /\ \E counter \in Pcts \cup {NoPct} : OpenNegotiation(counter)

ConfirmStart(r) ==
    /\ Room
    /\ status \in Negotiable
    /\ Begin(r, "confirm", version, 0, 0)

ConfirmLoad(r) ==
    /\ At(r, "confirm", "started")
    /\ NoPendingNegotiation
    /\ Load(r, TermsRead(r), Chain[rules][TermsRead(r)], 0)

ConfirmCommit(r) ==
    /\ Commits(r, "confirm", "loaded")
    /\ ConfirmWrite(req[r].terms, req[r].chain)

(***************************************************************************)
(* Resolution of a negotiation by sales                                    *)
(***************************************************************************)
ResolveStart(r) ==
    /\ status = "UNDER_NEGOTIATION"
    /\ Begin(r, "resolve", version, 0, 0)

ResolveLoad(r) ==
    /\ At(r, "resolve", "started")
    /\ \E n \in DOMAIN negotiations :
         /\ negotiations[n].status = "PENDING"
         /\ Load(r, req[r].terms, << >>, n)

ResolveCommit(r) ==
    /\ Commits(r, "resolve", "loaded")
    /\ \E applying \in BOOLEAN : CloseNegotiation(req[r].target, applying)

(***************************************************************************)
(* Approval decisions                                                      *)
(***************************************************************************)
DecideStart(r) ==
    \E v \in DOMAIN snapshots : \E s \in DOMAIN snapshots[v].records :
       /\ IsPending(v, s)
       /\ Begin(r, "decide", version, v, s)

(* Fault: the order of the steps is not looked at.                         *)
DecideLoadAnyStep(r) ==
    /\ At(r, "decide", "started")
    /\ Load(r, req[r].terms, << >>, req[r].target)

DecideLoad(r) ==
    /\ At(r, "decide", "started")
    /\ FirstPending(req[r].target, req[r].step)
    /\ Load(r, req[r].terms, << >>, req[r].target)

(* Fault: the record is updated whatever became of it.                     *)
RecordIgnored(r) == TRUE

(* The record is PENDING exactly while it has the version its reviewer was *)
(* shown, so the conditional update of the record is this guard; that of   *)
(* the quotation is made only when the decision settles it.                *)
RecordUnchanged(r) == IsPending(req[r].target, req[r].step)

DecideCommit(r) ==
    /\ At(r, "decide", "loaded")
    /\ RecordUnchanged(r)
    /\ \E action \in Decisions :
         /\ Settles(req[r].target, req[r].step, action) => VersionUnchanged(r)
         /\ DecideWrite(req[r].target, req[r].step, action, req[r].status)
    /\ req' = [req EXCEPT ![r] = Idle]
    /\ UNCHANGED rules

(***************************************************************************)
(* Specification                                                           *)
(***************************************************************************)
Starts(r) ==
    \/ EditStart(r)
    \/ SubmitStart(r)
    \/ NegotiateStart(r)
    \/ ConfirmStart(r)
    \/ ResolveStart(r)
    \/ DecideStart(r)

Loads(r) ==
    \/ SubmitLoad(r)
    \/ NegotiateLoad(r)
    \/ ConfirmLoad(r)
    \/ ResolveLoad(r)
    \/ DecideLoad(r)

Writes(r) ==
    \/ AddLine(r)
    \/ RemoveLine(r)
    \/ UpdateLineQuantity(r)
    \/ UpdateDiscounts(r)
    \/ SubmitCommit(r)
    \/ NegotiateCommit(r)
    \/ ConfirmCommit(r)
    \/ ResolveCommit(r)
    \/ DecideCommit(r)

ServiceNext ==
    \/ \E r \in Requests : Starts(r) \/ Loads(r) \/ Writes(r) \/ Abort(r)
    \/ ChangeRules /\ UNCHANGED req

ServiceSpec == ServiceInit /\ [][ServiceNext]_allVars

(* Rows and requests hold values of their types.                           *)
ServiceTypeOK == TypeOK /\ req \in [Requests -> Request]
=============================================================================
