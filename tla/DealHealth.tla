----------------------------- MODULE DealHealth -----------------------------
(***************************************************************************)
(* Deal-health alerts.  A timer schedules an evaluation of each deal in a  *)
(* batch, a user may ask for one more; evaluations run in the worker,      *)
(* several at a time, and each is a few statements outside any             *)
(* transaction: read the deal, read its alert, write the alert.  Managers  *)
(* dismiss alerts meanwhile.                                               *)
(*                                                                         *)
(* The four indicators of one evaluation have a row each and never meet:   *)
(* one of them is modelled.  Its finding is a severity, 0 for none.        *)
(***************************************************************************)
EXTENDS Naturals, Sequences, SequencesExt

CONSTANTS Deals, Evaluations,
          BatchSize,        \* deals a tick of the scheduler takes
          Severities,       \* what the indicator may say of a deal; 0: nothing
          MaxDismissals     \* bound on what managers do

DealsAssumption == /\ Deals # {} /\ IsFiniteSet(Deals)
                   /\ Severities \subseteq Nat /\ 0 \in Severities
                   /\ BatchSize \in Nat /\ MaxDismissals \in Nat

VARIABLES severity,    \* severity[q]: what the indicator would say of q now
          byUpdate,    \* the deals, least recently updated first
          closed,      \* the deals that are rejected or completed at present
          scheduled,   \* deals with an evaluation waiting to run
          eval,        \* eval[k]: what an evaluation has read so far
          alert,       \* alert[q] = [status, severity]
          dismissals

vars == <<severity, byUpdate, closed, scheduled, eval, alert, dismissals>>

AlertStatuses == {"NONE", "OPEN", "RESOLVED", "DISMISSED"}

Alert == [status : AlertStatuses, severity : Severities]

NoAlert == [status |-> "NONE", severity |-> 0]

Idle == [pc |-> "idle", deal |-> CHOOSE q \in Deals : TRUE,
         finding |-> 0, seen |-> NoAlert]

TypeOK == /\ severity \in [Deals -> Severities]
          /\ byUpdate \in Seq(Deals)
          /\ ToSet(byUpdate) = Deals /\ IsInjective(byUpdate)
          /\ closed \subseteq Deals
          /\ scheduled \subseteq Deals
          /\ eval \in [Evaluations ->
                [pc : {"idle", "read", "upsert", "resolve"}, deal : Deals,
                 finding : Severities, seen : Alert]]
          /\ alert \in [Deals -> Alert]
          /\ dismissals \in 0 .. MaxDismissals

Init == /\ severity = [q \in Deals |-> 0]
        /\ byUpdate \in SetToSeqs(Deals)
        /\ closed = {}
        /\ scheduled = {}
        /\ eval = [k \in Evaluations |-> Idle]
        /\ alert = [q \in Deals |-> NoAlert]
        /\ dismissals = 0

(* Business activity on a deal, which may close it or, by a late decision, *)
(* open it again; or time going by, which updates no row.                  *)
Activity(q) ==
    /\ severity' \in {[severity EXCEPT ![q] = s] : s \in Severities}
    /\ closed' \in {closed, closed \union {q}, closed \ {q}}
    /\ \E i \in DOMAIN byUpdate : /\ byUpdate[i] = q
                                   /\ byUpdate' = Append(RemoveAt(byUpdate, i), q)
    /\ UNCHANGED <<scheduled, eval, alert, dismissals>>

Aging(q) ==
    /\ \E s \in Severities : s > severity[q] /\ severity' = [severity EXCEPT ![q] = s]
    /\ UNCHANGED <<byUpdate, closed, scheduled, eval, alert, dismissals>>

Active(q) == q \notin closed

Ahead(q) == {p \in Deals : /\ Active(p)
                           /\ \E i, j \in DOMAIN byUpdate :
                                 i < j /\ byUpdate[i] = p /\ byUpdate[j] = q}

(* The first of the active deals; one evaluation each: a second one would  *)
(* find the same.                                                          *)
ScheduleBatch ==
    /\ scheduled' = scheduled \union
          {q \in Deals : Active(q) /\ Cardinality(Ahead(q)) < BatchSize}
    /\ scheduled' # scheduled
    /\ UNCHANGED <<severity, byUpdate, closed, eval, alert, dismissals>>

(* Any deal, a closed one too.                                             *)
RefreshQuotation(q) ==
    /\ q \notin scheduled
    /\ scheduled' = scheduled \union {q}
    /\ UNCHANGED <<severity, byUpdate, closed, eval, alert, dismissals>>

GetSnapshot(k, q) ==
    /\ eval[k].pc = "idle" /\ q \in scheduled
    /\ eval' = [eval EXCEPT ![k] = [Idle EXCEPT !.pc = "read", !.deal = q,
                                                !.finding = severity[q]]]
    /\ scheduled' = scheduled \ {q}
    /\ UNCHANGED <<severity, byUpdate, closed, alert, dismissals>>

Finish(k) == eval' = [eval EXCEPT ![k] = Idle]

(* Fault: nothing is done for an alert that is open already, or was once.  *)
NextStepFirstOnly(finding, existing) ==
    IF finding > 0
    THEN IF existing.status # "NONE" THEN "idle" ELSE "upsert"
    ELSE IF existing.status = "OPEN" THEN "resolve" ELSE "idle"

(* Fault: an alert is never resolved.                                      *)
NextStepUpsertOnly(finding, existing) ==
    IF finding > 0 /\ existing.status # "DISMISSED" THEN "upsert" ELSE "idle"

(* Fault: a dismissed alert is opened again while its condition lasts.     *)
NextStepReopens(finding, existing) ==
    IF finding > 0 THEN "upsert" ELSE IF existing.status = "OPEN" THEN "resolve" ELSE "idle"

(* What an evaluation does next, given its finding and the existing alert. *)
NextStep(finding, existing) ==
    IF finding > 0
    THEN IF existing.status = "DISMISSED" THEN "idle" ELSE "upsert"
    ELSE IF existing.status = "OPEN" THEN "resolve" ELSE "idle"

ReadAlert(k) ==
    LET existing == alert[eval[k].deal]
        next     == NextStep(eval[k].finding, existing)
    IN  /\ eval[k].pc = "read"
        /\ IF next = "idle" THEN Finish(k)
           ELSE eval' = [eval EXCEPT ![k].pc = next, ![k].seen = existing]
        /\ UNCHANGED <<severity, byUpdate, closed, scheduled, alert, dismissals>>

(* The row is overwritten whatever it says by now.                         *)
UpsertOpenAlert(k) ==
    LET q == eval[k].deal
    IN  /\ eval[k].pc = "upsert"
        /\ alert' = [alert EXCEPT ![q] =
             [status |-> "OPEN", severity |-> eval[k].finding]]
        /\ Finish(k)
        /\ UNCHANGED <<severity, byUpdate, closed, scheduled, dismissals>>

(* The update names the alert by id alone.                                 *)
ResolveAlert(k) ==
    LET q == eval[k].deal
    IN  /\ eval[k].pc = "resolve"
        /\ alert' = [alert EXCEPT ![q].status = "RESOLVED"]
        /\ Finish(k)
        /\ UNCHANGED <<severity, byUpdate, closed, scheduled, dismissals>>

DismissAlert(q) ==
    /\ dismissals < MaxDismissals
    /\ alert[q].status # "NONE"
    /\ alert' = [alert EXCEPT ![q].status = "DISMISSED"]
    /\ dismissals' = dismissals + 1
    /\ UNCHANGED <<severity, byUpdate, closed, scheduled, eval>>

(* The worker dies or a statement fails; the outbox runs the job again.    *)
Interrupt(k) ==
    /\ eval[k].pc # "idle"
    /\ scheduled' = scheduled \union {eval[k].deal}
    /\ Finish(k)
    /\ UNCHANGED <<severity, byUpdate, closed, alert, dismissals>>

Evaluate(k) == \/ \E q \in Deals : GetSnapshot(k, q)
               \/ ReadAlert(k) \/ UpsertOpenAlert(k) \/ ResolveAlert(k)

Next == \/ ScheduleBatch
        \/ \E q \in Deals : \/ Activity(q) \/ Aging(q) \/ RefreshQuotation(q)
                            \/ DismissAlert(q)
        \/ \E k \in Evaluations : Evaluate(k) \/ Interrupt(k)

Spec == Init /\ [][Next]_vars

(* The timer keeps firing and the worker serves every deal it is given; a  *)
(* deal's evaluations are interrupted only so often that one of them ends  *)
(* in the end.                                                             *)
Fairness ==
    /\ WF_vars(ScheduleBatch)
    /\ \A q \in Deals :
          /\ SF_vars(\E k \in Evaluations : GetSnapshot(k, q))
          /\ \A k \in Evaluations :
                /\ SF_vars(eval[k].deal = q /\ ReadAlert(k))
                /\ SF_vars(eval[k].deal = q /\ (UpsertOpenAlert(k) \/ ResolveAlert(k)))

(***************************************************************************)
(* Properties                                                              *)
(***************************************************************************)
Troubled(q) == severity[q] > 0

(* Of a deal that stays active: trouble that stays is on the dashboard in  *)
(* the end, or was dismissed, and an alert whose trouble is over for good  *)
(* does not stay open, although older evaluations may still be on their    *)
(* way to clear or to open it (deal-health-service.ts, evaluateQuotation). *)
(* A deal that is rejected or completed leaves the batches with whatever   *)
(* alert it has (listActiveQuotationIds, 75-80): nothing is said of it.    *)
AlertsFollowDeals ==
    \A q \in Deals :
        /\ <>[](Active(q) /\ Troubled(q)) => <>[](alert[q].status \in {"OPEN", "DISMISSED"})
        /\ <>[](Active(q) /\ ~Troubled(q)) => <>[](alert[q].status # "OPEN")

(* A dismissal is undone only by an evaluation that had read the alert     *)
(* before, and overwrites what it read (upsertOpenAlert, 178-215): the     *)
(* ones that see the dismissal leave it alone, however often they run.     *)
DismissalsYieldToOlder ==
    [][\A q \in Deals : alert[q].status = "DISMISSED" /\ alert'[q] # alert[q] =>
          \E k \in Evaluations : /\ eval[k].pc # "idle" /\ eval[k].deal = q
                                 /\ eval[k].seen.status # "DISMISSED"
                                 /\ eval'[k].pc = "idle"]_vars

(* A dismissal is sticky: the evaluator leaves a dismissed alert alone     *)
(* while its condition stays active (deal-health-service.ts, 214-215).     *)
DismissalIsSticky ==
    [][\A q \in Deals : alert[q].status = "DISMISSED" /\ Troubled(q) =>
          alert'[q].status = "DISMISSED"]_vars
=============================================================================
