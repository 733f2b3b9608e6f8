------------------------------- MODULE MCJobs -------------------------------
(* Instances of the background jobs: either the outbox with its dispatchers and workers, or the        *)
(* evaluations of deals beside managers who dismiss alerts. The two share no row.                      *)
EXTENDS Outbox

CONSTANTS Deals, Evaluations, DealsPerTick, Severities, MaxDismissals

VARIABLES part, severity, byUpdate, closed, scheduled, eval, alert, dismissals

Alerts == INSTANCE DealHealth WITH BatchSize <- DealsPerTick

ASSUME AlertsAssumption == Alerts!DealsAssumption

alertVars == <<severity, byUpdate, closed, scheduled, eval, alert, dismissals>>

JobsInit == Init /\ Alerts!Init /\ part \in {"outbox", "alerts"}

JobsNext == /\ UNCHANGED part
            /\ \/ part = "outbox" /\ Next /\ UNCHANGED alertVars
               \/ part = "alerts" /\ Alerts!Next /\ UNCHANGED vars

JobsSpec == JobsInit /\ [][JobsNext]_<<vars, alertVars, part>>

JobsFairSpec == /\ JobsSpec
                /\ part = "outbox" => Fairness
                /\ part = "alerts" => Alerts!Fairness

(* Rows keep their types, and what a row says of its job is so (dispatchOutboxBatch).                  *)
JobsInv == TypeOK /\ Alerts!TypeOK /\ RowsTellTheQueue
(* Every event is carried out or given up for good, whatever strikes (Outbox).                         *)
OutboxSettles == part = "outbox" => EventsAreSettled
(* Trouble of an active deal is shown or was dismissed, and is cleared when it ends; a dismissal gives *)
(* way only to an evaluation that read the alert before it (DealHealth).                               *)
AlertsFollowDeals == Alerts!AlertsFollowDeals
DismissalsYieldToOlder == Alerts!DismissalsYieldToOlder
=============================================================================
