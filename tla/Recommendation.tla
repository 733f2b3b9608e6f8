--------------------------- MODULE Recommendation ---------------------------
(***************************************************************************)
(* The recommendations of one quotation: scoring and saving them, adding   *)
(* one to the quotation, dismissing one, beside members of staff who edit  *)
(* its lines (recommendation-service.ts, prisma-recommendation-            *)
(* repository.ts).                                                         *)
(*                                                                         *)
(* A generation reads the lines and the earlier decisions in different     *)
(* statements and saves its offers in a transaction of its own.  Adding is *)
(* two transactions: the line first, through the quotation builder, then   *)
(* the mark on the recommendation.  A request may end between any two      *)
(* steps.                                                                  *)
(***************************************************************************)
EXTENDS Integers, FiniteSetsExt

CONSTANTS Products,     \* the active products
          Requests,     \* requests in flight
          TopK,         \* how many are offered (RECOMMENDATION_CONFIG_V1.topK)
          MaxVersion,   \* bound: edits of the quotation
          MaxFailures   \* bound: requests that fail without need

ASSUME RecommendationAssumption ==
    /\ Products # {} /\ Requests # {} /\ TopK \in Nat \ {0}
    /\ MaxVersion \in Nat /\ MaxFailures \in Nat

VARIABLES lines,        \* [at, product]: the line that made version at
          version,      \* of the quotation
          rec,          \* rec[p]: the row of product p, if any
          req,          \* req[r]: what a request has read
          failures

vars == <<lines, version, rec, req, failures>>

NoLine == 0

Statuses == {"NONE", "PENDING", "ADDED", "DISMISSED"}

Decided == {"ADDED", "DISMISSED"}

Line == [at : Nat \ {0}, product : Products]

Row == [status : Statuses, line : Nat]

NoRow == [status |-> "NONE", line |-> NoLine]

(* gone and put are the rows a saving transaction has deleted and written  *)
(* and therefore holds locked; same says whether the row a request read    *)
(* still exists under the id it read.                                      *)
Idle == [at |-> "idle", anchors |-> {}, rows |-> {}, gone |-> {}, put |-> {},
         product |-> CHOOSE p \in Products : TRUE, expected |-> 0,
         line |-> NoLine, same |-> FALSE]

Phases == {"idle", "context", "scored", "saving", "add", "mark", "dismiss"}

Request == [at : Phases, anchors : SUBSET Products, rows : SUBSET Products,
            gone : SUBSET Products, put : SUBSET Products, product : Products,
            expected : Nat, line : Nat, same : BOOLEAN]

TypeOK == /\ lines \subseteq Line
          /\ version \in Nat \ {0}
          /\ rec \in [Products -> Row]
          /\ req \in [Requests -> Request]
          /\ failures \in Nat

Init == /\ lines = {}
        /\ version = 1
        /\ rec = [p \in Products |-> NoRow]
        /\ req = [r \in Requests |-> Idle]
        /\ failures = 0

InQuote == {l.product : l \in lines}

WithStatus(s) == {p \in Products : rec[p].status \in s}

Locked(r) == req[r].gone \union req[r].put

Free(r, p) == \A other \in Requests \ {r} : p \notin Locked(other)

-----------------------------------------------------------------------------
(* The builder: a line added or removed under the quotation's version. The *)
(* mark of a removed line is cleared by its foreign key (SET NULL).        *)

AddLine(p) == /\ lines' = lines \union {[at |-> version + 1, product |-> p]}
              /\ version' = version + 1

EditLines == /\ version < MaxVersion
             /\ \/ /\ \E p \in Products : AddLine(p)
                   /\ UNCHANGED rec
                \/ \E l \in lines :
                     /\ lines' = lines \ {l}
                     /\ version' = version + 1
                     /\ rec' = [p \in Products |->
                                  IF rec[p].line = l.at
                                  THEN [rec[p] EXCEPT !.line = NoLine] ELSE rec[p]]
             /\ UNCHANGED <<req, failures>>

-----------------------------------------------------------------------------
(* Generate: the lines are read first, the decisions in a later statement; *)
(* stock, margins and promotions pick any of the candidates that are left. *)

GetScoringContext(r) ==
    /\ req[r].at = "idle"
    /\ req' = [req EXCEPT ![r] = [Idle EXCEPT !.at = "context", !.anchors = InQuote]]
    /\ UNCHANGED <<lines, version, rec, failures>>

(* Fault: the lines of the quotation are not excluded.                     *)
CandidatesInQuote(r) == Products \ WithStatus(Decided)

(* Neither in the quotation nor decided before.                            *)
Candidates(r) == Products \ (req[r].anchors \union WithStatus(Decided))

Score(r) ==
    /\ req[r].at = "context"
    /\ \E rows \in SUBSET Candidates(r) :
          /\ Cardinality(rows) <= TopK
          /\ req' = [req EXCEPT ![r].at = "scored", ![r].rows = rows]
    /\ UNCHANGED <<lines, version, rec, failures>>

(* Fault: everything the generation does not offer is deleted.             *)
StaleOfAnyStatus(r) == {p \in Products : rec[p].status # "NONE"} \ req[r].rows

(* The offers this generation dropped; rows another transaction holds are  *)
(* waited for, rows it has inserted are not seen.                          *)
Stale(r) == WithStatus({"PENDING"}) \ req[r].rows

DeleteStale(r) ==
    /\ req[r].at = "scored"
    /\ \A p \in Stale(r) : Free(r, p)
    /\ req' = [req EXCEPT ![r].at = "saving", ![r].gone = Stale(r)]
    /\ UNCHANGED <<lines, version, rec, failures>>

Upsert(r) ==
    /\ req[r].at = "saving"
    /\ \E p \in req[r].rows \ req[r].put :
          /\ Free(r, p)
          /\ req' = [req EXCEPT ![r].put = @ \union {p}]
    /\ UNCHANGED <<lines, version, rec, failures>>

(* Fault: the update writes the status as the insertion does.              *)
SavedAsNew(row) == [row EXCEPT !.status = "PENDING"]

(* An update leaves the status alone, so that a decision made after the    *)
(* decisions were read survives.                                           *)
Saved(row) == IF row.status = "NONE" THEN [NoRow EXCEPT !.status = "PENDING"] ELSE row

SaveGenerated(r) ==
    /\ req[r].at = "saving" /\ req[r].put = req[r].rows
    /\ rec' = [p \in Products |-> IF p \in req[r].put THEN Saved(rec[p])
                                  ELSE IF p \in req[r].gone THEN NoRow ELSE rec[p]]
    /\ req' = [q \in Requests |->
                 IF q = r THEN Idle
                 ELSE [req[q] EXCEPT !.same = @ /\ req[q].product \notin req[r].gone]]
    /\ UNCHANGED <<lines, version, failures>>

-----------------------------------------------------------------------------
(* Add to quote.  The client sends a version it was shown.                 *)

(* The row a request read, by id, still exists and is free to be written.  *)
Writable(r) == req[r].same /\ Free(r, req[r].product)

GetForActor(r, p, e, phase) ==
    /\ req[r].at = "idle"
    /\ rec[p].status = "PENDING"
    /\ req' = [req EXCEPT ![r] = [Idle EXCEPT !.at = phase, !.product = p,
                                              !.expected = e, !.same = TRUE]]
    /\ UNCHANGED <<lines, version, rec, failures>>

AddToQuote(r) ==
    /\ req[r].at = "add"
    /\ req[r].expected = version /\ version < MaxVersion
    /\ AddLine(req[r].product)
    /\ req' = [req EXCEPT ![r].at = "mark", ![r].line = version + 1]
    /\ UNCHANGED <<rec, failures>>

(* Fault: the last line is taken when the mark is written.                 *)
MarkAddedLast(r) ==
    /\ req[r].at = "mark" /\ Writable(r) /\ lines # {}
    /\ rec' = [rec EXCEPT ![req[r].product] =
                 [status |-> "ADDED", line |-> Max({l.at : l \in lines})]]
    /\ req' = [req EXCEPT ![r] = Idle]
    /\ UNCHANGED <<lines, version, failures>>

(* The mark refers to the line by a foreign key: it fails when the line    *)
(* was removed in the meantime.  The status is not looked at again.        *)
MarkAdded(r) ==
    /\ req[r].at = "mark" /\ Writable(r)
    /\ [at |-> req[r].line, product |-> req[r].product] \in lines
    /\ rec' = [rec EXCEPT ![req[r].product] = [status |-> "ADDED", line |-> req[r].line]]
    /\ req' = [req EXCEPT ![r] = Idle]
    /\ UNCHANGED <<lines, version, failures>>

MarkDismissed(r) ==
    /\ req[r].at = "dismiss" /\ Writable(r)
    /\ rec' = [rec EXCEPT ![req[r].product].status = "DISMISSED"]
    /\ req' = [req EXCEPT ![r] = Idle]
    /\ UNCHANGED <<lines, version, failures>>

-----------------------------------------------------------------------------
(* What ends a request without its effect: a stale version, a row or line  *)
(* that is gone, a wait for a row that waits for this request.             *)

WaitsFor(r) ==
    CASE req[r].at = "scored" -> Stale(r)
      [] req[r].at = "saving" -> req[r].rows \ req[r].put
      [] OTHER -> {}

Deadlocked(r) == \E q \in Requests \ {r} : /\ WaitsFor(r) \intersect Locked(q) # {}
                                           /\ WaitsFor(q) \intersect Locked(r) # {}

Doomed(r) ==
    \/ req[r].at = "add" /\ (req[r].expected # version \/ version = MaxVersion)
    \/ req[r].at \in {"mark", "dismiss"} /\ ~req[r].same
    \/ req[r].at = "mark" /\ [at |-> req[r].line, product |-> req[r].product] \notin lines
    \/ Deadlocked(r)

Refuse(r) == /\ Doomed(r)
             /\ req' = [req EXCEPT ![r] = Idle]
             /\ UNCHANGED <<lines, version, rec, failures>>

Abort(r) == /\ req[r].at # "idle" /\ failures < MaxFailures
            /\ req' = [req EXCEPT ![r] = Idle]
            /\ failures' = failures + 1
            /\ UNCHANGED <<lines, version, rec>>

Press(r) == \E p \in Products, e \in 1 .. version :
                \/ GetForActor(r, p, e, "add")
                \/ GetForActor(r, p, 0, "dismiss")

Serve(r) == Score(r) \/ DeleteStale(r) \/ Upsert(r) \/ SaveGenerated(r)
            \/ AddToQuote(r) \/ MarkAdded(r) \/ MarkDismissed(r) \/ Refuse(r)

Next == \/ EditLines
        \/ \E r \in Requests : GetScoringContext(r) \/ Press(r) \/ Serve(r) \/ Abort(r)

Spec == Init /\ [][Next]_vars

(* The server executes what it has begun.  Nothing regenerates by itself.  *)
Fairness == \A r \in Requests : WF_vars(Serve(r))

-----------------------------------------------------------------------------
(* A decision of the rep stays a decision, whatever generations read and   *)
(* save around it (the sticky decisions of saveGenerated): its product is  *)
(* never offered again.                                                    *)
DecisionsAreKept ==
    [][\A p \in Products : rec[p].status \in Decided => rec'[p].status \in Decided]_vars

(* The line a recommendation is marked with is a line of the quotation,    *)
(* and of the recommended product (addToQuote, line 181: the last line of  *)
(* the answer is the line just added).                                     *)
MarksTheirOwnLine ==
    \A p \in Products :
        rec[p].line # NoLine => [at |-> rec[p].line, product |-> p] \in lines

HalfAdded(p) == rec[p].status = "PENDING" /\ p \in InQuote

(* A recommendation may stay on offer although its product is in the       *)
(* quotation, because the mark failed after the line was added or because  *)
(* it was added by hand (recommendation-service.ts, lines 172 to 183).     *)
(* The next generation that starts takes it off, whatever older ones and   *)
(* decisions do beside it, unless that request itself fails.  The pane     *)
(* asks for one when it is opened; until then the offer stays.             *)
HalfAddedIsCleared ==
    \A p \in Products, f \in 0 .. MaxFailures :
        (HalfAdded(p) /\ failures = f
            /\ \E r \in Requests : req[r].at = "context" /\ p \in req[r].anchors)
        ~> (~HalfAdded(p) \/ failures > f \/ \E r \in Requests : Deadlocked(r))
=============================================================================
