---------------------------- MODULE Office_proofs ---------------------------
(***************************************************************************)
(* What staff and customers do beside the quotations stays consistent, for *)
(* any number of them at once:                                             *)
(*   a decision on a recommendation is kept, because what a generation     *)
(*     deletes was PENDING when it took the row's lock;                    *)
(*   a tier or category has one active ceiling, because a statement checks *)
(*     the index against what is committed and what others have written,   *)
(*     and whoever commits first leaves the others' writes as checked;     *)
(*   the steps of the approval rule are one save's, because a deletion     *)
(*     takes all the steps that there are or none of them;                 *)
(*   the variants of a product are one save's unless saves overlapped,     *)
(*     because whoever comes between two of its statements is seen;        *)
(*   the sign-in form turns nobody away for good, because a token that was *)
(*     just granted is new to every tab.                                   *)
(***************************************************************************)
EXTENDS MCOffice, FiniteSetTheorems, TLAPS

(* Recommendations.                                                        *)
LockInv ==
    /\ \A r \in Requests : req[r].at # "saving" => Locked(r) = {}
    /\ \A r \in Requests : \A p \in req[r].gone : rec[p].status = "PENDING"
    /\ \A r, q \in Requests : r # q => Locked(r) \intersect Locked(q) = {}

RecInv == TypeOK /\ LockInv /\ MarksTheirOwnLine

LEMMA IdleType == Idle \in Request /\ NoRow \in Row
BY RecommendationAssumption
   DEF Idle, Request, RecommendationAssumption, Phases, NoLine, NoRow, Row, Statuses

LEMMA IdleFields == Idle.at = "idle" /\ Idle.gone = {} /\ Idle.put = {}
BY DEF Idle

Kin(q) == {c \in Request : c.gone = q.gone /\ c.put = q.put}

(* What a step makes of a request is one, with the locks it had.           *)
LEMMA RowsUpdate ==
    \A q \in Request, at \in Phases, rows \in SUBSET Products :
        /\ [q EXCEPT !.at = at, !.anchors = rows] \in Kin(q)
        /\ [q EXCEPT !.at = at, !.rows = rows] \in Kin(q)
        /\ [q EXCEPT !.at = at, !.gone = rows] \in Request
BY DEF Request, Kin

LEMMA LineUpdate ==
    \A q \in Request, at \in Phases, n \in Nat :
        [q EXCEPT !.at = at, !.line = n] \in Kin(q)
BY DEF Request, Kin

LEMMA ActUpdate ==
    \A q \in Request, at \in Phases, p \in Products, n \in Nat :
        [q EXCEPT !.at = at, !.product = p, !.expected = n, !.same = TRUE] \in Kin(q)
<1> TAKE q \in Request, at \in Phases, p \in Products, n \in Nat
<1> DEFINE c == [q EXCEPT !.at = at, !.product = p, !.expected = n, !.same = TRUE]
<1>1. c \in Request
  BY Zenon DEF Request
<1>2. c.gone = q.gone /\ c.put = q.put
  BY Zenon DEF Request
<1> QED
  BY <1>1, <1>2 DEF Kin

LEMMA RecInit == Init => RecInv
<1> SUFFICES ASSUME Init PROVE RecInv
  OBVIOUS
<1>1. TypeOK
  BY IdleType DEF Init, TypeOK
<1>2. LockInv
  BY DEF Init, LockInv, Locked, Idle
<1>3. MarksTheirOwnLine
  BY DEF Init, MarksTheirOwnLine, NoRow
<1> QED
  BY <1>1, <1>2, <1>3 DEF RecInv

(* A step that touches one request, takes no lock and writes no row.       *)
LEMMA QuietStep ==
    ASSUME RecInv, NEW r \in Requests, NEW new \in Request,
           new.gone = {} /\ new.put = {},
           req' = [req EXCEPT ![r] = new], rec' = rec
    PROVE  LockInv'
BY DEF RecInv, TypeOK, LockInv, Locked, Request

LEMMA EditKeeps == ASSUME RecInv, EditLines PROVE RecInv'
<1> USE DEF RecInv
<1>1. TypeOK'
  BY DEF EditLines, AddLine, TypeOK, Line, Row, NoLine
<1>2. \A p \in Products : rec'[p].status = rec[p].status
  BY DEF EditLines, TypeOK, Row
<1>3. LockInv'
  BY <1>2 DEF EditLines, LockInv, Locked, TypeOK, Request
<1>4. MarksTheirOwnLine'
  BY DEF EditLines, AddLine, MarksTheirOwnLine, TypeOK, Line, Row, NoLine
<1> QED
  BY <1>1, <1>3, <1>4

(* Rows change only where the writer is free to write, or holds the lock.  *)
LEMMA DecisionKeeps ==
    ASSUME RecInv, NEW r \in Requests, MarkAdded(r) \/ MarkDismissed(r)
    PROVE  RecInv'
<1> DEFINE product == req[r].product
<1> USE DEF RecInv
<1>1. TypeOK' /\ req' = [req EXCEPT ![r] = Idle]
  <2>1. req[r].line \in Nat /\ product \in Products
    BY DEF TypeOK, Request
  <2>2. rec' \in [Products -> Row]
    <3>1. [status |-> "ADDED", line |-> req[r].line] \in Row
      BY <2>1 DEF Row, Statuses
    <3>2. [rec[product] EXCEPT !.status = "DISMISSED"] \in Row
      BY <2>1 DEF TypeOK, Row, Statuses
    <3> QED
      BY <2>1, <3>1, <3>2 DEF MarkAdded, MarkDismissed, TypeOK
  <2>3. req' = [req EXCEPT ![r] = Idle]
    BY DEF MarkAdded, MarkDismissed
  <2> QED
    BY <2>2, <2>3, IdleType DEF MarkAdded, MarkDismissed, TypeOK
<1>2. \A p \in Products : p # product => rec'[p] = rec[p]
  BY DEF MarkAdded, MarkDismissed, TypeOK, Request
<1>3. \A q \in Requests : q # r => product \notin Locked(q)
  BY DEF MarkAdded, MarkDismissed, Writable, Free
<1>4. LockInv'
  BY <1>1, <1>2, <1>3, IdleType DEF LockInv, Locked, TypeOK, Request, Idle
<1>5. MarksTheirOwnLine'
  <2>1. product \in Products
    BY DEF TypeOK, Request
  <2>2. rec'[product].line # NoLine => [at |-> rec'[product].line, product |-> product] \in lines
    BY <2>1 DEF MarksTheirOwnLine, MarkAdded, MarkDismissed, TypeOK, Row
  <2> QED
    BY <1>2, <2>2 DEF MarksTheirOwnLine, MarkAdded, MarkDismissed
<1> QED
  BY <1>1, <1>4, <1>5

LEMMA SaveKeeps ==
    ASSUME RecInv, NEW r \in Requests, SaveGenerated(r)
    PROVE  RecInv'
<1> USE DEF RecInv
<1>1. \A p \in Products : Saved(rec[p]) \in Row
  BY DEF TypeOK, Saved, NoRow, Row, Statuses, NoLine
<1>2. TypeOK'
  <2>1. rec' \in [Products -> Row]
    BY <1>1, IdleType DEF SaveGenerated, TypeOK
  <2>2. \A q \in Requests :
           [req[q] EXCEPT !.same = @ /\ req[q].product \notin req[r].gone] \in Request
    BY Zenon DEF TypeOK, Request
  <2>3. req' \in [Requests -> Request]
    BY <2>2, IdleType DEF SaveGenerated, TypeOK
  <2> QED
    BY <2>1, <2>3 DEF SaveGenerated, TypeOK
<1>3. /\ req'[r] = Idle
      /\ \A q \in Requests : q # r => /\ req'[q].at = req[q].at
                                      /\ req'[q].gone = req[q].gone
                                      /\ req'[q].put = req[q].put
  BY DEF SaveGenerated, TypeOK, Request
<1>4. \A p \in Products : p \notin Locked(r) => rec'[p] = rec[p]
  BY DEF SaveGenerated, Locked
<1>5. \A q \in Requests : \A p \in req'[q].gone : p \in Products
  BY <1>2 DEF TypeOK, Request
<1>6. LockInv'
  <2>1. Locked(r)' = {}
    BY <1>3 DEF Locked, Idle
  <2>2. \A q \in Requests : q # r => Locked(q)' = Locked(q)
    BY <1>3 DEF Locked
  <2>3. ASSUME NEW q \in Requests, NEW p \in req'[q].gone PROVE rec'[p].status = "PENDING"
    BY <1>3, <1>4, <1>5, <2>1 DEF LockInv, Locked
  <2> QED
    BY <1>3, <2>1, <2>2, <2>3 DEF LockInv
<1>7. MarksTheirOwnLine'
  BY DEF SaveGenerated, MarksTheirOwnLine, Saved, NoRow, NoLine, TypeOK, Row
<1> QED
  BY <1>2, <1>6, <1>7

(* Steps that leave rows and lines as they are.                            *)
LEMMA ReadKeeps ==
    ASSUME RecInv, NEW r \in Requests,
           \/ GetScoringContext(r) \/ Press(r) \/ Score(r)
           \/ AddToQuote(r) \/ Refuse(r) \/ Abort(r)
    PROVE  RecInv'
<1> USE DEF RecInv
<1>1. PICK new : req' = [req EXCEPT ![r] = new] /\ new \in Request
                   /\ new.gone = {} /\ new.put = {}
  <2>1. CASE GetScoringContext(r)
    <3>1. InQuote \in SUBSET Products
      BY DEF TypeOK, Line, InQuote
    <3>2. [Idle EXCEPT !.at = "context", !.anchors = InQuote] \in Kin(Idle)
      <4>1. "context" \in Phases
        BY DEF Phases
      <4> QED
        BY <3>1, <4>1, IdleType, RowsUpdate, Zenon
    <3> QED
      BY <2>1, <3>2, IdleFields DEF GetScoringContext, Kin
  <2>2. CASE Press(r)
    <3>1. PICK p \in Products, e \in Nat, phase \in Phases : GetForActor(r, p, e, phase)
      BY <2>2 DEF Press, TypeOK, Phases
    <3>2. [Idle EXCEPT !.at = phase, !.product = p, !.expected = e, !.same = TRUE] \in Kin(Idle)
      BY IdleType, ActUpdate, Zenon
    <3> QED
      BY <3>1, <3>2, IdleFields DEF GetForActor, Kin
  <2>3. CASE Score(r)
    <3>1. PICK rows \in SUBSET Products :
             req' = [req EXCEPT ![r] = [req[r] EXCEPT !.at = "scored", !.rows = rows]]
      BY <2>3 DEF Score, Candidates, TypeOK
    <3>2. req[r].gone = {} /\ req[r].put = {} /\ req[r] \in Request
      BY <2>3 DEF Score, LockInv, Locked, TypeOK
    <3>3. [req[r] EXCEPT !.at = "scored", !.rows = rows] \in Kin(req[r])
      <4>1. "scored" \in Phases
        BY DEF Phases
      <4> QED
        BY <3>2, <4>1, RowsUpdate, Zenon
    <3> QED
      BY <3>1, <3>2, <3>3 DEF Kin
  <2>4. CASE AddToQuote(r)
    <3>1. req' = [req EXCEPT ![r] = [req[r] EXCEPT !.at = "mark", !.line = version + 1]]
      BY <2>4 DEF AddToQuote, TypeOK
    <3>2. req[r].gone = {} /\ req[r].put = {} /\ req[r] \in Request /\ version + 1 \in Nat
      BY <2>4 DEF AddToQuote, LockInv, Locked, TypeOK
    <3>3. [req[r] EXCEPT !.at = "mark", !.line = version + 1] \in Kin(req[r])
      <4>1. "mark" \in Phases
        BY DEF Phases
      <4> QED
        BY <3>2, <4>1, LineUpdate, Zenon
    <3> QED
      BY <3>1, <3>2, <3>3 DEF Kin
  <2>5. CASE Refuse(r) \/ Abort(r)
    BY <2>5, IdleType, IdleFields DEF Refuse, Abort
  <2> QED
    BY <2>1, <2>2, <2>3, <2>4, <2>5
<1>2. rec' = rec
  BY DEF GetScoringContext, Press, GetForActor, Score, AddToQuote, Refuse, Abort
<1>3. /\ version' \in Nat \ {0} /\ failures' \in Nat
      /\ lines \subseteq lines' /\ lines' \subseteq Line
  <2>1. CASE AddToQuote(r)
    <3>1. req[r].product \in Products
      BY DEF TypeOK, Request
    <3> QED
      BY <2>1, <3>1 DEF AddToQuote, AddLine, TypeOK, Line
  <2>2. CASE ~AddToQuote(r)
    <3>1. lines' = lines /\ version' = version
          /\ (failures' = failures \/ failures' = failures + 1)
      BY <2>2, Zenon DEF GetScoringContext, Press, GetForActor, Score, Refuse, Abort
    <3> QED
      BY <3>1 DEF TypeOK
  <2> QED
    BY <2>1, <2>2
<1>4. TypeOK'
  BY <1>1, <1>2, <1>3 DEF TypeOK
<1>5. LockInv'
  BY <1>1, <1>2, QuietStep
<1>6. MarksTheirOwnLine'
  BY <1>2, <1>3 DEF MarksTheirOwnLine
<1> QED
  BY <1>4, <1>5, <1>6

(* A lock is taken only of rows that are free.                             *)
LEMMA LockKeeps ==
    ASSUME RecInv, NEW r \in Requests, DeleteStale(r) \/ Upsert(r)
    PROVE  RecInv'
<1> USE DEF RecInv
<1>1. MarksTheirOwnLine'
  BY DEF DeleteStale, Upsert, MarksTheirOwnLine
<1>2. CASE DeleteStale(r)
  <2>1. /\ Stale(r) \subseteq Products
        /\ \A p \in Stale(r) : Free(r, p) /\ rec[p].status = "PENDING"
    BY <1>2 DEF DeleteStale, Stale, WithStatus
  <2>2. TypeOK'
    <3>1. req' = [req EXCEPT ![r] = [req[r] EXCEPT !.at = "saving", !.gone = Stale(r)]]
      BY <1>2 DEF DeleteStale, TypeOK
    <3>2. [req[r] EXCEPT !.at = "saving", !.gone = Stale(r)] \in Request
      BY <2>1, RowsUpdate DEF TypeOK, Phases
    <3> QED
      BY <1>2, <3>1, <3>2 DEF DeleteStale, TypeOK
  <2>3. /\ req'[r].gone = Stale(r) /\ req'[r].put = {} /\ req'[r].at = "saving"
        /\ \A q \in Requests : q # r => req'[q] = req[q]
        /\ rec' = rec
    BY <1>2 DEF DeleteStale, LockInv, Locked, TypeOK, Request
  <2>4. LockInv'
    BY <2>1, <2>3 DEF LockInv, Locked, Free
  <2> QED
    BY <1>1, <2>2, <2>4
<1>3. CASE Upsert(r)
  <2>1. PICK p \in req[r].rows \ req[r].put :
           Free(r, p) /\ req' = [req EXCEPT ![r].put = @ \union {p}]
    BY <1>3 DEF Upsert
  <2>2. TypeOK'
    BY <1>3, <2>1 DEF Upsert, TypeOK, Request
  <2>3. /\ req'[r].gone = req[r].gone /\ req'[r].put = req[r].put \union {p}
        /\ req'[r].at = "saving"
        /\ \A q \in Requests : q # r => req'[q] = req[q]
        /\ rec' = rec
    BY <1>3, <2>1 DEF Upsert, TypeOK, Request
  <2>4. LockInv'
    BY <2>1, <2>3 DEF LockInv, Locked, Free
  <2> QED
    BY <1>1, <2>2, <2>4
<1> QED
  BY <1>2, <1>3

LEMMA StepKeeps == RecInv /\ [Next]_vars => RecInv'
<1>1. ASSUME RecInv, UNCHANGED vars PROVE RecInv'
  BY <1>1 DEF vars, RecInv, TypeOK, LockInv, Locked, MarksTheirOwnLine
<1> QED
  BY <1>1, EditKeeps, ReadKeeps, LockKeeps, SaveKeeps, DecisionKeeps DEF Next, Serve

LEMMA RecAlways == Spec => []RecInv
BY RecInit, StepKeeps, PTL DEF Spec

(* Rows and requests keep their types, whatever is in flight (the columns  *)
(* of Recommendation).                                                     *)
THEOREM RecommendationTypeCorrect == Spec => []TypeOK
BY RecAlways, PTL DEF RecInv

(* Marks point at lines of the quotation, of the product they recommend    *)
(* (addToQuote).                                                           *)
THEOREM MarksAreRight == Spec => []MarksTheirOwnLine
BY RecAlways, PTL DEF RecInv

(* A product that was added or dismissed is never offered again, whatever  *)
(* generations read and save around it (saveGenerated).                    *)
THEOREM DecisionsKept == Spec => DecisionsAreKept
<1>1. ASSUME RecInv, [Next]_vars, NEW p \in Products, rec[p].status \in Decided
      PROVE  rec'[p].status \in Decided
  <2>1. CASE \E r \in Requests : SaveGenerated(r)
    <3>1. PICK r \in Requests : SaveGenerated(r)
      BY <2>1
    <3>2. p \notin req[r].gone
      BY <1>1 DEF RecInv, LockInv, Decided
    <3>3. Saved(rec[p]) = rec[p]
      BY <1>1 DEF Saved, Decided
    <3> QED
      BY <1>1, <3>1, <3>2, <3>3 DEF SaveGenerated
  <2>2. CASE EditLines
    BY <1>1, <2>2 DEF EditLines, RecInv, TypeOK, Row
  <2>3. CASE \E r \in Requests : MarkAdded(r) \/ MarkDismissed(r)
    BY <1>1, <2>3 DEF MarkAdded, MarkDismissed, RecInv, TypeOK, Row, Decided
  <2>4. ASSUME rec' = rec PROVE rec'[p].status \in Decided
    BY <1>1, <2>4
  <2> QED
    BY <1>1, <2>1, <2>2, <2>3, <2>4
    DEF Next, Serve, vars, GetScoringContext, Press, GetForActor, Score, DeleteStale,
        Upsert, AddToQuote, Refuse, Abort
<1>2. RecInv /\ [Next]_vars
        => [\A p \in Products : rec[p].status \in Decided => rec'[p].status \in Decided]_vars
  BY <1>1
<1> QED
  BY RecAlways, <1>2, PTL DEF Spec, DecisionsAreKept

-----------------------------------------------------------------------------
(* A behaviour of the office is one of each of its parts.                  *)
LEMMA OfficeIsAll ==
    OfficeSpec => Spec /\ Governance!Spec /\ Prices!Spec /\ Entrance!Spec
<1>1. OfficeInit => Init /\ Governance!Init /\ Prices!Init /\ Entrance!Init
  BY DEF OfficeInit
<1>2. [OfficeNext]_<<part, vars, ruleVars, priceVars, accessVars>> =>
        /\ [Next]_vars /\ [Governance!Next]_ruleVars
        /\ [Prices!Next]_priceVars /\ [Entrance!Next]_accessVars
  BY DEF OfficeNext
<1> QED
  BY <1>1, <1>2, PTL
     DEF OfficeSpec, Spec, Governance!Spec, Prices!Spec, Entrance!Spec,
         ruleVars, Governance!vars, priceVars, Prices!vars, accessVars, Entrance!vars

-----------------------------------------------------------------------------
(* Discount rules and the approval rule.                                   *)

(* A rule about to be inserted is nobody else's.                           *)
InsertsAreNew ==
    \A r \in Requests : Governance!At(r, {"insert"}) =>
        /\ ~rule[txn[r].id].exists
        /\ \A o \in Governance!Others(r) : Governance!At(o, {"insert", "written"}) => txn[o].id # txn[r].id

(* What is written fits what is committed, and what others have written.   *)
WritesFit ==
    \A r \in Requests : Governance!At(r, {"written"}) =>
        /\ ~Governance!Conflicts(txn[r].row, txn[r].id)
        /\ Governance!Free(r, txn[r].row, txn[r].id)

(* It keeps the fields that the request does not name.                     *)
WritesKeep ==
    \A r \in Requests :
        Governance!At(r, {"written"}) /\ txn[r].row.exists /\ rule[txn[r].id].exists =>
            \A f \in Governance!Fields \ txn[r].sets : txn[r].row[f] = rule[txn[r].id][f]

RulesInv == Governance!OneActiveCeiling /\ InsertsAreNew /\ WritesFit /\ WritesKeep

-----------------------------------------------------------------------------
(* Types.                                                                  *)

StoredRule == [exists : {TRUE}, target : Targets, ceiling : Ceilings, active : BOOLEAN]

LEMMA RuleFields ==
    ASSUME NEW row \in Governance!Rule
    PROVE  /\ row.active \in BOOLEAN
           /\ row.exists => row \in StoredRule
           /\ Ceilings # {} => row.ceiling \in Ceilings
<1>1. CASE row = Governance!NoRule
  <2>1. ~row.exists /\ row.active \in BOOLEAN /\ row.ceiling = CHOOSE c \in Ceilings : TRUE
    BY <1>1 DEF Governance!NoRule
  <2>2. Ceilings # {} => (CHOOSE c \in Ceilings : TRUE) \in Ceilings
    OBVIOUS
  <2> QED
    BY <2>1, <2>2
<1>2. CASE row \in StoredRule
  BY <1>2 DEF StoredRule
<1> QED
  BY <1>1, <1>2 DEF Governance!Rule, StoredRule

LEMMA IdleRule == ASSUME DiscountRules # {} PROVE Governance!Idle \in Governance!Transaction /\ Governance!Idle.pc = "idle"
<1>1. Governance!NoRule \in Governance!Rule
  BY DEF Governance!Rule
<1> QED
  BY <1>1 DEF Governance!Idle, Governance!Transaction, Governance!Fields

LEMMA NewRule ==
    \A t \in Targets, c \in Ceilings, a \in BOOLEAN :
        [exists |-> TRUE, target |-> t, ceiling |-> c, active |-> a] \in Governance!Rule
BY DEF Governance!Rule

(* What an update makes of a rule is a rule, with the other fields as they were. *)
LEMMA AppliedType ==
    ASSUME Governance!TypeOK, NEW r \in Requests, rule[txn[r].id].exists
    PROVE  /\ Governance!Applied(r) \in Governance!Rule /\ Governance!Applied(r).exists
           /\ \A f \in Governance!Fields \ txn[r].sets : Governance!Applied(r)[f] = rule[txn[r].id][f]
<1>1. PICK old \in Governance!Rule : old = rule[txn[r].id]
  BY DEF Governance!TypeOK, Governance!Transaction
<1>2. txn[r].row \in Governance!Rule
  BY DEF Governance!TypeOK, Governance!Transaction
<1>3. old.ceiling \in Ceilings /\ old.active \in BOOLEAN
  BY <1>1, RuleFields DEF StoredRule
<1>4. PICK c \in Ceilings : c = IF "ceiling" \in txn[r].sets THEN txn[r].row.ceiling
                                                           ELSE old.ceiling
  BY <1>2, <1>3, RuleFields
<1>5. PICK a \in BOOLEAN : a = IF "active" \in txn[r].sets THEN txn[r].row.active
                                                          ELSE old.active
  BY <1>2, <1>3, RuleFields
<1>6. Governance!Applied(r) = [old EXCEPT !.ceiling = c, !.active = a]
  BY <1>1, <1>4, <1>5 DEF Governance!Applied
<1>7. old \in StoredRule
  BY <1>1, RuleFields
<1>8. PICK new : new = [old EXCEPT !.ceiling = c, !.active = a]
  OBVIOUS
<1>9. new \in StoredRule /\ new.ceiling = c /\ new.active = a
  BY <1>7, <1>8 DEF StoredRule
<1>10. new \in Governance!Rule /\ new.exists
  BY <1>9 DEF Governance!Rule, StoredRule
<1>11. new = Governance!Applied(r)
  BY <1>6, <1>8
<1>12. ASSUME NEW f \in Governance!Fields \ txn[r].sets PROVE new[f] = old[f]
  <2>1. CASE f = "ceiling"
    BY <1>4, <1>9, <2>1
  <2>2. CASE f = "active"
    BY <1>5, <1>9, <2>2
  <2> QED
    BY <2>1, <2>2 DEF Governance!Fields
<1> QED
  BY <1>1, <1>10, <1>11, <1>12

-----------------------------------------------------------------------------
(* What a step makes of its transaction.                                   *)

Pcs == {"idle", "insert", "update", "drop", "written"} \union Governance!PolicyPhases

LEMMA NewTransaction ==
    ASSUME NEW pc \in Pcs, NEW i \in DiscountRules, NEW row \in Governance!Rule, NEW F \in SUBSET Governance!Fields,
           NEW S \in SUBSET Governance!Step, NEW P \in SUBSET Governance!Step, NEW d \in BOOLEAN
    PROVE  [pc |-> pc, id |-> i, row |-> row, sets |-> F, seen |-> S, put |-> P,
            drop |-> d] \in Governance!Transaction
BY DEF Governance!Transaction, Pcs

(* The step of a transaction that writes or begins no insertion.           *)
Quiet(r, t) == /\ t.pc \notin {"insert", "written"}
               /\ rule' = rule

NewInsert(r, t) ==
    /\ t.pc = "insert" /\ rule' = rule
    /\ ~rule[t.id].exists
    /\ \A o \in Governance!Others(r) : txn[o].id # t.id \/ Governance!At(o, {"idle"})

(* A statement writes a row that fits what is committed and written.       *)
Writes(r, t) ==
    /\ Governance!At(r, {"insert", "update", "drop"})
    /\ t.pc = "written" /\ rule' = rule
    /\ t.id = txn[r].id
    /\ ~Governance!Conflicts(t.row, t.id) /\ Governance!Free(r, t.row, t.id)
    /\ Governance!At(r, {"insert"}) \/ rule[t.id].exists
    /\ t.row.exists /\ rule[t.id].exists =>
          \/ Governance!At(r, {"insert"})
          \/ \A f \in Governance!Fields \ t.sets : t.row[f] = rule[t.id][f]

Commits(r, t) ==
    /\ Governance!At(r, {"written"}) /\ t.pc = "idle"
    /\ rule' = [rule EXCEPT ![txn[r].id] = txn[r].row]

Kinds(r, t) == Quiet(r, t) \/ NewInsert(r, t) \/ Writes(r, t) \/ Commits(r, t)

(* Every step gives one transaction its next state, in one of these ways.  *)
LEMMA StepKinds ==
    ASSUME Governance!TypeOK, DiscountRules # {}, Governance!Next
    PROVE  \E r \in Requests : \E t \in Governance!Transaction :
              txn' = [txn EXCEPT ![r] = t] /\ Kinds(r, t)
<1>1. PICK r \in Requests :
        \/ Governance!Create(r) \/ Governance!Insert(r) \/ Governance!Update(r) \/ Governance!WriteUpdate(r)
        \/ Governance!Delete(r) \/ Governance!WriteDelete(r) \/ Governance!Commit(r)
        \/ Governance!CreatePolicy(r) \/ Governance!UpdatePolicy(r) \/ Governance!DeleteSteps(r)
        \/ Governance!WritePolicy(r) \/ Governance!CommitPolicy(r) \/ Governance!Rollback(r)
  BY DEF Governance!Next
<1>2. txn[r] \in Governance!Transaction /\ Governance!Idle \in Governance!Transaction /\ Governance!Idle.pc = "idle"
  BY IdleRule DEF Governance!TypeOK
<1>3. SUFFICES \E t \in Governance!Transaction : txn' = [txn EXCEPT ![r] = t] /\ Kinds(r, t)
  OBVIOUS
<1>4. CASE Governance!Create(r)
  <2> DEFINE New(u, c, a) == [exists |-> TRUE, target |-> u, ceiling |-> c, active |-> a]
  <2>0. PICK i \in DiscountRules, u \in Targets, c \in Ceilings, a \in BOOLEAN :
          /\ ~rule[i].exists /\ \A o \in Governance!Others(r) : txn[o].id # i \/ Governance!At(o, {"idle"})
          /\ Governance!Begin(r, [Governance!Idle EXCEPT !.pc = "insert", !.id = i, !.row = New(u, c, a)])
    BY <1>4 DEF Governance!Create
  <2>1. PICK row \in Governance!Rule : row = New(u, c, a)
    BY NewRule
  <2>2. PICK t : /\ t = [Governance!Idle EXCEPT !.pc = "insert", !.id = i, !.row = row]
                 /\ txn' = [txn EXCEPT ![r] = t]
    BY <2>0, <2>1 DEF Governance!Begin
  <2>3. t = [pc |-> "insert", id |-> i, row |-> row, sets |-> {}, seen |-> {},
             put |-> {}, drop |-> FALSE]
    BY <2>2 DEF Governance!Idle
  <2>4. t \in Governance!Transaction
    BY <2>3, NewTransaction DEF Pcs
  <2> QED
    BY <1>4, <2>0, <2>1, <2>2, <2>3, <2>4 DEF Kinds, NewInsert, Governance!Create
<1>5. CASE Governance!Insert(r)
  <2>1. PICK t : t = [txn[r] EXCEPT !.pc = "written", !.row = txn[r].row]
    OBVIOUS
  <2>2. txn[r].row \in Governance!Rule
    BY <1>2 DEF Governance!Transaction
  <2>3. t \in Governance!Transaction /\ t.pc = "written" /\ t.row = txn[r].row /\ t.id = txn[r].id
    BY <1>2, <2>1, <2>2 DEF Governance!Transaction
  <2>4. txn' = [txn EXCEPT ![r] = t] /\ rule' = rule
    BY <1>5, <2>1 DEF Governance!Insert, Governance!Written
  <2> QED
    BY <1>5, <2>3, <2>4 DEF Governance!Insert, Kinds, Writes, Governance!At
<1>6. CASE Governance!WriteUpdate(r)
  <2>1. PICK t : t = [txn[r] EXCEPT !.pc = "written", !.row = Governance!Applied(r)]
    OBVIOUS
  <2>2. /\ Governance!Applied(r) \in Governance!Rule
        /\ \A f \in Governance!Fields \ txn[r].sets : Governance!Applied(r)[f] = rule[txn[r].id][f]
    BY <1>6, AppliedType DEF Governance!WriteUpdate
  <2>3. /\ t \in Governance!Transaction /\ t.pc = "written" /\ t.row = Governance!Applied(r)
        /\ t.id = txn[r].id /\ t.sets = txn[r].sets
    BY <1>2, <2>1, <2>2 DEF Governance!Transaction
  <2>4. txn' = [txn EXCEPT ![r] = t] /\ rule' = rule
    BY <1>6, <2>1 DEF Governance!WriteUpdate, Governance!Written
  <2>5. /\ Governance!At(r, {"update"}) /\ rule[t.id].exists
        /\ ~Governance!Conflicts(t.row, t.id) /\ Governance!Free(r, t.row, t.id)
    BY <1>6, <2>3 DEF Governance!WriteUpdate
  <2>6. Writes(r, t)
    <3>1. Governance!At(r, {"insert", "update", "drop"})
      BY <2>5 DEF Governance!At
    <3> QED
      BY <2>2, <2>3, <2>4, <2>5, <3>1 DEF Writes
  <2> QED
    BY <2>3, <2>4, <2>6 DEF Kinds
<1>7. CASE Governance!WriteDelete(r)
  <2>1. PICK t : t = [txn[r] EXCEPT !.pc = "written", !.row = Governance!NoRule]
    OBVIOUS
  <2>2. Governance!NoRule \in Governance!Rule /\ ~Governance!NoRule.exists /\ ~Governance!NoRule.active
    BY DEF Governance!Rule, Governance!NoRule
  <2>3. t \in Governance!Transaction /\ t.pc = "written" /\ t.row = Governance!NoRule /\ t.id = txn[r].id
    BY <1>2, <2>1, <2>2 DEF Governance!Transaction
  <2>4. txn' = [txn EXCEPT ![r] = t] /\ rule' = rule
    BY <1>7, <2>1 DEF Governance!WriteDelete, Governance!Written
  <2> QED
    BY <1>7, <2>2, <2>3, <2>4
       DEF Governance!WriteDelete, Kinds, Writes, Governance!At, Governance!Conflicts
<1>8. CASE Governance!Commit(r)
  BY <1>2, <1>8 DEF Governance!Commit, Kinds, Commits
<1>9. CASE Governance!Update(r)
  <2>0. PICK i \in DiscountRules, c \in Ceilings, a \in BOOLEAN, f \in SUBSET Governance!Fields :
          /\ rule[i].exists
          /\ Governance!Begin(r, [Governance!Idle EXCEPT !.pc = "update", !.id = i, !.sets = f,
               !.row = [rule[i] EXCEPT
                          !.active = IF "active" \in f THEN a ELSE rule[i].active,
                          !.ceiling = IF "ceiling" \in f THEN c ELSE rule[i].ceiling]])
    BY <1>9 DEF Governance!Update
  <2>1. PICK t :
          /\ rule[i].exists
          /\ t = [Governance!Idle EXCEPT !.pc = "update", !.id = i, !.sets = f,
                    !.row = [rule[i] EXCEPT
                               !.active = IF "active" \in f THEN a ELSE rule[i].active,
                               !.ceiling = IF "ceiling" \in f THEN c ELSE rule[i].ceiling]]
          /\ txn' = [txn EXCEPT ![r] = t]
    BY <2>0 DEF Governance!Begin
  <2>2. rule[i] \in StoredRule
    BY <2>1, RuleFields DEF Governance!TypeOK
  <2>3. PICK row : row = [rule[i] EXCEPT
                            !.active = IF "active" \in f THEN a ELSE rule[i].active,
                            !.ceiling = IF "ceiling" \in f THEN c ELSE rule[i].ceiling]
    OBVIOUS
  <2>4. row \in Governance!Rule
    BY <2>2, <2>3 DEF StoredRule, Governance!Rule
  <2>5. t = [pc |-> "update", id |-> i, row |-> row, sets |-> f, seen |-> {},
             put |-> {}, drop |-> FALSE]
    BY <2>1, <2>3 DEF Governance!Idle
  <2>6. t \in Governance!Transaction /\ t.pc = "update"
    BY <2>4, <2>5, NewTransaction DEF Pcs
  <2> QED
    BY <1>9, <2>1, <2>6 DEF Kinds, Quiet, Governance!Update
<1>10. CASE Governance!Delete(r)
  <2>0. PICK i \in DiscountRules :
          txn' = [txn EXCEPT ![r] = [Governance!Idle EXCEPT !.pc = "drop", !.id = i]]
    BY <1>10 DEF Governance!Delete, Governance!Begin
  <2>1. PICK t : /\ t = [Governance!Idle EXCEPT !.pc = "drop", !.id = i]
                 /\ txn' = [txn EXCEPT ![r] = t]
    BY <2>0
  <2>2. t \in Governance!Transaction /\ t.pc = "drop"
    BY <1>2, <2>1 DEF Governance!Transaction
  <2> QED
    BY <1>10, <2>1, <2>2 DEF Kinds, Quiet, Governance!Delete
<1>11. CASE Governance!CreatePolicy(r)
  <2>0. PICK n \in 0 .. 2 :
          txn' = [txn EXCEPT ![r] = [Governance!Idle EXCEPT !.pc = "created", !.put = Governance!NewSteps(n)]]
    BY <1>11 DEF Governance!CreatePolicy, Governance!Begin
  <2>1. PICK t : /\ t = [Governance!Idle EXCEPT !.pc = "created", !.put = Governance!NewSteps(n)]
                 /\ txn' = [txn EXCEPT ![r] = t]
    BY <2>0
  <2>2. Governance!NewSteps(n) \in SUBSET Governance!Step
    BY DEF Governance!NewSteps, Governance!Step, Governance!TypeOK
  <2>3. t \in Governance!Transaction /\ t.pc = "created"
    BY <1>2, <2>1, <2>2 DEF Governance!Transaction, Governance!PolicyPhases
  <2> QED
    BY <1>11, <2>1, <2>3 DEF Kinds, Quiet, Governance!CreatePolicy
<1>12. CASE Governance!UpdatePolicy(r)
  <2>0. PICK n \in 0 .. 2, drop \in BOOLEAN :
          txn' = [txn EXCEPT ![r] =
                    [Governance!Idle EXCEPT !.pc = "deleting", !.seen = steps,
                                 !.put = IF drop THEN {} ELSE Governance!NewSteps(n), !.drop = drop]]
    BY <1>12 DEF Governance!UpdatePolicy, Governance!Begin
  <2>1. PICK t :
          /\ t = [Governance!Idle EXCEPT !.pc = "deleting", !.seen = steps,
                              !.put = IF drop THEN {} ELSE Governance!NewSteps(n), !.drop = drop]
          /\ txn' = [txn EXCEPT ![r] = t]
    BY <2>0
  <2>2. Governance!NewSteps(n) \in SUBSET Governance!Step /\ steps \in SUBSET Governance!Step
    BY DEF Governance!NewSteps, Governance!Step, Governance!TypeOK
  <2>3. PICK P \in SUBSET Governance!Step : P = IF drop THEN {} ELSE Governance!NewSteps(n)
    BY <2>2
  <2>4. t = [pc |-> "deleting", id |-> Governance!Idle.id, row |-> Governance!Idle.row, sets |-> {},
             seen |-> steps, put |-> P, drop |-> drop]
    BY <2>1, <2>3 DEF Governance!Idle
  <2>5. Governance!Idle.id \in DiscountRules /\ Governance!Idle.row \in Governance!Rule
    BY <1>2 DEF Governance!Transaction
  <2>6. t \in Governance!Transaction /\ t.pc = "deleting"
    BY <2>2, <2>4, <2>5, NewTransaction DEF Pcs, Governance!PolicyPhases
  <2> QED
    BY <1>12, <2>1, <2>6 DEF Kinds, Quiet, Governance!UpdatePolicy
<1>13. CASE Governance!DeleteSteps(r)
  <2>1. PICK t : t = [txn[r] EXCEPT !.pc = "deleted", !.seen = txn[r].seen \intersect steps]
    OBVIOUS
  <2>2. txn[r].seen \intersect steps \in SUBSET Governance!Step
    BY <1>2 DEF Governance!Transaction
  <2>3. t \in Governance!Transaction /\ t.pc = "deleted"
    BY <1>2, <2>1, <2>2 DEF Governance!Transaction, Governance!PolicyPhases
  <2>4. txn' = [txn EXCEPT ![r] = t]
    BY <1>13, <2>1 DEF Governance!DeleteSteps
  <2> QED
    BY <1>13, <2>3, <2>4 DEF Kinds, Quiet, Governance!DeleteSteps
<1>14. CASE Governance!WritePolicy(r)
  <2>1. PICK t : t = [txn[r] EXCEPT !.pc = "saved"]
    OBVIOUS
  <2>2. t \in Governance!Transaction /\ t.pc = "saved"
    BY <1>2, <2>1 DEF Governance!Transaction, Governance!PolicyPhases
  <2>3. txn' = [txn EXCEPT ![r] = t]
    BY <1>14, <2>1 DEF Governance!WritePolicy
  <2> QED
    BY <1>14, <2>2, <2>3 DEF Kinds, Quiet, Governance!WritePolicy
<1>15. CASE Governance!CommitPolicy(r) \/ Governance!Rollback(r)
  BY <1>2, <1>15 DEF Governance!CommitPolicy, Governance!Rollback, Kinds, Quiet
<1> QED
  BY <1>1, <1>4, <1>5, <1>6, <1>7, <1>8, <1>9, <1>10, <1>11, <1>12, <1>13, <1>14, <1>15

LEMMA StepTypes ==
    ASSUME Governance!TypeOK, DiscountRules # {}, Governance!Next
    PROVE  Governance!TypeOK'
<1>1. PICK r \in Requests, t \in Governance!Transaction :
        txn' = [txn EXCEPT ![r] = t] /\ Kinds(r, t)
  BY StepKinds
<1>2. txn' \in [Requests -> Governance!Transaction]
  BY <1>1 DEF Governance!TypeOK
<1>3. rule' \in [DiscountRules -> Governance!Rule]
  BY <1>1
     DEF Governance!TypeOK, Governance!Transaction, Kinds, Quiet, NewInsert, Writes, Commits
<1>4. policy' \in BOOLEAN /\ steps' \in SUBSET Governance!Step /\ writes' \in Nat
  <2>1. PICK q \in Requests :
          \/ Governance!Create(q) \/ Governance!Insert(q) \/ Governance!Update(q) \/ Governance!WriteUpdate(q)
          \/ Governance!Delete(q) \/ Governance!WriteDelete(q) \/ Governance!Commit(q)
          \/ Governance!CreatePolicy(q) \/ Governance!UpdatePolicy(q) \/ Governance!DeleteSteps(q)
          \/ Governance!WritePolicy(q) \/ Governance!CommitPolicy(q) \/ Governance!Rollback(q)
    BY DEF Governance!Next
  <2>2. CASE Governance!CommitPolicy(q)
    BY <2>2
       DEF Governance!CommitPolicy, Governance!TypeOK, Governance!Transaction,
           Governance!Remaining
  <2>3. CASE ~Governance!CommitPolicy(q)
    <3>1. UNCHANGED <<policy, steps>>
      BY <2>1, <2>3
         DEF Governance!Create, Governance!Insert, Governance!Update, Governance!WriteUpdate,
             Governance!Delete, Governance!WriteDelete, Governance!Commit,
            Governance!CreatePolicy, Governance!UpdatePolicy, Governance!DeleteSteps,
            Governance!WritePolicy, Governance!Rollback, Governance!PolicyUnchanged
    <3>2. writes' = writes \/ writes' = writes + 1
      BY <2>1, <2>3
         DEF Governance!Create, Governance!Insert, Governance!Update, Governance!WriteUpdate,
             Governance!Delete, Governance!WriteDelete, Governance!Commit,
            Governance!CreatePolicy, Governance!UpdatePolicy, Governance!DeleteSteps,
            Governance!WritePolicy, Governance!Rollback, Governance!Begin
    <3> QED
      BY <3>1, <3>2 DEF Governance!TypeOK
  <2> QED
    BY <2>2, <2>3
<1> QED
  BY <1>2, <1>3, <1>4 DEF Governance!TypeOK

-----------------------------------------------------------------------------
(* The invariant.                                                          *)

LEMMA StartsRight == ASSUME DiscountRules # {}, Governance!Init PROVE Governance!TypeOK /\ RulesInv
<1>1. Governance!TypeOK
  BY IdleRule DEF Governance!Init, Governance!TypeOK, Governance!Rule
<1>2. \A r \in Requests : txn[r].pc = "idle"
  BY IdleRule DEF Governance!Init
<1>3. Governance!OneActiveCeiling
  BY DEF Governance!Init, Governance!OneActiveCeiling, Governance!NoRule
<1> QED
  BY <1>1, <1>2, <1>3 DEF RulesInv, InsertsAreNew, WritesFit, WritesKeep, Governance!At

LEMMA KeptByQuiet ==
    ASSUME Governance!TypeOK, RulesInv, NEW r \in Requests, NEW t \in Governance!Transaction,
           txn' = [txn EXCEPT ![r] = t], Quiet(r, t)
    PROVE  RulesInv'
<1> USE DEF Governance!At, Governance!Others
<1>1. /\ txn'[r] = t /\ \A o \in Requests \ {r} : txn'[o] = txn[o]
      /\ rule' = rule /\ t.pc \notin {"insert", "written"}
  BY DEF Governance!TypeOK, Quiet
<1>2. Governance!OneActiveCeiling'
  BY <1>1 DEF RulesInv, Governance!OneActiveCeiling
<1>3. InsertsAreNew'
  BY <1>1 DEF RulesInv, InsertsAreNew
<1>4. WritesFit'
  BY <1>1 DEF RulesInv, WritesFit, Governance!Conflicts, Governance!Free
<1>5. WritesKeep'
  BY <1>1 DEF RulesInv, WritesKeep
<1> QED
  BY <1>2, <1>3, <1>4, <1>5 DEF RulesInv

LEMMA KeptByInsert ==
    ASSUME Governance!TypeOK, RulesInv, NEW r \in Requests, NEW t \in Governance!Transaction,
           txn' = [txn EXCEPT ![r] = t], NewInsert(r, t)
    PROVE  RulesInv'
<1> USE DEF Governance!At, Governance!Others
<1>1. /\ txn'[r] = t /\ \A o \in Requests \ {r} : txn'[o] = txn[o]
      /\ rule' = rule /\ t.pc = "insert" /\ ~rule[t.id].exists
      /\ \A o \in Requests \ {r} : txn[o].id # t.id \/ txn[o].pc = "idle"
  BY DEF Governance!TypeOK, NewInsert
<1>2. Governance!OneActiveCeiling'
  BY <1>1 DEF RulesInv, Governance!OneActiveCeiling
<1>3. InsertsAreNew'
  BY <1>1 DEF RulesInv, InsertsAreNew
<1>4. WritesFit'
  BY <1>1 DEF RulesInv, WritesFit, Governance!Conflicts, Governance!Free
<1>5. WritesKeep'
  BY <1>1 DEF RulesInv, WritesKeep
<1> QED
  BY <1>2, <1>3, <1>4, <1>5 DEF RulesInv

(* A row that is inserted is nobody else's; one that is updated exists, so *)
(* that no insertion is for it.                                            *)
LEMMA KeptByWrite ==
    ASSUME Governance!TypeOK, RulesInv, NEW r \in Requests, NEW t \in Governance!Transaction,
           txn' = [txn EXCEPT ![r] = t], Writes(r, t)
    PROVE  RulesInv'
<1> USE DEF Governance!At, Governance!Others
<1>1. /\ txn'[r] = t /\ \A o \in Requests \ {r} : txn'[o] = txn[o]
      /\ rule' = rule /\ t.pc = "written" /\ t.id = txn[r].id
  BY DEF Governance!TypeOK, Writes
<1>2. Governance!OneActiveCeiling'
  BY <1>1 DEF RulesInv, Governance!OneActiveCeiling
<1>3. InsertsAreNew'
  <2>1. txn[r].pc = "insert" \/ rule[t.id].exists
    BY DEF Writes
  <2> QED
    BY <1>1, <2>1 DEF RulesInv, InsertsAreNew
<1>4. WritesFit'
  <2>1. ~Governance!Conflicts(t.row, t.id) /\ Governance!Free(r, t.row, t.id)
    BY DEF Writes
  <2> QED
    BY <1>1, <2>1 DEF RulesInv, WritesFit, Governance!Conflicts, Governance!Free
<1>5. WritesKeep'
  <2>1. t.row.exists /\ rule[t.id].exists =>
           \A f \in Governance!Fields \ t.sets : t.row[f] = rule[t.id][f]
    BY <1>1 DEF Writes, RulesInv, InsertsAreNew
  <2> QED
    BY <1>1, <2>1 DEF RulesInv, WritesKeep
<1> QED
  BY <1>2, <1>3, <1>4, <1>5 DEF RulesInv

LEMMA KeptByCommit ==
    ASSUME Governance!TypeOK, RulesInv, NEW r \in Requests, NEW t \in Governance!Transaction,
           txn' = [txn EXCEPT ![r] = t], Commits(r, t)
    PROVE  RulesInv'
<1> USE DEF Governance!At, Governance!Others
<1> DEFINE id == txn[r].id
           row == txn[r].row
<1>1. /\ txn'[r] = t /\ \A o \in Requests \ {r} : txn'[o] = txn[o]
      /\ t.pc = "idle" /\ txn[r].pc = "written"
      /\ id \in DiscountRules
      /\ rule'[id] = row /\ \A i \in DiscountRules \ {id} : rule'[i] = rule[i]
  BY DEF Governance!TypeOK, Commits, Governance!Transaction
<1>2. ~Governance!Conflicts(row, id) /\ Governance!Free(r, row, id)
  BY <1>1 DEF RulesInv, WritesFit
<1>3. \A o \in Requests \ {r} : txn[o].id \in DiscountRules
  BY DEF Governance!TypeOK, Governance!Transaction
<1> HIDE DEF id, row
<1>4. Governance!OneActiveCeiling'
  BY <1>1, <1>2 DEF RulesInv, Governance!OneActiveCeiling, Governance!Conflicts
<1>5. ASSUME NEW o \in Requests \ {r}, txn[o].pc \in {"insert", "written"}
      PROVE  txn[o].id # id /\ txn'[o] = txn[o] /\ rule'[txn[o].id] = rule[txn[o].id]
  <2>1. CASE txn[o].pc = "insert"
    BY <1>1, <1>3, <2>1 DEF RulesInv, InsertsAreNew, id
  <2>2. CASE txn[o].pc = "written"
    BY <1>1, <1>2, <1>3, <2>2 DEF Governance!Free
  <2> QED
    BY <1>5, <2>1, <2>2
<1>6. InsertsAreNew'
  BY <1>1, <1>5 DEF RulesInv, InsertsAreNew
<1>7. WritesFit'
  <2> SUFFICES ASSUME NEW o \in Requests \ {r}, txn[o].pc = "written"
               PROVE  ~Governance!Conflicts(txn[o].row, txn[o].id)' /\ Governance!Free(o, txn[o].row, txn[o].id)'
    BY <1>1 DEF WritesFit
  <2>1. /\ ~Governance!Conflicts(txn[o].row, txn[o].id) /\ Governance!Free(o, txn[o].row, txn[o].id)
        /\ txn'[o] = txn[o]
    BY <1>1 DEF RulesInv, WritesFit
  <2>2. ~(row.active /\ txn[o].row.active /\ txn[o].row.target = row.target)
    BY <1>2 DEF Governance!Free
  <2>3. ~Governance!Conflicts(txn[o].row, txn[o].id)'
    BY <1>1, <2>1, <2>2 DEF Governance!Conflicts
  <2>4. Governance!Free(o, txn[o].row, txn[o].id)'
    BY <1>1, <2>1 DEF Governance!Free
  <2> QED
    BY <2>3, <2>4
<1>8. WritesKeep'
  BY <1>1, <1>5 DEF RulesInv, WritesKeep
<1> QED
  BY <1>4, <1>6, <1>7, <1>8 DEF RulesInv

LEMMA StepKeepsInv == ASSUME Governance!TypeOK, RulesInv, DiscountRules # {}, [Governance!Next]_ruleVars PROVE RulesInv'
<1>1. CASE Governance!Next
  BY <1>1, StepKinds, KeptByQuiet, KeptByInsert, KeptByWrite, KeptByCommit DEF Kinds
<1>2. CASE UNCHANGED ruleVars
  BY <1>2
     DEF ruleVars, RulesInv, Governance!OneActiveCeiling, InsertsAreNew, WritesFit, WritesKeep,
              Governance!Conflicts, Governance!Free, Governance!At
<1> QED
  BY <1>1, <1>2

-----------------------------------------------------------------------------
LEMMA RulesAlways == ASSUME DiscountRules # {} PROVE Governance!Spec => [](Governance!TypeOK /\ RulesInv)
<1>1. Governance!Init => Governance!TypeOK /\ RulesInv
  BY StartsRight
<1>2. Governance!TypeOK /\ RulesInv /\ [Governance!Next]_ruleVars => (Governance!TypeOK /\ RulesInv)'
  <2> SUFFICES ASSUME Governance!TypeOK, RulesInv, [Governance!Next]_ruleVars PROVE Governance!TypeOK' /\ RulesInv'
    OBVIOUS
  <2>1. CASE UNCHANGED ruleVars
    BY <2>1, StepKeepsInv DEF ruleVars, Governance!TypeOK
  <2> QED
    BY <2>1, StepTypes, StepKeepsInv
<1> QED
  BY <1>1, <1>2, PTL DEF Governance!Spec, ruleVars, Governance!vars

(* Rules and transactions keep their types, whatever administrators save.  *)
THEOREM RulesTypeCorrect == Governance!Spec => []Governance!TypeOK
<1>1. Governance!Spec => [](Governance!TypeOK /\ RulesInv)
  BY RulesAlways, OfficeAssumption
<1> QED
  BY <1>1, PTL

(* There is never a second active ceiling for a tier or category: check    *)
(* and index together hold against any number of saves at once.            *)
THEOREM OneCeiling == Governance!Spec => []Governance!OneActiveCeiling
<1>1. RulesInv => Governance!OneActiveCeiling
  BY DEF RulesInv
<1>2. Governance!Spec => [](Governance!TypeOK /\ RulesInv)
  BY RulesAlways, OfficeAssumption
<1> QED
  BY <1>1, <1>2, PTL

(* A save changes no field that its form does not name, although the rule  *)
(* may have been saved by others since it was read.                        *)
THEOREM FieldsKept == OfficeSpec => OthersFieldsStay
<1> DEFINE Stay == \A i \in DiscountRules, f \in Governance!Fields :
              /\ rule[i].exists /\ rule'[i].exists
              /\ rule'[i][f] # rule[i][f]
              => \E r \in Requests : /\ txn[r].pc = "written" /\ txn[r].id = i
                                     /\ f \in txn[r].sets
<1>1. Governance!TypeOK /\ RulesInv /\ [Governance!Next]_ruleVars => [Stay]_ruleVars
  <2> SUFFICES ASSUME Governance!TypeOK, RulesInv, Governance!Next, DiscountRules # {},
                      NEW i \in DiscountRules, NEW f \in Governance!Fields,
                      rule[i].exists, rule'[i].exists, rule'[i][f] # rule[i][f]
               PROVE  \E r \in Requests : /\ txn[r].pc = "written" /\ txn[r].id = i
                                          /\ f \in txn[r].sets
    BY OfficeAssumption
  <2>1. PICK r \in Requests, t \in Governance!Transaction :
          txn' = [txn EXCEPT ![r] = t] /\ Kinds(r, t)
    BY StepKinds
  <2>2. Commits(r, t)
    BY <2>1 DEF Kinds, Quiet, NewInsert, Writes
  <2>3. txn[r].pc = "written" /\ txn[r].id = i /\ rule'[i] = txn[r].row
    BY <2>2 DEF Commits, Governance!At, Governance!TypeOK
  <2>4. f \in txn[r].sets
    BY <2>3 DEF RulesInv, WritesKeep, Governance!At
  <2> QED
    BY <2>3, <2>4
<1>2. Governance!Spec => [](Governance!TypeOK /\ RulesInv)
  BY RulesAlways, OfficeAssumption
<1>3. Governance!Spec => [][Stay]_ruleVars
  BY <1>1, <1>2, PTL DEF Governance!Spec, ruleVars, Governance!vars
<1> QED
  BY <1>3, OfficeIsAll
     DEF OthersFieldsStay, Governance!OthersFieldsStay, ruleVars, Governance!vars


(* The steps that one save would enter.                                    *)
OneSave(S) == /\ \A s, t \in S : s.tag = t.tag
              /\ \A s \in S : s.order >= 1 /\ \A n \in 1 .. s.order : \E t \in S : t.order = n

Apart(S, T) == \A s \in S, t \in T : s.tag # t.tag

StepsStand == /\ OneSave(steps)
              /\ ~policy => steps = {}
              /\ \A s \in steps : s.tag <= writes

(* What is to be put is the entry of one save, under a tag of its own.     *)
PutsStand ==
    \A r \in Requests :
        /\ OneSave(txn[r].put) /\ (txn[r].drop => txn[r].put = {})
        /\ \A s \in txn[r].put \union txn[r].seen : s.tag <= writes

PutsAreNew ==
    \A r \in Requests :
        /\ Apart(txn[r].put, steps)
        /\ \A o \in Requests : Apart(txn[r].put, txn[o].seen)
        /\ \A o \in Governance!Others(r) : Apart(txn[r].put, txn[o].put)

(* A deletion takes all the steps there are, or none of them.              *)
SeenIsWhole ==
    \A r \in Requests : txn[r].seen \intersect steps = {} \/ steps \subseteq txn[r].seen

(* One transaction at a time is about to change the steps.                 *)
OneIsSaving ==
    \A r \in Requests :
        /\ Governance!At(r, {"created"}) => ~policy /\ txn[r].seen = {} /\ ~txn[r].drop
        /\ Governance!At(r, {"saved"}) =>
              /\ policy
              /\ \A old \in Governance!Remaining(r), new \in txn[r].put : old.order # new.order
              /\ txn[r].drop => Governance!Remaining(r) = {}
        /\ Governance!At(r, {"created", "saved"}) => \A o \in Governance!Others(r) : ~Governance!At(o, {"created", "saved"})

ChainInv == StepsStand /\ PutsStand /\ PutsAreNew /\ SeenIsWhole /\ OneIsSaving

-----------------------------------------------------------------------------
(* The step of a transaction that leaves the approval rule alone, or reads it. *)
Reads(r, t) ==
    /\ t.pc \notin {"created", "saved"}
    /\ t.put = {} \/ (t.put = txn[r].put /\ t.drop = txn[r].drop)
    /\ t.seen \subseteq txn[r].seen
    /\ t.seen = {} \/ t.seen = txn[r].seen \/ t.seen = txn[r].seen \intersect steps
    /\ UNCHANGED <<policy, steps>> /\ writes' \in {writes, writes + 1}

(* A save begins, under a tag that nothing has.                            *)
Enters(r, t) ==
    /\ \/ /\ t.pc = "created" /\ ~policy /\ t.seen = {} /\ ~t.drop
          /\ \A o \in Governance!Others(r) : ~Governance!At(o, {"created"})
       \/ t.pc = "deleting" /\ policy /\ t.seen = steps
    /\ OneSave(t.put) /\ (\A s \in t.put : s.tag = writes + 1)
    /\ t.drop => t.put = {}
    /\ UNCHANGED <<policy, steps>> /\ writes' = writes + 1

Saves(r, t) ==
    /\ t.pc = "saved" /\ t.put = txn[r].put /\ t.seen = txn[r].seen /\ t.drop = txn[r].drop
    /\ policy /\ \A o \in Governance!Others(r) : ~Governance!At(o, {"saved"})
    /\ \A old \in Governance!Remaining(r), new \in txn[r].put : old.order # new.order
    /\ txn[r].drop => Governance!Remaining(r) = {}
    /\ UNCHANGED <<policy, steps, writes>>

Replaces(r, t) ==
    /\ Governance!At(r, {"saved", "created"})
    /\ t.put = {} /\ t.seen = {} /\ t.pc = "idle"
    /\ policy' = ~txn[r].drop /\ steps' = Governance!Remaining(r) \union txn[r].put
    /\ UNCHANGED writes

ChainKinds(r, t) == Reads(r, t) \/ Enters(r, t) \/ Saves(r, t) \/ Replaces(r, t)

LEMMA IdleIsEmpty == Governance!Idle.pc = "idle" /\ Governance!Idle.put = {} /\ Governance!Idle.seen = {} /\ Governance!Idle.drop = FALSE
BY DEF Governance!Idle

LEMMA NewStepsAreOneSave ==
    ASSUME writes \in Nat, NEW n \in 0 .. 2
    PROVE  OneSave(Governance!NewSteps(n)) /\ \A s \in Governance!NewSteps(n) : s.tag = writes + 1
<1>1. \A s \in Governance!NewSteps(n) : s.tag = writes + 1 /\ s.order \in 1 .. n
  BY DEF Governance!NewSteps
<1>2. \A k \in 1 .. n : [order |-> k, tag |-> writes + 1] \in Governance!NewSteps(n)
  BY DEF Governance!NewSteps
<1>3. ASSUME NEW s \in Governance!NewSteps(n), NEW k \in 1 .. s.order
      PROVE  \E t \in Governance!NewSteps(n) : t.order = k
  <2>1. [order |-> k, tag |-> writes + 1] \in Governance!NewSteps(n)
    BY <1>1, <1>2, <1>3
  <2> QED
    BY <2>1
<1> QED
  BY <1>1, <1>3 DEF OneSave

LEMMA ChainSteps ==
    ASSUME Governance!TypeOK, DiscountRules # {}, Governance!Next
    PROVE  \E r \in Requests : \E t : txn' = [txn EXCEPT ![r] = t] /\ ChainKinds(r, t)
<1>1. PICK r \in Requests :
        \/ Governance!Create(r) \/ Governance!Insert(r) \/ Governance!Update(r) \/ Governance!WriteUpdate(r)
        \/ Governance!Delete(r) \/ Governance!WriteDelete(r) \/ Governance!Commit(r)
        \/ Governance!CreatePolicy(r) \/ Governance!UpdatePolicy(r) \/ Governance!DeleteSteps(r)
        \/ Governance!WritePolicy(r) \/ Governance!CommitPolicy(r) \/ Governance!Rollback(r)
  BY DEF Governance!Next
<1>2. txn[r] \in Governance!Transaction /\ writes \in Nat
  BY DEF Governance!TypeOK
<1> SUFFICES \E t : txn' = [txn EXCEPT ![r] = t] /\ ChainKinds(r, t)
  BY <1>1
<1>3. CASE Governance!Create(r)
  <2>1. PICK i, row : Governance!Begin(r, [Governance!Idle EXCEPT !.pc = "insert", !.id = i, !.row = row])
    BY <1>3 DEF Governance!Create
  <2>2. PICK t : t = [Governance!Idle EXCEPT !.pc = "insert", !.id = i, !.row = row]
    OBVIOUS
  <2>3. t.pc = "insert" /\ t.put = {} /\ t.seen = {}
    BY <2>2 DEF Governance!Idle
  <2>4. txn' = [txn EXCEPT ![r] = t] /\ writes' = writes + 1 /\ UNCHANGED <<policy, steps>>
    BY <1>3, <2>1, <2>2 DEF Governance!Begin, Governance!Create, Governance!PolicyUnchanged
  <2>5. Reads(r, t)
    <3>1. t.seen \subseteq txn[r].seen /\ writes' \in {writes, writes + 1}
      BY <2>3, <2>4
    <3>2. t.pc \notin {"created", "saved"}
      BY <2>3
    <3> QED
      BY <2>3, <2>4, <3>1, <3>2 DEF Reads
  <2> QED
    BY <2>4, <2>5 DEF ChainKinds
<1>4. CASE Governance!Update(r)
  <2>1. PICK i, f, row : Governance!Begin(r, [Governance!Idle EXCEPT !.pc = "update", !.id = i, !.sets = f, !.row = row])
    BY <1>4 DEF Governance!Update
  <2>2. PICK t : t = [Governance!Idle EXCEPT !.pc = "update", !.id = i, !.sets = f, !.row = row]
    OBVIOUS
  <2>3. t.pc = "update" /\ t.put = {} /\ t.seen = {}
    BY <2>2 DEF Governance!Idle
  <2>4. txn' = [txn EXCEPT ![r] = t] /\ writes' = writes + 1 /\ UNCHANGED <<policy, steps>>
    BY <1>4, <2>1, <2>2 DEF Governance!Begin, Governance!Update, Governance!PolicyUnchanged
  <2>5. Reads(r, t)
    <3>1. t.seen \subseteq txn[r].seen /\ writes' \in {writes, writes + 1}
      BY <2>3, <2>4
    <3>2. t.pc \notin {"created", "saved"}
      BY <2>3
    <3> QED
      BY <2>3, <2>4, <3>1, <3>2 DEF Reads
  <2> QED
    BY <2>4, <2>5 DEF ChainKinds
<1>5. CASE Governance!Delete(r)
  <2>1. PICK i : Governance!Begin(r, [Governance!Idle EXCEPT !.pc = "drop", !.id = i])
    BY <1>5 DEF Governance!Delete
  <2>2. PICK t : t = [Governance!Idle EXCEPT !.pc = "drop", !.id = i]
    OBVIOUS
  <2>3. t.pc = "drop" /\ t.put = {} /\ t.seen = {}
    BY <2>2 DEF Governance!Idle
  <2>4. txn' = [txn EXCEPT ![r] = t] /\ writes' = writes + 1 /\ UNCHANGED <<policy, steps>>
    BY <1>5, <2>1, <2>2 DEF Governance!Begin, Governance!Delete, Governance!PolicyUnchanged
  <2>5. Reads(r, t)
    <3>1. t.seen \subseteq txn[r].seen /\ writes' \in {writes, writes + 1}
      BY <2>3, <2>4
    <3>2. t.pc \notin {"created", "saved"}
      BY <2>3
    <3> QED
      BY <2>3, <2>4, <3>1, <3>2 DEF Reads
  <2> QED
    BY <2>4, <2>5 DEF ChainKinds
<1>6. CASE Governance!Insert(r) \/ Governance!WriteUpdate(r) \/ Governance!WriteDelete(r)
  <2>1. PICK row : Governance!Written(r, row)
    BY <1>6 DEF Governance!Insert, Governance!WriteUpdate, Governance!WriteDelete
  <2>2. PICK t : t = [txn[r] EXCEPT !.pc = "written", !.row = row]
    OBVIOUS
  <2>3. t.pc = "written" /\ t.put = txn[r].put /\ t.seen = txn[r].seen /\ t.drop = txn[r].drop
    BY <1>2, <2>2 DEF Governance!Transaction
  <2>4. txn' = [txn EXCEPT ![r] = t] /\ UNCHANGED <<policy, steps, writes>>
    BY <1>6, <2>1, <2>2
       DEF Governance!Written, Governance!Insert, Governance!WriteUpdate,
           Governance!WriteDelete, Governance!PolicyUnchanged
  <2> QED
    BY <2>3, <2>4 DEF ChainKinds, Reads
<1>7. CASE Governance!Commit(r) \/ Governance!Rollback(r)
  <2>1. txn' = [txn EXCEPT ![r] = Governance!Idle] /\ UNCHANGED <<policy, steps, writes>>
    BY <1>7 DEF Governance!Commit, Governance!Rollback, Governance!PolicyUnchanged
  <2>2. PICK t : t = Governance!Idle
    OBVIOUS
  <2>3. t.pc = "idle" /\ t.put = {} /\ t.seen = {}
    BY <2>2, IdleIsEmpty
  <2>4. Reads(r, t)
    <3>1. t.seen \subseteq txn[r].seen /\ writes' \in {writes, writes + 1}
      BY <2>1, <2>3
    <3>2. t.pc \notin {"created", "saved"}
      BY <2>3
    <3> QED
      BY <2>1, <2>3, <3>1, <3>2 DEF Reads
  <2> QED
    BY <2>1, <2>2, <2>4 DEF ChainKinds
<1>8. CASE Governance!CreatePolicy(r)
  <2>1. PICK n \in 0 .. 2 : Governance!Begin(r, [Governance!Idle EXCEPT !.pc = "created", !.put = Governance!NewSteps(n)])
    BY <1>8 DEF Governance!CreatePolicy
  <2>2. PICK t : t = [Governance!Idle EXCEPT !.pc = "created", !.put = Governance!NewSteps(n)]
    OBVIOUS
  <2>3. t.pc = "created" /\ t.put = Governance!NewSteps(n) /\ t.seen = {} /\ t.drop = FALSE
    BY <2>2 DEF Governance!Idle
  <2>4. /\ txn' = [txn EXCEPT ![r] = t] /\ writes' = writes + 1 /\ UNCHANGED <<policy, steps>>
        /\ ~policy /\ \A o \in Governance!Others(r) : ~Governance!At(o, {"created"})
    BY <1>8, <2>1, <2>2
       DEF Governance!Begin, Governance!CreatePolicy, Governance!PolicyUnchanged
  <2>5. OneSave(t.put) /\ (\A s \in t.put : s.tag = writes + 1)
    BY <1>2, <2>3, NewStepsAreOneSave
  <2>6. ~t.drop /\ (t.drop => t.put = {})
    BY <2>3
  <2>7. Enters(r, t)
    BY <2>3, <2>4, <2>5, <2>6 DEF Enters
  <2> QED
    BY <2>4, <2>7 DEF ChainKinds
<1>9. CASE Governance!UpdatePolicy(r)
  <2>1. PICK n \in 0 .. 2, drop \in BOOLEAN :
          Governance!Begin(r, [Governance!Idle EXCEPT !.pc = "deleting", !.seen = steps,
                      !.put = IF drop THEN {} ELSE Governance!NewSteps(n), !.drop = drop])
    BY <1>9 DEF Governance!UpdatePolicy
  <2>2. PICK P : P = IF drop THEN {} ELSE Governance!NewSteps(n)
    OBVIOUS
  <2>3. PICK t : t = [Governance!Idle EXCEPT !.pc = "deleting", !.seen = steps, !.put = P, !.drop = drop]
    OBVIOUS
  <2>4. t.pc = "deleting" /\ t.put = P /\ t.seen = steps /\ t.drop = drop
    BY <2>3 DEF Governance!Idle
  <2>5. /\ txn' = [txn EXCEPT ![r] = t] /\ writes' = writes + 1 /\ UNCHANGED <<policy, steps>>
        /\ policy
    BY <1>9, <2>1, <2>2, <2>3
       DEF Governance!Begin, Governance!UpdatePolicy, Governance!PolicyUnchanged
  <2>6. OneSave(P) /\ (\A s \in P : s.tag = writes + 1) /\ (drop => P = {})
    <3>1. OneSave({})
      BY DEF OneSave
    <3> QED
      BY <1>2, <2>2, <3>1, NewStepsAreOneSave
  <2>7. OneSave(t.put) /\ \A s \in t.put : s.tag = writes + 1
    BY <2>4, <2>6
  <2>8. t.drop => t.put = {}
    BY <2>4, <2>6
  <2>9. Enters(r, t)
    BY <2>4, <2>5, <2>7, <2>8 DEF Enters
  <2> QED
    BY <2>5, <2>9 DEF ChainKinds
<1>10. CASE Governance!DeleteSteps(r)
  <2>1. PICK S : S = txn[r].seen \intersect steps
    OBVIOUS
  <2>2. PICK t : t = [txn[r] EXCEPT !.pc = "deleted", !.seen = S]
    OBVIOUS
  <2>3. t.pc = "deleted" /\ t.put = txn[r].put /\ t.seen = S /\ t.drop = txn[r].drop
    BY <1>2, <2>2 DEF Governance!Transaction
  <2>4. txn' = [txn EXCEPT ![r] = t] /\ UNCHANGED <<policy, steps, writes>>
    BY <1>10, <2>1, <2>2 DEF Governance!DeleteSteps, Governance!PolicyUnchanged
  <2> QED
    BY <2>1, <2>3, <2>4 DEF ChainKinds, Reads
<1>11. CASE Governance!WritePolicy(r)
  <2>1. PICK t : t = [txn[r] EXCEPT !.pc = "saved"]
    OBVIOUS
  <2>2. t.pc = "saved" /\ t.put = txn[r].put /\ t.seen = txn[r].seen /\ t.drop = txn[r].drop
    BY <1>2, <2>1 DEF Governance!Transaction
  <2>3. txn' = [txn EXCEPT ![r] = t] /\ UNCHANGED <<policy, steps, writes>>
    BY <1>11, <2>1 DEF Governance!WritePolicy, Governance!PolicyUnchanged
  <2> QED
    BY <1>11, <2>2, <2>3 DEF ChainKinds, Saves, Governance!WritePolicy
<1>12. CASE Governance!CommitPolicy(r)
  <2>1. txn' = [txn EXCEPT ![r] = Governance!Idle]
    BY <1>12 DEF Governance!CommitPolicy
  <2> QED
    BY <1>12, <2>1, IdleIsEmpty DEF ChainKinds, Replaces, Governance!CommitPolicy
<1> QED
  BY <1>1, <1>3, <1>4, <1>5, <1>6, <1>7, <1>8, <1>9, <1>10, <1>11, <1>12

LEMMA ChainStarts == ASSUME Governance!Init PROVE ChainInv
<1>1. \A r \in Requests : txn[r] = Governance!Idle
  BY DEF Governance!Init
<1> QED
  BY <1>1, IdleIsEmpty
     DEF Governance!Init, ChainInv, StepsStand, PutsStand, PutsAreNew, SeenIsWhole,
     OneIsSaving, OneSave, Apart, Governance!Others, Governance!At

LEMMA ChainKept ==
    ASSUME Governance!TypeOK, ChainInv, NEW r \in Requests, NEW t,
           txn' = [txn EXCEPT ![r] = t], ChainKinds(r, t)
    PROVE  ChainInv'
<1> USE DEF ChainInv
<1>1. txn'[r] = t /\ \A o \in Requests \ {r} : txn'[o] = txn[o]
  BY DEF Governance!TypeOK
<1>2. /\ writes \in Nat /\ \A s \in steps : s.tag \in Nat /\ s.order \in Nat
      /\ \A o \in Requests : \A s \in txn[o].put \union txn[o].seen : s.tag \in Nat /\ s.order \in Nat
  BY DEF Governance!TypeOK, Governance!Transaction, Governance!Step
<1>3. OneSave({}) /\ \A S : Apart({}, S) /\ Apart(S, {})
  BY DEF OneSave, Apart
<1>4. CASE Reads(r, t)
  <2>1. writes' \in {writes, writes + 1} /\ UNCHANGED <<policy, steps>>
    BY <1>4 DEF Reads
  <2>2. StepsStand'
    <3>1. \A s \in steps : s.tag <= writes'
      BY <1>2, <2>1 DEF StepsStand
    <3> QED
      BY <2>1, <3>1 DEF StepsStand
  <2>3. PutsStand'
    <3>1. \A o \in Requests : \A s \in txn[o].put \union txn[o].seen : s.tag <= writes'
      BY <1>2, <2>1 DEF PutsStand
    <3>2. /\ t.put \subseteq txn[r].put /\ t.seen \subseteq txn[r].seen
          /\ OneSave(t.put) /\ (t.drop => t.put = {})
      BY <1>3, <1>4 DEF Reads, PutsStand
    <3> QED
      BY <1>1, <3>1, <3>2 DEF PutsStand
  <2>4. PutsAreNew'
    <3>1. t.put \subseteq txn[r].put /\ t.seen \subseteq txn[r].seen
      BY <1>4 DEF Reads
    <3> QED
      BY <1>1, <2>1, <3>1 DEF PutsAreNew, Apart, Governance!Others
  <2>5. SeenIsWhole'
    <3>1. t.seen \intersect steps = {} \/ steps \subseteq t.seen
      BY <1>4 DEF Reads, SeenIsWhole
    <3> QED
      BY <1>1, <2>1, <3>1 DEF SeenIsWhole
  <2>6. OneIsSaving'
    BY <1>1, <1>4, <2>1
       DEF Reads, OneIsSaving, Governance!At, Governance!Others, Governance!Remaining
  <2> QED
    BY <2>2, <2>3, <2>4, <2>5, <2>6
<1>5. CASE Enters(r, t)
  <2>1. /\ writes' = writes + 1 /\ UNCHANGED <<policy, steps>>
        /\ OneSave(t.put) /\ (\A s \in t.put : s.tag = writes + 1) /\ (t.drop => t.put = {})
        /\ t.seen = {} \/ t.seen = steps
    BY <1>5 DEF Enters
  <2>2. /\ \A s \in steps : s.tag <= writes + 1 /\ s.tag # writes + 1
        /\ \A o \in Requests : \A s \in txn[o].put \union txn[o].seen :
              s.tag <= writes + 1 /\ s.tag # writes + 1
    BY <1>2 DEF StepsStand, PutsStand
  <2>3. StepsStand'
    BY <2>1, <2>2 DEF StepsStand
  <2>4. PutsStand'
    <3>1. \A s \in t.put \union t.seen : s.tag <= writes + 1
      BY <1>2, <2>1, <2>2
    <3> QED
      BY <1>1, <2>1, <2>2, <3>1 DEF PutsStand
  <2>5. PutsAreNew'
    <3>1. \A o \in Requests : Apart(txn[o].put, t.seen)
      BY <1>3, <2>1 DEF PutsAreNew
    <3>2. /\ Apart(t.put, steps) /\ Apart(t.put, t.seen)
          /\ \A o \in Requests : /\ Apart(t.put, txn[o].seen)
                                 /\ Apart(t.put, txn[o].put) /\ Apart(txn[o].put, t.put)
      BY <2>1, <2>2 DEF Apart
    <3> QED
      BY <1>1, <2>1, <3>1, <3>2 DEF PutsAreNew, Governance!Others
  <2>6. SeenIsWhole'
    BY <1>1, <2>1 DEF SeenIsWhole
  <2>7. OneIsSaving'
    BY <1>1, <1>5, <2>1
       DEF Enters, OneIsSaving, Governance!At, Governance!Others, Governance!Remaining
  <2> QED
    BY <2>3, <2>4, <2>5, <2>6, <2>7
<1>6. CASE Saves(r, t)
  <2>1. /\ UNCHANGED <<policy, steps, writes>> /\ policy
        /\ t.put = txn[r].put /\ t.seen = txn[r].seen /\ t.drop = txn[r].drop
    BY <1>6 DEF Saves
  <2>2. StepsStand' /\ SeenIsWhole'
    BY <1>1, <2>1 DEF StepsStand, SeenIsWhole
  <2>3. PutsStand' /\ PutsAreNew'
    BY <1>1, <2>1 DEF PutsStand, PutsAreNew, Governance!Others
  <2>4. OneIsSaving'
    BY <1>1, <1>6, <2>1
       DEF Saves, OneIsSaving, Governance!At, Governance!Others, Governance!Remaining
  <2> QED
    BY <2>2, <2>3, <2>4
<1>7. CASE Replaces(r, t)
  <2>1. /\ txn[r].pc \in {"saved", "created"} /\ t.put = {} /\ t.seen = {} /\ t.pc = "idle"
        /\ policy' = ~txn[r].drop /\ steps' = (steps \ txn[r].seen) \union txn[r].put
        /\ writes' = writes
    BY <1>7 DEF Replaces, Governance!At, Governance!Remaining
  <2>2. steps' \in {steps, txn[r].put, {}}
    <3>1. CASE steps \subseteq txn[r].seen
      BY <2>1, <3>1
    <3>2. CASE steps = {} \/ txn[r].put = {}
      BY <2>1, <3>2 DEF SeenIsWhole
    <3>3. CASE txn[r].seen \intersect steps = {} /\ steps # {} /\ txn[r].put # {}
      <4>1. PICK s \in steps : s.order = 1
        BY <1>2, <3>3 DEF StepsStand, OneSave
      <4>2. PICK p \in txn[r].put : p.order = 1
        BY <1>2, <3>3 DEF PutsStand, OneSave
      <4>3. txn[r].pc = "saved"
        BY <2>1, <3>3 DEF OneIsSaving, StepsStand, Governance!At
      <4>4. s \in Governance!Remaining(r)
        BY <3>3 DEF Governance!Remaining
      <4> QED
        BY <4>1, <4>2, <4>3, <4>4 DEF OneIsSaving, Governance!At
    <3> QED
      BY <3>1, <3>2, <3>3 DEF SeenIsWhole
  <2>3. StepsStand'
    <3>1. OneSave(steps') /\ \A s \in steps' : s.tag <= writes
      BY <1>3, <2>2 DEF StepsStand, PutsStand
    <3>2. CASE txn[r].drop
      <4>1. txn[r].put = {} /\ Governance!Remaining(r) = {}
        BY <2>1, <3>2 DEF PutsStand, OneIsSaving, Governance!At
      <4> QED
        BY <2>1, <3>1, <4>1 DEF StepsStand, Governance!Remaining
    <3>3. CASE ~txn[r].drop
      BY <2>1, <3>1, <3>3 DEF StepsStand
    <3> QED
      BY <3>2, <3>3
  <2>4. PutsStand'
    BY <1>1, <1>3, <2>1 DEF PutsStand
  <2>5. PutsAreNew'
    <3>1. \A o \in Governance!Others(r) : Apart(txn[o].put, steps')
      BY <1>3, <2>2 DEF PutsAreNew, Apart, Governance!Others
    <3> QED
      BY <1>1, <1>3, <2>1, <3>1 DEF PutsAreNew, Governance!Others
  <2>6. SeenIsWhole'
    <3>1. \A o \in Requests : txn[o].seen \intersect txn[r].put = {}
      BY DEF PutsAreNew, Apart
    <3>2. \A o \in Requests : txn[o].seen \intersect steps' = {} \/ steps' \subseteq txn[o].seen
      BY <2>2, <3>1 DEF SeenIsWhole
    <3> QED
      BY <1>1, <2>1, <3>2 DEF SeenIsWhole
  <2>7. OneIsSaving'
    <3>1. \A o \in Governance!Others(r) : txn'[o] = txn[o] /\ txn[o].pc \notin {"created", "saved"}
      BY <1>1, <2>1 DEF OneIsSaving, Governance!At, Governance!Others
    <3> QED
      BY <1>1, <2>1, <3>1 DEF OneIsSaving, Governance!At, Governance!Others
  <2> QED
    BY <2>3, <2>4, <2>5, <2>6, <2>7
<1> QED
  BY <1>4, <1>5, <1>6, <1>7 DEF ChainKinds

LEMMA ChainAlways == ASSUME DiscountRules # {} PROVE Governance!Spec => [](Governance!TypeOK /\ ChainInv)
<1>1. Governance!Init => Governance!TypeOK /\ ChainInv
  BY StartsRight, ChainStarts
<1>2. Governance!TypeOK /\ ChainInv /\ [Governance!Next]_ruleVars => (Governance!TypeOK /\ ChainInv)'
  <2> SUFFICES ASSUME Governance!TypeOK, ChainInv, [Governance!Next]_ruleVars PROVE Governance!TypeOK' /\ ChainInv'
    OBVIOUS
  <2>1. CASE UNCHANGED ruleVars
    BY <2>1
       DEF ruleVars, Governance!TypeOK, ChainInv, StepsStand, PutsStand, PutsAreNew,
           SeenIsWhole,
       OneIsSaving, Governance!At, Governance!Remaining
  <2>2. CASE Governance!Next
    <3>1. PICK r \in Requests : \E t : txn' = [txn EXCEPT ![r] = t] /\ ChainKinds(r, t)
      BY <2>2, ChainSteps
    <3>2. PICK t : txn' = [txn EXCEPT ![r] = t] /\ ChainKinds(r, t)
      BY <3>1
    <3> QED
      BY <2>2, <3>2, ChainKept, StepTypes
  <2> QED
    BY <2>1, <2>2
<1> QED
  BY <1>1, <1>2, PTL DEF Governance!Spec, ruleVars, Governance!vars

(* Each target has one ceiling at most, and the steps of the approval rule *)
(* are those of one save without a gap, however many administrators save.  *)
THEOREM RulesConsistent == OfficeSpec => []RulesAreConsistent
<1>1. RulesInv /\ ChainInv => Governance!OneActiveCeiling /\ Governance!ChainIsOneSave
  BY DEF RulesInv, ChainInv, StepsStand, OneSave, Governance!ChainIsOneSave
<1>2. Governance!Spec => [](Governance!TypeOK /\ RulesInv)
  BY RulesAlways, OfficeAssumption
<1>3. Governance!Spec => [](Governance!TypeOK /\ ChainInv)
  BY ChainAlways, OfficeAssumption
<1> QED
  BY <1>1, <1>2, <1>3, OfficeIsAll, PTL DEF RulesAreConsistent

-----------------------------------------------------------------------------
(* The catalogue.                                                          *)

Scope == ((0 .. MaxSaves) \X Values) \cup {Prices!Product}

(* What a request holds in each of its phases.                             *)
RequestTyped(q) ==
    /\ q.pc \in {"idle", "variants", "overlap", "rules", "product"}
    /\ q.pc \in {"variants", "overlap", "rules"} => q.scopes \subseteq Scope /\ q.save \in 1 .. MaxSaves
    /\ q.pc = "variants" => q = [pc |-> q.pc, scopes |-> q.scopes, save |-> q.save]
    /\ q.pc = "product" => q.values \subseteq Values /\ q.sold \in BOOLEAN /\ q.save \in 1 .. MaxSaves

RequestsTyped == /\ request = [r \in Requests |-> request[r]]
                 /\ \A r \in Requests : RequestTyped(request[r])

(* Two saves of the product that are under way are both known for it, and  *)
(* so is whoever inserted a variant that a save under way has not found.   *)
OverlapsAreSeen ==
    \A r \in Requests : request[r].pc = "product" =>
        /\ \A o \in Requests : o # r /\ request[o].pc = "product" => request[r].save \in beside
        /\ \A v \in variants \ request[r].found :
              v[1] \in beside /\ request[r].save \in beside

RulesFit == /\ ~Prices!ScopesClash(rules)
            /\ \A i \in rules : i.scope \in variants \cup {Prices!Product}

CatalogInv == Prices!TypeOK /\ RequestsTyped /\ OverlapsAreSeen /\ RulesFit /\ Prices!VariantsAreOneSave

LEMMA CatalogStarts == MaxSaves \in Nat /\ Prices!Init => CatalogInv
<1> SUFFICES ASSUME MaxSaves \in Nat, Prices!Init PROVE CatalogInv
  OBVIOUS
<1>1. Prices!TypeOK
  <2>1. active \in BOOLEAN /\ listed \in BOOLEAN
    BY DEF Prices!Init
  <2>2. variants \subseteq (0 .. MaxSaves) \X Values /\ rules = {} /\ saves \in 0 .. MaxSaves
    BY DEF Prices!Init
  <2> QED
    BY <2>1, <2>2 DEF Prices!TypeOK
<1>2. RequestsTyped /\ OverlapsAreSeen
  BY DEF Prices!Init, RequestsTyped, RequestTyped, Prices!Idle, OverlapsAreSeen
<1>3. RulesFit
  BY DEF Prices!Init, RulesFit, Prices!ScopesClash
<1>4. Prices!VariantsAreOneSave
  BY DEF Prices!Init, Prices!VariantsAreOneSave
<1> QED
  BY <1>1, <1>2, <1>3, <1>4 DEF CatalogInv

(* A request that goes on, or ends, without a write.                       *)
LEMMA OthersStay ==
    ASSUME CatalogInv, NEW r \in Requests, NEW q, RequestTyped(q), q.pc # "product",
           request' = [request EXCEPT ![r] = q],
           UNCHANGED <<variants, beside>>
    PROVE  RequestsTyped' /\ OverlapsAreSeen' /\ Prices!VariantsAreOneSave'
<1>1. request'[r] = q /\ \A o \in Requests \ {r} : request'[o] = request[o]
  BY DEF CatalogInv, RequestsTyped
<1>2. RequestsTyped'
  BY <1>1 DEF CatalogInv, RequestsTyped
<1>3. OverlapsAreSeen'
  BY <1>1 DEF CatalogInv, OverlapsAreSeen
<1> QED
  BY <1>2, <1>3 DEF CatalogInv, Prices!VariantsAreOneSave

LEMMA CatalogGoesOn ==
    ASSUME MaxSaves \in Nat, CatalogInv, [Prices!Next]_priceVars PROVE CatalogInv'
<1> USE DEF CatalogInv
<1>1. RequestTyped(Prices!Idle) /\ Prices!Idle.pc = "idle"
  BY DEF RequestTyped, Prices!Idle
<1>2. ASSUME NEW r \in Requests, Prices!SavePriceList(r) PROVE CatalogInv'
  <2>1. PICK scopes \in SUBSET (variants \cup {Prices!Product}) :
          Prices!Begin(r, [pc |-> "variants", scopes |-> scopes, save |-> saves + 1])
    BY <1>2 DEF Prices!SavePriceList
  <2>2. PICK q : q = [pc |-> "variants", scopes |-> scopes, save |-> saves + 1]
    OBVIOUS
  <2>3. saves' = saves + 1 /\ saves < MaxSaves /\ request' = [request EXCEPT ![r] = q]
    BY <2>1, <2>2 DEF Prices!Begin
  <2>4. RequestTyped(q) /\ q.pc = "variants"
    BY <2>2, <2>3 DEF RequestTyped, Prices!TypeOK, Scope
  <2>5. UNCHANGED <<active, variants, listed, rules, beside>>
    BY <1>2 DEF Prices!SavePriceList
  <2>6. RequestsTyped' /\ OverlapsAreSeen' /\ Prices!VariantsAreOneSave'
    BY <2>3, <2>4, <2>5, OthersStay
  <2>7. Prices!TypeOK' /\ RulesFit'
    BY <2>3, <2>5 DEF Prices!TypeOK, RulesFit, Prices!ScopesClash
  <2> QED
    BY <2>6, <2>7
<1>3. ASSUME NEW r \in Requests, Prices!CheckVariants(r) \/ Prices!CheckOverlap(r) \/ Prices!Abort(r)
      PROVE  CatalogInv'
  <2>1. UNCHANGED <<active, variants, listed, rules, saves, beside>>
    BY <1>3 DEF Prices!CheckVariants, Prices!CheckOverlap, Prices!Abort
  <2>2. PICK q : RequestTyped(q) /\ q.pc # "product" /\ request' = [request EXCEPT ![r] = q]
    <3>1. CASE Prices!End(r)
      BY <1>1, <3>1 DEF Prices!End
    <3>2. CASE Prices!CheckVariants(r) /\ ~Prices!End(r)
      <4>1. request[r].pc = "variants" /\ request' = [request EXCEPT ![r].pc = "overlap"]
        BY <3>2 DEF Prices!CheckVariants
      <4>2. PICK q : q = [request[r] EXCEPT !.pc = "overlap"]
        OBVIOUS
      <4>3. /\ request[r] = [pc |-> request[r].pc, scopes |-> request[r].scopes, save |-> request[r].save]
            /\ request[r].scopes \subseteq Scope /\ request[r].save \in 1 .. MaxSaves
        BY <4>1 DEF RequestsTyped, RequestTyped
      <4>4. RequestTyped(q) /\ q.pc = "overlap"
        BY <4>2, <4>3 DEF RequestTyped
      <4> QED
        BY <4>1, <4>2, <4>4
    <3>3. CASE Prices!CheckOverlap(r) /\ ~Prices!End(r)
      <4>1. PICK q : q = [pc |-> "rules", scopes |-> request[r].scopes, save |-> request[r].save,
                          found |-> listed]
        OBVIOUS
      <4>2. request[r].pc = "overlap" /\ request' = [request EXCEPT ![r] = q]
        BY <3>3, <4>1 DEF Prices!CheckOverlap
      <4>3. RequestTyped(q) /\ q.pc = "rules"
        BY <4>1, <4>2 DEF RequestTyped, RequestsTyped
      <4> QED
        BY <4>2, <4>3
    <3> QED
      BY <1>3, <3>1, <3>2, <3>3 DEF Prices!Abort
  <2>3. RequestsTyped' /\ OverlapsAreSeen' /\ Prices!VariantsAreOneSave'
    BY <2>1, <2>2, OthersStay
  <2>4. Prices!TypeOK' /\ RulesFit'
    BY <2>1 DEF Prices!TypeOK, RulesFit, Prices!ScopesClash
  <2> QED
    BY <2>3, <2>4
<1>4. ASSUME NEW r \in Requests, Prices!WriteRules(r) PROVE CatalogInv'
  <2>1. PICK q : q = request[r]
    OBVIOUS
  <2>2. q.pc = "rules" /\ q.scopes \subseteq Scope /\ q.save \in 1 .. MaxSaves
    BY <1>4, <2>1 DEF Prices!WriteRules, RequestsTyped, RequestTyped
  <2>3. PICK next : next = rules \cup {[scope |-> s, save |-> q.save] : s \in q.scopes}
    OBVIOUS
  <2>4. \/ rules' = next /\ listed' = TRUE /\ q.scopes \ {Prices!Product} \subseteq variants /\ ~Prices!ScopesClash(next)
        \/ UNCHANGED <<rules, listed>>
    BY <1>4, <2>1, <2>3 DEF Prices!WriteRules
  <2>5. UNCHANGED <<active, variants, saves, beside>> /\ request' = [request EXCEPT ![r] = Prices!Idle]
    BY <1>4 DEF Prices!WriteRules, Prices!End
  <2>6. RequestsTyped' /\ OverlapsAreSeen' /\ Prices!VariantsAreOneSave'
    BY <1>1, <2>5, OthersStay
  <2>7. Prices!TypeOK'
    <3>1. next \subseteq [scope : Scope, save : 1 .. MaxSaves]
      BY <2>2, <2>3 DEF Prices!TypeOK, Scope
    <3> QED
      BY <2>4, <2>5, <3>1 DEF Prices!TypeOK, Scope
  <2>8. RulesFit'
    <3>1. CASE rules' = next /\ q.scopes \ {Prices!Product} \subseteq variants /\ ~Prices!ScopesClash(next)
      <4>1. \A i \in next : i.scope \in variants \cup {Prices!Product}
        BY <2>3, <3>1 DEF RulesFit
      <4> QED
        BY <2>5, <3>1, <4>1 DEF RulesFit, Prices!ScopesClash
    <3>2. CASE UNCHANGED <<rules, listed>>
      BY <2>5, <3>2 DEF RulesFit, Prices!ScopesClash
    <3> QED
      BY <2>4, <3>1, <3>2
  <2> QED
    BY <2>6, <2>7, <2>8
<1>5. ASSUME NEW r \in Requests, Prices!UpdateProduct(r) PROVE CatalogInv'
  <2>1. PICK values \in SUBSET Values, sold \in BOOLEAN :
          Prices!Begin(r, [pc |-> "product", found |-> variants, values |-> values,
                    sold |-> sold, save |-> saves + 1])
    BY <1>5 DEF Prices!UpdateProduct
  <2>2. PICK q : q = [pc |-> "product", found |-> variants, values |-> values,
                      sold |-> sold, save |-> saves + 1]
    OBVIOUS
  <2>3. /\ saves' = saves + 1 /\ saves < MaxSaves /\ request[r] = Prices!Idle
        /\ request' = [request EXCEPT ![r] = q]
    BY <2>1, <2>2 DEF Prices!Begin
  <2>4. UNCHANGED <<active, variants, listed, rules>>
    BY <1>5 DEF Prices!UpdateProduct
  <2>5. request'[r] = q /\ \A o \in Requests \ {r} : request'[o] = request[o]
    BY <2>3 DEF RequestsTyped
  <2>6. RequestTyped(q) /\ q.pc = "product" /\ q.found = variants /\ q.save = saves + 1
    BY <2>2, <2>3 DEF RequestTyped, Prices!TypeOK
  <2>7. RequestsTyped'
    BY <2>3, <2>5, <2>6 DEF RequestsTyped
  <2>8. Prices!TypeOK' /\ RulesFit'
    BY <2>3, <2>4 DEF Prices!TypeOK, RulesFit, Prices!ScopesClash
  <2>9. PICK others : others = {request[o].save : o \in {x \in Requests : request[x].pc = "product"}}
    OBVIOUS
  <2>10. beside' = beside \cup others \cup (IF others = {} THEN {} ELSE {saves + 1})
    BY <1>5, <2>9 DEF Prices!UpdateProduct
  <2>11. \A o \in Requests : request[o].pc = "product" =>
            request[o].save \in beside' /\ saves + 1 \in beside'
    BY <2>9, <2>10
  <2>12. OverlapsAreSeen'
    <3> SUFFICES ASSUME NEW o \in Requests, request'[o].pc = "product"
                 PROVE  /\ \A p \in Requests : p # o /\ request'[p].pc = "product" =>
                              request'[o].save \in beside'
                        /\ \A v \in variants' \ request'[o].found :
                              v[1] \in beside' /\ request'[o].save \in beside'
      BY DEF OverlapsAreSeen
    <3>1. CASE o = r
      BY <2>4, <2>5, <2>6, <2>11, <3>1
    <3>2. CASE o # r
      <4>1. request'[o] = request[o] /\ request[o].save \in beside'
        BY <2>5, <2>11, <3>2
      <4>2. \A v \in variants \ request[o].found : v[1] \in beside'
        BY <2>10, <4>1 DEF OverlapsAreSeen
      <4> QED
        BY <2>4, <4>1, <4>2
    <3> QED
      BY <3>1, <3>2
  <2>13. Prices!VariantsAreOneSave'
    BY <2>4, <2>10 DEF Prices!VariantsAreOneSave
  <2> QED
    BY <2>7, <2>8, <2>12, <2>13
<1>6. ASSUME NEW r \in Requests, Prices!WriteProduct(r) PROVE CatalogInv'
  <2>1. PICK q : q = request[r]
    OBVIOUS
  <2>2. /\ q.pc = "product" /\ q.values \subseteq Values /\ q.sold \in BOOLEAN
        /\ q.save \in 1 .. MaxSaves
    BY <1>6, <2>1 DEF Prices!WriteProduct, RequestsTyped, RequestTyped
  <2>3. UNCHANGED <<listed, saves, beside>> /\ request' = [request EXCEPT ![r] = Prices!Idle]
    BY <1>6 DEF Prices!WriteProduct, Prices!End
  <2>4. CASE UNCHANGED <<active, variants, rules>>
    <3>1. RequestsTyped' /\ OverlapsAreSeen' /\ Prices!VariantsAreOneSave'
      BY <1>1, <2>3, <2>4, OthersStay
    <3>2. Prices!TypeOK' /\ RulesFit'
      BY <2>3, <2>4 DEF Prices!TypeOK, RulesFit, Prices!ScopesClash
    <3> QED
      BY <3>1, <3>2
  <2>5. CASE ~UNCHANGED <<active, variants, rules>>
    <3>1. PICK next : next = Prices!Unscoped(rules, q.found)
      OBVIOUS
    <3>2. /\ ~Prices!ScopesClash(next) /\ rules' = next
          /\ variants' = (variants \ q.found) \cup ({q.save} \X q.values)
          /\ active' = q.sold
      BY <1>6, <2>1, <2>5, <3>1 DEF Prices!WriteProduct, Prices!Replaced
    <3>3. \A i \in rules : i \in [scope : Scope, save : 1 .. MaxSaves] /\ i.scope \in variants \cup {Prices!Product}
      BY DEF Prices!TypeOK, RulesFit, Scope
    <3>4. \A i \in next : /\ i \in [scope : Scope, save : 1 .. MaxSaves]
                          /\ i.scope \in (variants \ q.found) \cup {Prices!Product}
      <4> SUFFICES ASSUME NEW i \in rules
                   PROVE  LET j == [i EXCEPT !.scope = IF i.scope \in q.found THEN Prices!Product ELSE @]
                          IN  /\ j \in [scope : Scope, save : 1 .. MaxSaves]
                              /\ j.scope \in (variants \ q.found) \cup {Prices!Product}
        BY <3>1 DEF Prices!Unscoped
      <4> QED
        BY <3>3 DEF Scope
    <3>5. Prices!TypeOK'
      BY <2>2, <2>3, <3>2, <3>4 DEF Prices!TypeOK, Scope
    <3>6. RulesFit'
      BY <3>2, <3>4 DEF RulesFit, Prices!ScopesClash
    <3>7. request'[r] = Prices!Idle /\ \A o \in Requests \ {r} : request'[o] = request[o]
      BY <2>3 DEF RequestsTyped
    <3>8. RequestsTyped'
      BY <1>1, <2>3, <3>7 DEF RequestsTyped
    <3>9. OverlapsAreSeen'
      <4> SUFFICES ASSUME NEW o \in Requests, request'[o].pc = "product"
                   PROVE  /\ \A p \in Requests : p # o /\ request'[p].pc = "product" =>
                                request'[o].save \in beside'
                          /\ \A v \in variants' \ request'[o].found :
                                v[1] \in beside' /\ request'[o].save \in beside'
        BY DEF OverlapsAreSeen
      <4>1. o # r /\ request'[o] = request[o]
        BY <1>1, <3>7
      <4>2. request[o].save \in beside /\ q.save \in beside
        BY <2>1, <2>2, <4>1 DEF OverlapsAreSeen
      <4>3. \A v \in variants' \ request[o].found : v[1] \in beside
        BY <3>2, <4>1, <4>2 DEF OverlapsAreSeen
      <4> QED
        BY <2>3, <4>1, <4>2, <4>3
    <3>10. Prices!VariantsAreOneSave'
      <4>1. \A v \in variants \ q.found : v[1] \in beside /\ q.save \in beside
        BY <2>1, <2>2 DEF OverlapsAreSeen
      <4>2. \A v \in {q.save} \X q.values : v[1] = q.save
        OBVIOUS
      <4>3. ASSUME NEW v \in variants', NEW w \in variants', v[1] # w[1]
            PROVE  {v[1], w[1]} \subseteq beside
        <5>1. CASE v \in variants \ q.found /\ w \in variants \ q.found
          BY <4>1, <5>1
        <5>2. CASE v \in {q.save} \X q.values /\ w \in variants \ q.found
          BY <4>1, <4>2, <5>2
        <5>3. CASE w \in {q.save} \X q.values /\ v \in variants \ q.found
          BY <4>1, <4>2, <5>3
        <5>4. CASE v \in {q.save} \X q.values /\ w \in {q.save} \X q.values
          BY <4>2, <4>3, <5>4
        <5> QED
          BY <3>2, <5>1, <5>2, <5>3, <5>4
      <4> QED
        BY <2>3, <4>3 DEF Prices!VariantsAreOneSave
    <3> QED
      BY <3>5, <3>6, <3>8, <3>9, <3>10
  <2> QED
    BY <2>4, <2>5
<1>7. CASE Prices!DeleteProduct
  <2>1. /\ UNCHANGED <<variants, listed, rules, request, beside>>
        /\ active' = FALSE /\ saves < MaxSaves /\ saves' = saves + 1
    BY <1>7 DEF Prices!DeleteProduct
  <2>2. active' \in BOOLEAN
    BY <2>1
  <2>3. saves' \in 0 .. MaxSaves
    BY <2>1 DEF Prices!TypeOK
  <2>4. Prices!TypeOK'
    BY <2>1, <2>2, <2>3 DEF Prices!TypeOK
  <2> QED
    BY <2>1, <2>4
       DEF RequestsTyped, OverlapsAreSeen, RulesFit, Prices!ScopesClash,
           Prices!VariantsAreOneSave
<1>8. CASE UNCHANGED priceVars
  BY <1>8
     DEF priceVars, Prices!TypeOK, RequestsTyped, OverlapsAreSeen, RulesFit,
         Prices!ScopesClash, Prices!VariantsAreOneSave
<1> QED
  BY <1>2, <1>3, <1>4, <1>5, <1>6, <1>7, <1>8 DEF Prices!Next

LEMMA OneRuleApplies == CatalogInv => Prices!PricesAreUnambiguous
<1> SUFFICES ASSUME CatalogInv PROVE Prices!PricesAreUnambiguous
  OBVIOUS
<1>1. ASSUME NEW v PROVE Cardinality(Prices!ResolvePrice(v)) <= 1
  <2>1. \A i, j \in Prices!ResolvePrice(v) : i = j
    BY DEF Prices!ResolvePrice, CatalogInv, RulesFit, Prices!ScopesClash
  <2>2. CASE Prices!ResolvePrice(v) = {}
    BY <2>2, FS_EmptySet
  <2>3. CASE Prices!ResolvePrice(v) # {}
    <3>1. PICK i : Prices!ResolvePrice(v) = {i}
      BY <2>1, <2>3
    <3>2. Cardinality(Prices!ResolvePrice(v)) = 1
      BY <3>1, FS_Singleton
    <3> QED
      BY <3>2
  <2> QED
    BY <2>2, <2>3
<1> QED
  BY <1>1 DEF Prices!PricesAreUnambiguous, CatalogInv, RulesFit, Prices!Cardinality, Cardinality

-----------------------------------------------------------------------------
(* Access.                                                                 *)

(* Phases in which a tab knows a token.                                    *)
Holding == {"granted", "leaving", "out"}
Places == {"login", "inside"}
People == Emails \cup {Entrance!Nobody}

TabTyped(q) ==
    \/ q \in [page : Places, who : People, pc : {"rest"}]
    \/ q \in [page : Places, who : People, pc : Entrance!Pending \cup {"refused"}, email : Emails]
    \/ q \in [page : Places, who : People, pc : {"granted"}, token : 1 .. MaxTokens]
    \/ q \in [page : Places, who : People, pc : {"leaving", "out"}, token : 0 .. MaxTokens]

TabsTyped == tab = [t \in Tabs |-> tab[t]] /\ \A t \in Tabs : TabTyped(tab[t])

PendingTabs == {t \in Tabs : tab[t].pc \in Entrance!Pending}

(* The bound leaves a token for every sign-in under way.                   *)
TokensAreLeft == made + Cardinality(PendingTabs) <= MaxTokens

(* Only users get sessions.                                                *)
UsersSignIn == \A t \in Tabs : tab[t].pc = "session" => user[tab[t].email] # "none"

TokensAreMade == /\ cookie <= made
                 /\ \A s \in session : s.token <= made
                 /\ \A t \in Tabs : tab[t].pc \in Holding => tab[t].token <= made

(* A token that is granted has its session, and nobody knows it yet.       *)
GrantsAreNew ==
    \A t \in Tabs : tab[t].pc = "granted" =>
        /\ \E s \in session : s.token = tab[t].token
        /\ cookie # tab[t].token
        /\ \A u \in Tabs : u # t /\ tab[u].pc \in Holding => tab[u].token # tab[t].token

(* The cookie has its session, or the browser has not heard of the end.    *)
CookieIsHeld ==
    cookie # 0 => \/ \E s \in session : s.token = cookie
                  \/ cookie \in unheard
                  \/ \E t \in Tabs : tab[t].pc = "out" /\ tab[t].token = cookie

AccessInv == /\ Entrance!TypeOK /\ TabsTyped /\ TokensAreLeft /\ Entrance!ProvisionIsWhole
             /\ UsersSignIn /\ TokensAreMade /\ GrantsAreNew /\ CookieIsHeld

-----------------------------------------------------------------------------
LEMMA TabsAreFinite == Entrance!AccessAssumption => IsFiniteSet(Tabs)
  BY DEF Entrance!AccessAssumption, Entrance!IsFiniteSet, IsFiniteSet

LEMMA CountIn ==
    ASSUME NEW S, IsFiniteSet(S), NEW T \in SUBSET S
    PROVE  /\ IsFiniteSet(T) /\ Cardinality(T) \in Nat /\ Cardinality(S) \in Nat
           /\ Cardinality(T) <= Cardinality(S)
  BY FS_Subset, FS_CardinalityType

LEMMA CountOneMore ==
    ASSUME NEW S, IsFiniteSet(S), NEW x
    PROVE  Cardinality(S \cup {x}) \in Nat /\ Cardinality(S \cup {x}) <= Cardinality(S) + 1
<1>1. /\ IsFiniteSet(S \cup {x}) /\ Cardinality(S) \in Nat
      /\ Cardinality(S \cup {x}) = IF x \in S THEN Cardinality(S) ELSE Cardinality(S) + 1
  BY FS_AddElement, FS_CardinalityType
<1> QED
  BY <1>1

LEMMA CountOneLess ==
    ASSUME NEW S, IsFiniteSet(S), NEW x \in S
    PROVE  Cardinality(S) \in Nat /\ Cardinality(S \ {x}) = Cardinality(S) - 1
  BY FS_RemoveElement, FS_CardinalityType

-----------------------------------------------------------------------------
LEMMA TabIs ==
    ASSUME TabsTyped, NEW t \in Tabs, NEW q, tab' = [tab EXCEPT ![t] = q]
    PROVE  /\ tab'[t] = q /\ \A u \in Tabs \ {t} : tab'[u] = tab[u]
           /\ TabTyped(q) => TabsTyped'
<1>1. tab'[t] = q /\ \A u \in Tabs \ {t} : tab'[u] = tab[u]
  BY DEF TabsTyped
<1>2. tab' = [u \in Tabs |-> tab'[u]]
  BY DEF TabsTyped
<1> QED
  BY <1>1, <1>2 DEF TabsTyped

(* Sign-ins under way become no more but by the form.                      *)
LEMMA NoMorePending ==
    ASSUME Entrance!AccessAssumption, AccessInv, NEW t \in Tabs, NEW q,
           tab' = [tab EXCEPT ![t] = q],
           q.pc \in Entrance!Pending => tab[t].pc \in Entrance!Pending, UNCHANGED made
    PROVE  TokensAreLeft'
<1>1. PendingTabs' \subseteq PendingTabs
  <2>1. tab'[t] = q /\ \A u \in Tabs \ {t} : tab'[u] = tab[u]
    BY TabIs DEF AccessInv
  <2> QED
    BY <2>1 DEF PendingTabs
<1>2. IsFiniteSet(PendingTabs)
  BY TabsAreFinite, FS_Subset DEF Entrance!AccessAssumption, PendingTabs
<1>3. /\ Cardinality(PendingTabs') \in Nat /\ Cardinality(PendingTabs) \in Nat
      /\ Cardinality(PendingTabs') <= Cardinality(PendingTabs)
  BY <1>1, <1>2, CountIn
<1>4. made \in Nat /\ MaxTokens \in Nat
  BY DEF Entrance!AccessAssumption, AccessInv, Entrance!TypeOK
<1> QED
  BY <1>3, <1>4 DEF AccessInv, TokensAreLeft

(* A tab that goes on without a token.                                     *)
LEMMA TabGoesOn ==
    ASSUME Entrance!AccessAssumption, AccessInv, NEW t \in Tabs, NEW q, TabTyped(q),
           tab' = [tab EXCEPT ![t] = q],
           q.pc \notin Holding,
           q.pc = "session" => user[q.email] # "none",
           tab[t].pc = "out" => tab[t].token \in unheard',
           unheard \subseteq unheard', unheard' \subseteq 0 .. MaxTokens,
           tiers' \in 0 .. 1, faults' \in 0 .. MaxFaults,
           UNCHANGED <<user, customers, session, made, cookie>>, TokensAreLeft'
    PROVE  AccessInv'
<1>1. tab'[t] = q /\ (\A u \in Tabs \ {t} : tab'[u] = tab[u]) /\ TabsTyped'
  BY TabIs DEF AccessInv
<1>2. Entrance!TypeOK' /\ Entrance!ProvisionIsWhole'
  BY DEF AccessInv, Entrance!TypeOK, Entrance!ProvisionIsWhole
<1>3. UsersSignIn'
  BY <1>1 DEF AccessInv, UsersSignIn
<1>4. TokensAreMade'
  BY <1>1 DEF AccessInv, TokensAreMade
<1>5. GrantsAreNew'
  BY <1>1 DEF AccessInv, GrantsAreNew, Holding
<1>6. CookieIsHeld'
  BY <1>1 DEF AccessInv, CookieIsHeld
<1> QED
  BY <1>1, <1>2, <1>3, <1>4, <1>5, <1>6 DEF AccessInv

LEMMA Restful ==
    ASSUME NEW page \in Places, NEW who \in People
    PROVE  TabTyped(Entrance!Showing(page, who)) /\ Entrance!Showing(page, who).pc = "rest"
  BY DEF TabTyped, Entrance!Showing

LEMMA VisitsArePlaces ==
    ASSUME NEW page \in Places, NEW c PROVE Entrance!Visited(page, c) \in Places
  BY DEF Entrance!Visited, Places

(* A sign-in goes on to its next statement.                                *)
LEMMA NextStatement ==
    ASSUME AccessInv, NEW t \in Tabs, tab[t].pc \in Entrance!Pending, NEW pc \in Entrance!Pending \cup {"refused"},
           Entrance!GoOn(t, pc)
    PROVE  \E q : /\ TabTyped(q) /\ q.pc = pc /\ q.email = tab[t].email
                  /\ tab' = [tab EXCEPT ![t] = q]
<1>1. PICK e : e = tab[t]
  OBVIOUS
<1>2. e \in [page : Places, who : People, pc : Entrance!Pending \cup {"refused"}, email : Emails]
  BY <1>1 DEF AccessInv, TabsTyped, TabTyped, Entrance!Pending
<1>3. PICK q : q = [e EXCEPT !.pc = pc]
  OBVIOUS
<1>4. /\ q \in [page : Places, who : People, pc : Entrance!Pending \cup {"refused"}, email : Emails]
      /\ q.pc = pc /\ q.email = e.email
  BY <1>2, <1>3
<1>5. tab' = [tab EXCEPT ![t] = q]
  BY <1>1, <1>3 DEF Entrance!GoOn
<1> QED
  BY <1>1, <1>4, <1>5 DEF TabTyped

-----------------------------------------------------------------------------
LEMMA AccessStarts == ASSUME Entrance!AccessAssumption, Entrance!Init PROVE AccessInv
<1>1. Entrance!TypeOK
  BY DEF Entrance!AccessAssumption, Entrance!Init, Entrance!TypeOK
<1>2. \A t \in Tabs : TabTyped(tab[t]) /\ tab[t].pc = "rest"
  BY Restful DEF Entrance!Init, Places, People
<1>3. TabsTyped
  BY <1>2 DEF Entrance!Init, TabsTyped
<1>4. TokensAreLeft
  <2>1. PendingTabs = {}
    BY <1>2 DEF PendingTabs, Entrance!Pending
  <2>2. Cardinality(PendingTabs) = 0
    BY <2>1, FS_EmptySet
  <2> QED
    BY <2>2 DEF TokensAreLeft, Entrance!Init, Entrance!AccessAssumption
<1>5. Entrance!ProvisionIsWhole /\ UsersSignIn /\ TokensAreMade /\ GrantsAreNew /\ CookieIsHeld
  BY <1>2
     DEF Entrance!Init, Entrance!ProvisionIsWhole, UsersSignIn, TokensAreMade, GrantsAreNew,
         CookieIsHeld, Holding
<1> QED
  BY <1>1, <1>3, <1>4, <1>5 DEF AccessInv

LEMMA SubmitKeeps ==
    ASSUME Entrance!AccessAssumption, AccessInv, NEW t \in Tabs, Entrance!SubmitLogin(t) PROVE AccessInv'
<1>1. PICK e \in Emails :
        tab' = [tab EXCEPT ![t] = [page |-> "login", who |-> Entrance!Nobody, pc |-> "find", email |-> e]]
  BY DEF Entrance!SubmitLogin
<1>2. PICK q : q = [page |-> "login", who |-> Entrance!Nobody, pc |-> "find", email |-> e]
  OBVIOUS
<1>3. TabTyped(q) /\ q.pc = "find"
  BY <1>2 DEF TabTyped, Places, People, Entrance!Pending
<1>4. tab' = [tab EXCEPT ![t] = q] /\ UNCHANGED <<user, customers, tiers, session, made, cookie, faults, unheard>>
  BY <1>1, <1>2 DEF Entrance!SubmitLogin
<1>5. TokensAreLeft'
  <2>1. tab'[t] = q /\ \A u \in Tabs \ {t} : tab'[u] = tab[u]
    BY <1>4, TabIs DEF AccessInv
  <2>2. PendingTabs' = PendingTabs \cup {t}
    BY <1>3, <2>1 DEF PendingTabs, Entrance!Pending
  <2>3. IsFiniteSet(PendingTabs)
    BY TabsAreFinite, FS_Subset DEF Entrance!AccessAssumption, PendingTabs
  <2>4. /\ Cardinality(PendingTabs) \in Nat /\ Cardinality(PendingTabs') \in Nat
        /\ Cardinality(PendingTabs') <= Cardinality(PendingTabs) + 1
    BY <2>2, <2>3, CountOneMore, CountIn
  <2>5. made + Cardinality(PendingTabs) < MaxTokens
    BY DEF Entrance!SubmitLogin, PendingTabs, Entrance!Cardinality, Cardinality
  <2>6. made \in Nat /\ MaxTokens \in Nat
    BY DEF Entrance!AccessAssumption, AccessInv, Entrance!TypeOK
  <2> QED
    BY <1>4, <2>4, <2>5, <2>6 DEF TokensAreLeft
<1>6. tab[t].pc = "rest"
  BY DEF Entrance!SubmitLogin
<1> QED
  BY <1>3, <1>4, <1>5, <1>6, TabGoesOn DEF AccessInv, Entrance!TypeOK, Holding

LEMMA SignInKeeps ==
    ASSUME Entrance!AccessAssumption, AccessInv, NEW t \in Tabs,
           Entrance!FindUser(t) \/ Entrance!FindTier(t) \/ Entrance!CreateTier(t)
    PROVE  AccessInv'
<1>1. PICK pc \in Entrance!Pending \cup {"refused"} :
        /\ Entrance!GoOn(t, pc) /\ tab[t].pc \in Entrance!Pending
        /\ pc = "session" => user[tab[t].email] # "none"
  <2>1. CASE Entrance!FindUser(t)
    <3>1. CASE user[tab[t].email] = "none"
      BY <2>1, <3>1 DEF Entrance!FindUser, Entrance!Pending, Entrance!At
    <3>2. CASE user[tab[t].email] = "inactive"
      BY <2>1, <3>2 DEF Entrance!FindUser, Entrance!Pending, Entrance!At
    <3>3. CASE user[tab[t].email] \notin {"none", "inactive"}
      <4>1. PICK pc \in {"session", "refused"} : Entrance!GoOn(t, pc)
        BY <2>1, <3>3 DEF Entrance!FindUser
      <4> QED
        BY <2>1, <3>3, <4>1 DEF Entrance!FindUser, Entrance!Pending, Entrance!At
    <3> QED
      BY <3>1, <3>2, <3>3
  <2>2. CASE Entrance!FindTier(t)
    BY <2>2 DEF Entrance!FindTier, Entrance!Pending, Entrance!At
  <2>3. CASE Entrance!CreateTier(t)
    BY <2>3 DEF Entrance!CreateTier, Entrance!Pending, Entrance!At
  <2> QED
    BY <2>1, <2>2, <2>3
<1>2. PICK q : /\ TabTyped(q) /\ q.pc = pc /\ q.email = tab[t].email
               /\ tab' = [tab EXCEPT ![t] = q]
  BY <1>1, NextStatement
<1>3. UNCHANGED <<user, customers, session, made, cookie, faults, unheard>> /\ tiers' \in 0 .. 1
  BY DEF Entrance!FindUser, Entrance!FindTier, Entrance!CreateTier, AccessInv, Entrance!TypeOK
<1>4. TokensAreLeft'
  BY <1>1, <1>2, <1>3, NoMorePending
<1>5. q.pc \notin Holding /\ tab[t].pc # "out"
  BY <1>1, <1>2 DEF Entrance!Pending, Holding
<1> QED
  BY <1>1, <1>2, <1>3, <1>4, <1>5, TabGoesOn DEF AccessInv, Entrance!TypeOK

LEMMA ProvisionKeeps ==
    ASSUME Entrance!AccessAssumption, AccessInv, NEW t \in Tabs, Entrance!Provision(t) PROVE AccessInv'
<1>1. tab[t].pc = "provision" /\ UNCHANGED <<tiers, session, made, cookie, faults, unheard>>
  BY DEF Entrance!Provision, Entrance!At
<1>2. PICK e : e = tab[t].email
  OBVIOUS
<1>3. e \in Emails
  BY <1>1, <1>2 DEF AccessInv, TabsTyped, TabTyped, Entrance!Pending
<1>4. CASE user[e] # "none"
  <2>1. Entrance!GoOn(t, "refused") /\ UNCHANGED <<customers, user>>
    BY <1>2, <1>4 DEF Entrance!Provision
  <2>2. PICK q : TabTyped(q) /\ q.pc = "refused" /\ tab' = [tab EXCEPT ![t] = q]
    BY <1>1, <2>1, NextStatement DEF Entrance!Pending
  <2>3. TokensAreLeft'
    BY <1>1, <2>2, NoMorePending DEF Entrance!Pending
  <2> QED
    BY <1>1, <2>1, <2>2, <2>3, TabGoesOn DEF AccessInv, Entrance!TypeOK, Holding
<1>5. CASE user[e] = "none"
  <2>1. /\ Entrance!GoOn(t, "session") /\ user' = [user EXCEPT ![e] = "active"]
        /\ customers' = customers \cup {[email |-> e, tab |-> t]}
    BY <1>2, <1>5 DEF Entrance!Provision
  <2>2. PICK q : TabTyped(q) /\ q.pc = "session" /\ q.email = e /\ tab' = [tab EXCEPT ![t] = q]
    BY <1>1, <1>2, <2>1, NextStatement DEF Entrance!Pending
  <2>3. tab'[t] = q /\ (\A u \in Tabs \ {t} : tab'[u] = tab[u]) /\ TabsTyped'
    BY <2>2, TabIs DEF AccessInv
  <2>4. TokensAreLeft'
    BY <1>1, <2>2, NoMorePending DEF Entrance!Pending
  <2>5. user'[e] = "active" /\ \A f \in Emails : f # e => user'[f] = user[f]
    BY <1>3, <2>1 DEF AccessInv, Entrance!TypeOK
  <2>6. Entrance!TypeOK'
    <3>1. user' \in [Emails -> {"none", "active", "inactive"}]
      BY <2>1 DEF AccessInv, Entrance!TypeOK
    <3>2. customers' \subseteq [email : Emails, tab : Tabs]
      BY <1>3, <2>1 DEF AccessInv, Entrance!TypeOK
    <3> QED
      BY <1>1, <3>1, <3>2 DEF AccessInv, Entrance!TypeOK
  <2>7. Entrance!ProvisionIsWhole'
    <3>1. \A c \in customers : c.email # e /\ c.email \in Emails
      BY <1>5 DEF AccessInv, Entrance!ProvisionIsWhole, Entrance!TypeOK
    <3>2. \A s \in session : s.email \in Emails
      BY DEF AccessInv, Entrance!TypeOK
    <3>3. \A c, d \in customers' : c.email = d.email => c = d
      BY <2>1, <3>1 DEF AccessInv, Entrance!ProvisionIsWhole
    <3> QED
      BY <1>1, <2>1, <2>5, <3>1, <3>2, <3>3 DEF AccessInv, Entrance!ProvisionIsWhole
  <2>8. UsersSignIn'
    <3>1. \A u \in Tabs : tab[u].pc = "session" => tab[u].email \in Emails
      BY DEF AccessInv, TabsTyped, TabTyped
    <3> QED
      BY <2>2, <2>3, <2>5, <3>1 DEF AccessInv, UsersSignIn
  <2>9. TokensAreMade' /\ GrantsAreNew'
    BY <1>1, <2>2, <2>3 DEF AccessInv, TokensAreMade, GrantsAreNew, Holding
  <2>10. CookieIsHeld'
    BY <1>1, <2>2, <2>3 DEF AccessInv, CookieIsHeld
  <2> QED
    BY <2>3, <2>4, <2>6, <2>7, <2>8, <2>9, <2>10 DEF AccessInv
<1> QED
  BY <1>4, <1>5

LEMMA SessionKeeps ==
    ASSUME Entrance!AccessAssumption, AccessInv, NEW t \in Tabs, Entrance!CreateSession(t) PROVE AccessInv'
<1>1. /\ tab[t].pc = "session" /\ made' = made + 1
      /\ UNCHANGED <<user, customers, tiers, cookie, faults, unheard>>
  BY DEF Entrance!CreateSession, Entrance!At
<1>2. PICK e : e = tab[t].email
  OBVIOUS
<1>3. e \in Emails /\ user[e] # "none"
  BY <1>1, <1>2 DEF AccessInv, TabsTyped, TabTyped, Entrance!Pending, UsersSignIn
<1>4. PICK q : q = [page |-> "login", who |-> Entrance!Nobody, pc |-> "granted", token |-> made + 1]
  OBVIOUS
<1>5. tab' = [tab EXCEPT ![t] = q] /\ session' = session \cup {[token |-> made + 1, email |-> e]}
  BY <1>2, <1>4 DEF Entrance!CreateSession
<1>6. made \in Nat /\ MaxTokens \in Nat
  BY DEF Entrance!AccessAssumption, AccessInv, Entrance!TypeOK
<1>7. /\ made + 1 <= MaxTokens
      /\ TokensAreLeft'
  <2>1. IsFiniteSet(PendingTabs) /\ t \in PendingTabs
    BY <1>1, TabsAreFinite, FS_Subset
       DEF Entrance!AccessAssumption, PendingTabs, Entrance!Pending
  <2>2. Cardinality(PendingTabs) \in Nat /\ Cardinality(PendingTabs \ {t}) = Cardinality(PendingTabs) - 1
    BY <2>1, CountOneLess
  <2>3. Cardinality(PendingTabs \ {t}) \in Nat
    BY <2>1, CountIn
  <2>4. PendingTabs' = PendingTabs \ {t}
    <3>1. tab'[t] = q /\ \A u \in Tabs \ {t} : tab'[u] = tab[u]
      BY <1>5, TabIs DEF AccessInv
    <3> QED
      BY <1>4, <3>1 DEF PendingTabs, Entrance!Pending
  <2>5. made + Cardinality(PendingTabs) <= MaxTokens
    BY DEF AccessInv, TokensAreLeft
  <2> QED
    BY <1>1, <1>6, <2>2, <2>3, <2>4, <2>5 DEF TokensAreLeft
<1>8. TabTyped(q) /\ q.pc = "granted" /\ q.token = made + 1
  BY <1>4, <1>6, <1>7 DEF TabTyped, Places, People
<1>9. tab'[t] = q /\ (\A u \in Tabs \ {t} : tab'[u] = tab[u]) /\ TabsTyped'
  BY <1>5, <1>8, TabIs DEF AccessInv
<1>10. Entrance!TypeOK'
  <2>1. session' \subseteq [token : 1 .. MaxTokens, email : Emails]
    BY <1>3, <1>5, <1>6, <1>7 DEF AccessInv, Entrance!TypeOK
  <2>2. made' \in 0 .. MaxTokens
    BY <1>1, <1>6, <1>7
  <2> QED
    BY <1>1, <2>1, <2>2 DEF AccessInv, Entrance!TypeOK
<1>11. Entrance!ProvisionIsWhole' /\ UsersSignIn'
  <2>1. Entrance!ProvisionIsWhole'
    BY <1>1, <1>3, <1>5 DEF AccessInv, Entrance!ProvisionIsWhole
  <2>2. UsersSignIn'
    BY <1>1, <1>8, <1>9 DEF AccessInv, UsersSignIn
  <2> QED
    BY <2>1, <2>2
<1>12. /\ cookie \in Nat /\ cookie <= made
       /\ \A s \in session : s.token \in Nat /\ s.token <= made
       /\ \A u \in Tabs : tab[u].pc \in Holding => tab[u].token \in Nat /\ tab[u].token <= made
  <2>1. cookie \in Nat /\ \A s \in session : s.token \in Nat
    BY DEF AccessInv, Entrance!TypeOK
  <2>2. \A u \in Tabs : tab[u].pc \in Holding => tab[u].token \in Nat
    BY DEF AccessInv, TabsTyped, TabTyped, Holding, Entrance!Pending
  <2> QED
    BY <2>1, <2>2 DEF AccessInv, TokensAreMade
<1>13. TokensAreMade'
  <2>1. \A s \in session' : s.token <= made + 1
    BY <1>5, <1>6, <1>12
  <2>2. \A u \in Tabs : tab'[u].pc \in Holding => tab'[u].token <= made + 1
    BY <1>6, <1>8, <1>9, <1>12
  <2> QED
    BY <1>1, <1>6, <1>12, <2>1, <2>2 DEF TokensAreMade
<1>14. GrantsAreNew'
  <2>1. cookie # made + 1 /\ \A u \in Tabs : tab[u].pc \in Holding => tab[u].token # made + 1
    BY <1>6, <1>12
  <2>2. \E s \in session' : s.token = made + 1
    <3>1. [token |-> made + 1, email |-> e] \in session'
      BY <1>5
    <3> QED
      BY <3>1
  <2> SUFFICES ASSUME NEW u \in Tabs, tab'[u].pc = "granted"
               PROVE  /\ \E s \in session' : s.token = tab'[u].token
                      /\ cookie # tab'[u].token
                      /\ \A v \in Tabs : v # u /\ tab'[v].pc \in Holding => tab'[v].token # tab'[u].token
    BY <1>1 DEF GrantsAreNew
  <2>3. CASE u = t
    BY <1>8, <1>9, <2>1, <2>2, <2>3
  <2>4. CASE u # t
    <3>1. tab'[u] = tab[u] /\ tab[u].token # made + 1
      BY <1>9, <2>1, <2>4 DEF Holding
    <3> QED
      BY <1>5, <1>8, <1>9, <2>4, <3>1 DEF AccessInv, GrantsAreNew
  <2> QED
    BY <2>3, <2>4
<1>15. CookieIsHeld'
  BY <1>1, <1>5, <1>9 DEF AccessInv, CookieIsHeld
<1> QED
  BY <1>7, <1>9, <1>10, <1>11, <1>13, <1>14, <1>15 DEF AccessInv

LEMMA AnswerKeeps ==
    ASSUME Entrance!AccessAssumption, AccessInv, NEW t \in Tabs, Entrance!LoginAnswer(t) PROVE AccessInv'
<1>1. PICK q : q = Entrance!Showing("inside", Entrance!Nobody)
  OBVIOUS
<1>2. TabTyped(q) /\ q.pc = "rest"
  BY <1>1, Restful DEF Places, People
<1>3. /\ tab[t].pc = "granted" /\ cookie' = tab[t].token /\ tab' = [tab EXCEPT ![t] = q]
      /\ UNCHANGED <<user, customers, tiers, session, made, faults, unheard>>
  BY <1>1 DEF Entrance!LoginAnswer, Entrance!At
<1>4. tab'[t] = q /\ (\A u \in Tabs \ {t} : tab'[u] = tab[u]) /\ TabsTyped'
  BY <1>2, <1>3, TabIs DEF AccessInv
<1>5. TokensAreLeft'
  BY <1>2, <1>3, NoMorePending DEF Entrance!Pending
<1>6. tab[t].token \in 1 .. MaxTokens
  BY <1>3 DEF AccessInv, TabsTyped, TabTyped, Entrance!Pending
<1>7. Entrance!TypeOK' /\ Entrance!ProvisionIsWhole'
  BY <1>3, <1>6 DEF AccessInv, Entrance!TypeOK, Entrance!ProvisionIsWhole
<1>8. UsersSignIn'
  BY <1>2, <1>3, <1>4 DEF AccessInv, UsersSignIn
<1>9. TokensAreMade'
  BY <1>2, <1>3, <1>4 DEF AccessInv, TokensAreMade, Holding
<1>10. GrantsAreNew'
  BY <1>2, <1>3, <1>4 DEF AccessInv, GrantsAreNew, Holding
<1>11. CookieIsHeld'
  BY <1>3 DEF AccessInv, CookieIsHeld, GrantsAreNew
<1> QED
  BY <1>4, <1>5, <1>7, <1>8, <1>9, <1>10, <1>11 DEF AccessInv

LEMMA PageKeeps ==
    ASSUME Entrance!AccessAssumption, AccessInv, NEW t \in Tabs,
           Entrance!LoginRefused(t) \/ Entrance!Visit(t) \/ Entrance!CurrentUser(t) \/ Entrance!Fail(t)
    PROVE  AccessInv'
<1>1. PICK q : TabTyped(q) /\ q.pc = "rest" /\ tab' = [tab EXCEPT ![t] = q]
  <2>1. CASE Entrance!LoginRefused(t)
    BY <2>1, Restful DEF Entrance!LoginRefused, Places, People
  <2>2. CASE Entrance!Visit(t)
    BY <2>2, Restful, VisitsArePlaces DEF Entrance!Visit, Places, People
  <2>3. CASE Entrance!CurrentUser(t)
    <3>1. PICK e : e = tab[t]
      OBVIOUS
    <3>2. e \in [page : Places, who : People, pc : {"rest"}]
      BY <2>3, <3>1
         DEF Entrance!CurrentUser, Entrance!At, AccessInv, TabsTyped, TabTyped, Entrance!Pending
    <3>3. Entrance!SessionUser(cookie) \in People
      <4>1. PICK owners : owners = {s.email : s \in {x \in session : x.token = cookie /\ user[x.email] = "active"}}
        OBVIOUS
      <4>2. owners \subseteq Emails
        BY <4>1 DEF AccessInv, Entrance!TypeOK
      <4>3. Entrance!SessionUser(cookie) = IF owners = {} THEN Entrance!Nobody ELSE CHOOSE x \in owners : TRUE
        BY <4>1 DEF Entrance!SessionUser
      <4>4. owners # {} => (CHOOSE x \in owners : TRUE) \in owners
        OBVIOUS
      <4> QED
        BY <4>2, <4>3, <4>4 DEF People
    <3>4. PICK q : q = [e EXCEPT !.who = Entrance!SessionUser(cookie)]
      OBVIOUS
    <3>5. q \in [page : Places, who : People, pc : {"rest"}]
      BY <3>2, <3>3, <3>4
    <3>6. tab' = [tab EXCEPT ![t] = q]
      BY <2>3, <3>1, <3>4 DEF Entrance!CurrentUser
    <3> QED
      BY <3>5, <3>6 DEF TabTyped
  <2>4. CASE Entrance!Fail(t)
    <3>1. PICK page \in Places : tab' = [tab EXCEPT ![t] = Entrance!Showing(page, Entrance!Nobody)]
      BY <2>4, VisitsArePlaces DEF Entrance!Fail, Places
    <3> QED
      BY <3>1, Restful DEF People
  <2> QED
    BY <2>1, <2>2, <2>3, <2>4
<1>2. UNCHANGED <<user, customers, tiers, session, made, cookie>>
  BY DEF Entrance!LoginRefused, Entrance!Visit, Entrance!CurrentUser, Entrance!Fail
<1>3. TokensAreLeft'
  BY <1>1, <1>2, NoMorePending DEF Entrance!Pending
<1>4. /\ tab[t].pc = "out" => tab[t].token \in unheard'
      /\ unheard \subseteq unheard' /\ unheard' \subseteq 0 .. MaxTokens
      /\ faults' \in 0 .. MaxFaults
  <2>1. CASE Entrance!Fail(t)
    <3>1. tab[t].pc = "out" => tab[t].token \in 0 .. MaxTokens
      BY DEF AccessInv, TabsTyped, TabTyped, Entrance!Pending
    <3>2. unheard' = IF tab[t].pc = "out" THEN unheard \cup {tab[t].token} ELSE unheard
      BY <2>1 DEF Entrance!Fail, Entrance!At
    <3>3. faults' \in 0 .. MaxFaults
      BY <2>1 DEF Entrance!Fail, AccessInv, Entrance!TypeOK, Entrance!AccessAssumption
    <3>4. unheard \subseteq 0 .. MaxTokens
      BY DEF AccessInv, Entrance!TypeOK
    <3> QED
      BY <3>1, <3>2, <3>3, <3>4
  <2>2. CASE ~Entrance!Fail(t)
    <3>1. tab[t].pc # "out" /\ UNCHANGED <<faults, unheard>>
      BY <2>2 DEF Entrance!LoginRefused, Entrance!Visit, Entrance!CurrentUser, Entrance!At
    <3> QED
      BY <3>1 DEF AccessInv, Entrance!TypeOK
  <2> QED
    BY <2>1, <2>2
<1>5. tiers' \in 0 .. 1 /\ q.pc \notin Holding
  BY <1>1, <1>2 DEF AccessInv, Entrance!TypeOK, Holding
<1> QED
  BY <1>1, <1>2, <1>3, <1>4, <1>5, TabGoesOn

LEMMA SignOutKeeps ==
    ASSUME Entrance!AccessAssumption, AccessInv, NEW t \in Tabs, Entrance!SignOut(t) PROVE AccessInv'
<1>1. PICK q : q = [page |-> "inside", who |-> tab[t].who, pc |-> "leaving", token |-> cookie]
  OBVIOUS
<1>2. /\ tab[t].pc = "rest" /\ tab' = [tab EXCEPT ![t] = q]
      /\ UNCHANGED <<user, customers, tiers, session, made, cookie, faults, unheard>>
  BY <1>1 DEF Entrance!SignOut, Entrance!At
<1>3. TabTyped(q) /\ q.pc = "leaving" /\ q.token = cookie
  <2>1. tab[t].who \in People
    BY DEF AccessInv, TabsTyped, TabTyped
  <2>2. cookie \in 0 .. MaxTokens
    BY DEF AccessInv, Entrance!TypeOK
  <2> QED
    BY <1>1, <2>1, <2>2 DEF TabTyped, Places
<1>4. tab'[t] = q /\ (\A u \in Tabs \ {t} : tab'[u] = tab[u]) /\ TabsTyped'
  BY <1>2, <1>3, TabIs DEF AccessInv
<1>5. TokensAreLeft'
  BY <1>2, <1>3, NoMorePending DEF Entrance!Pending
<1>6. Entrance!TypeOK' /\ Entrance!ProvisionIsWhole'
  BY <1>2 DEF AccessInv, Entrance!TypeOK, Entrance!ProvisionIsWhole
<1>7. UsersSignIn' /\ CookieIsHeld'
  BY <1>2, <1>3, <1>4 DEF AccessInv, UsersSignIn, CookieIsHeld
<1>8. TokensAreMade'
  BY <1>2, <1>3, <1>4 DEF AccessInv, TokensAreMade, Holding
<1>9. GrantsAreNew'
  BY <1>2, <1>3, <1>4 DEF AccessInv, GrantsAreNew, Holding
<1> QED
  BY <1>4, <1>5, <1>6, <1>7, <1>8, <1>9 DEF AccessInv

LEMMA LeaveKeeps ==
    ASSUME Entrance!AccessAssumption, AccessInv, NEW t \in Tabs, Entrance!DestroySession(t) PROVE AccessInv'
<1>1. /\ tab[t].pc = "leaving" /\ session' = {s \in session : s.token # tab[t].token}
      /\ UNCHANGED <<user, customers, tiers, made, cookie, faults, unheard>>
  BY DEF Entrance!DestroySession, Entrance!At
<1>2. PICK q : /\ TabTyped(q) /\ q.pc = "out" /\ q.token = tab[t].token
               /\ tab' = [tab EXCEPT ![t] = q]
  <2>1. PICK e : e = tab[t]
    OBVIOUS
  <2>2. e \in [page : Places, who : People, pc : {"leaving", "out"}, token : 0 .. MaxTokens]
    BY <1>1, <2>1 DEF AccessInv, TabsTyped, TabTyped, Entrance!Pending
  <2>3. PICK q : q = [e EXCEPT !.pc = "out"]
    OBVIOUS
  <2>4. /\ q \in [page : Places, who : People, pc : {"leaving", "out"}, token : 0 .. MaxTokens]
        /\ q.pc = "out" /\ q.token = e.token
    BY <2>2, <2>3
  <2>5. tab' = [tab EXCEPT ![t] = q]
    BY <2>1, <2>3 DEF Entrance!DestroySession, Entrance!GoOn
  <2> QED
    BY <2>1, <2>4, <2>5 DEF TabTyped
<1>3. tab'[t] = q /\ (\A u \in Tabs \ {t} : tab'[u] = tab[u]) /\ TabsTyped'
  BY <1>2, TabIs DEF AccessInv
<1>4. TokensAreLeft'
  BY <1>1, <1>2, NoMorePending DEF Entrance!Pending
<1>5. Entrance!TypeOK' /\ Entrance!ProvisionIsWhole'
  BY <1>1 DEF AccessInv, Entrance!TypeOK, Entrance!ProvisionIsWhole
<1>6. UsersSignIn'
  BY <1>1, <1>2, <1>3 DEF AccessInv, UsersSignIn
<1>7. TokensAreMade'
  BY <1>1, <1>2, <1>3 DEF AccessInv, TokensAreMade, Holding
<1>8. GrantsAreNew'
  <2> SUFFICES ASSUME NEW u \in Tabs, tab'[u].pc = "granted"
               PROVE  /\ \E s \in session' : s.token = tab'[u].token
                      /\ cookie # tab'[u].token
                      /\ \A v \in Tabs : v # u /\ tab'[v].pc \in Holding => tab'[v].token # tab'[u].token
    BY <1>1 DEF GrantsAreNew
  <2>1. u # t /\ tab'[u] = tab[u]
    BY <1>2, <1>3
  <2>2. tab[t].token # tab[u].token
    BY <1>1, <2>1 DEF AccessInv, GrantsAreNew, Holding
  <2>3. \E s \in session : s.token = tab[u].token
    BY <2>1 DEF AccessInv, GrantsAreNew
  <2>4. \E s \in session' : s.token = tab[u].token
    BY <1>1, <2>2, <2>3
  <2> QED
    BY <1>1, <1>2, <1>3, <2>1, <2>2, <2>4 DEF AccessInv, GrantsAreNew, Holding
<1>9. CookieIsHeld'
  <2>1. CASE cookie = tab[t].token
    BY <1>1, <1>2, <1>3, <2>1 DEF CookieIsHeld
  <2>2. CASE cookie # tab[t].token
    BY <1>1, <1>3, <2>2 DEF AccessInv, CookieIsHeld
  <2> QED
    BY <2>1, <2>2
<1> QED
  BY <1>3, <1>4, <1>5, <1>6, <1>7, <1>8, <1>9 DEF AccessInv

LEMMA LogoutKeeps ==
    ASSUME Entrance!AccessAssumption, AccessInv, NEW t \in Tabs, Entrance!LogoutAnswer(t) PROVE AccessInv'
<1>1. PICK q : q = Entrance!Showing("login", Entrance!Nobody)
  OBVIOUS
<1>2. TabTyped(q) /\ q.pc = "rest"
  BY <1>1, Restful DEF Places, People
<1>3. /\ tab[t].pc = "out" /\ cookie' = 0 /\ tab' = [tab EXCEPT ![t] = q]
      /\ UNCHANGED <<user, customers, tiers, session, made, faults, unheard>>
  BY <1>1 DEF Entrance!LogoutAnswer, Entrance!At
<1>4. tab'[t] = q /\ (\A u \in Tabs \ {t} : tab'[u] = tab[u]) /\ TabsTyped'
  BY <1>2, <1>3, TabIs DEF AccessInv
<1>5. TokensAreLeft'
  BY <1>2, <1>3, NoMorePending DEF Entrance!Pending
<1>6. Entrance!TypeOK' /\ Entrance!ProvisionIsWhole'
  BY <1>3 DEF AccessInv, Entrance!TypeOK, Entrance!ProvisionIsWhole, Entrance!AccessAssumption
<1>7. UsersSignIn' /\ CookieIsHeld'
  BY <1>2, <1>3, <1>4 DEF AccessInv, UsersSignIn, CookieIsHeld
<1>8. TokensAreMade'
  <2>1. made \in Nat
    BY DEF AccessInv, Entrance!TypeOK
  <2> QED
    BY <1>2, <1>3, <1>4, <2>1 DEF AccessInv, TokensAreMade, Holding
<1>9. GrantsAreNew'
  <2>1. \A u \in Tabs : tab[u].pc = "granted" => tab[u].token # 0
    BY DEF AccessInv, TabsTyped, TabTyped, Entrance!Pending
  <2> QED
    BY <1>2, <1>3, <1>4, <2>1 DEF AccessInv, GrantsAreNew, Holding
<1> QED
  BY <1>4, <1>5, <1>6, <1>7, <1>8, <1>9 DEF AccessInv

LEMMA AdministerKeeps ==
    ASSUME Entrance!AccessAssumption, AccessInv, Entrance!Administer PROVE AccessInv'
<1>1. UNCHANGED <<customers, tiers, session, made, cookie, tab, faults, unheard>>
  BY DEF Entrance!Administer
<1>2. PICK e \in Emails : Entrance!CreateUser(e) \/ Entrance!DeleteUser(e) \/ Entrance!UpdateUser(e)
  BY DEF Entrance!Administer
<1>3. PICK s \in {"active", "inactive"} : user' = [user EXCEPT ![e] = s]
  BY <1>2 DEF Entrance!CreateUser, Entrance!DeleteUser, Entrance!UpdateUser
<1>4. user' \in [Emails -> {"none", "active", "inactive"}]
  BY <1>3 DEF AccessInv, Entrance!TypeOK
<1>5. \A f \in Emails : user[f] # "none" => user'[f] # "none"
  BY <1>3 DEF AccessInv, Entrance!TypeOK
<1>6. Entrance!TypeOK'
  BY <1>1, <1>4 DEF AccessInv, Entrance!TypeOK
<1>7. Entrance!ProvisionIsWhole'
  <2>1. (\A c \in customers : c.email \in Emails) /\ (\A x \in session : x.email \in Emails)
    BY DEF AccessInv, Entrance!TypeOK
  <2> QED
    BY <1>1, <1>5, <2>1 DEF AccessInv, Entrance!ProvisionIsWhole
<1>8. UsersSignIn'
  <2>1. \A u \in Tabs : tab[u].pc = "session" => tab[u].email \in Emails
    BY DEF AccessInv, TabsTyped, TabTyped
  <2> QED
    BY <1>1, <1>5, <2>1 DEF AccessInv, UsersSignIn
<1>9. TabsTyped' /\ TokensAreLeft'
  BY <1>1 DEF AccessInv, TabsTyped, TokensAreLeft, PendingTabs
<1>10. TokensAreMade' /\ GrantsAreNew' /\ CookieIsHeld'
  BY <1>1 DEF AccessInv, TokensAreMade, GrantsAreNew, CookieIsHeld
<1> QED
  BY <1>6, <1>7, <1>8, <1>9, <1>10 DEF AccessInv

LEMMA ExpireKeeps ==
    ASSUME Entrance!AccessAssumption, AccessInv, Entrance!Expire PROVE AccessInv'
<1>1. PICK k \in Entrance!Tokens :
        /\ session' = {s \in session : s.token # k}
        /\ cookie' = IF cookie = k THEN 0 ELSE cookie
        /\ \A t \in Tabs : "token" \in DOMAIN tab[t] => tab[t].token # k
  BY DEF Entrance!Expire
<1>2. UNCHANGED <<user, customers, tiers, made, tab, faults, unheard>>
  BY DEF Entrance!Expire
<1>3. \A t \in Tabs : tab[t].pc \in Holding => tab[t].token # k
  <2>1. ASSUME NEW t \in Tabs, tab[t].pc \in Holding PROVE "token" \in DOMAIN tab[t]
    BY <2>1 DEF AccessInv, TabsTyped, TabTyped, Holding, Entrance!Pending
  <2> QED
    BY <1>1, <2>1
<1>4. Entrance!TypeOK' /\ Entrance!ProvisionIsWhole'
  BY <1>1, <1>2
     DEF AccessInv, Entrance!TypeOK, Entrance!ProvisionIsWhole, Entrance!AccessAssumption
<1>5. TabsTyped' /\ TokensAreLeft' /\ UsersSignIn'
  BY <1>2 DEF AccessInv, TabsTyped, TokensAreLeft, PendingTabs, UsersSignIn
<1>6. TokensAreMade'
  <2>1. made \in Nat
    BY DEF AccessInv, Entrance!TypeOK
  <2> QED
    BY <1>1, <1>2, <2>1 DEF AccessInv, TokensAreMade
<1>7. GrantsAreNew'
  <2>1. \A t \in Tabs : tab[t].pc = "granted" => tab[t].token # 0
    BY DEF AccessInv, TabsTyped, TabTyped, Entrance!Pending
  <2> QED
    BY <1>1, <1>2, <1>3, <2>1 DEF AccessInv, GrantsAreNew, Holding
<1>8. CookieIsHeld'
  BY <1>1, <1>2 DEF AccessInv, CookieIsHeld
<1> QED
  BY <1>4, <1>5, <1>6, <1>7, <1>8 DEF AccessInv

LEMMA AccessGoesOn ==
    ASSUME Entrance!AccessAssumption, AccessInv, [Entrance!Next]_accessVars PROVE AccessInv'
<1>1. CASE UNCHANGED accessVars
  BY <1>1
     DEF accessVars, AccessInv, Entrance!TypeOK, TabsTyped, TokensAreLeft, PendingTabs,
         Entrance!ProvisionIsWhole,
              UsersSignIn, TokensAreMade, GrantsAreNew, CookieIsHeld
<1> QED
  BY <1>1, SubmitKeeps, SignInKeeps, ProvisionKeeps, SessionKeeps, AnswerKeeps, PageKeeps,
     SignOutKeeps, LeaveKeeps, LogoutKeeps, AdministerKeeps, ExpireKeeps DEF Entrance!Next

LEMMA FormInReach == Entrance!AccessAssumption /\ AccessInv => Entrance!TheFormIsInReach
<1> SUFFICES ASSUME Entrance!AccessAssumption, AccessInv, cookie # 0
             PROVE  Entrance!SessionUser(cookie) # Entrance!Nobody \/ Entrance!Excused(cookie)
  BY DEF Entrance!TheFormIsInReach, Entrance!Visited
<1>1. ASSUME NEW s \in session, s.token = cookie
      PROVE  Entrance!SessionUser(cookie) # Entrance!Nobody \/ Entrance!Excused(cookie)
  <2>1. s.email \in Emails /\ user[s.email] \in {"active", "inactive"}
    BY DEF AccessInv, Entrance!TypeOK, Entrance!ProvisionIsWhole
  <2>2. CASE user[s.email] = "inactive"
    BY <1>1, <2>2 DEF Entrance!Excused
  <2>3. CASE user[s.email] = "active"
    <3>1. PICK owners : owners = {x.email : x \in {y \in session : y.token = cookie /\ user[y.email] = "active"}}
      OBVIOUS
    <3>2. owners \subseteq Emails /\ s.email \in owners
      BY <1>1, <2>3, <3>1 DEF AccessInv, Entrance!TypeOK
    <3>3. Entrance!SessionUser(cookie) = CHOOSE e \in owners : TRUE
      BY <3>1, <3>2 DEF Entrance!SessionUser
    <3>4. Entrance!SessionUser(cookie) \in Emails
      BY <3>2, <3>3
    <3> QED
      BY <3>4 DEF Entrance!AccessAssumption, Entrance!Nobody
  <2> QED
    BY <2>1, <2>2, <2>3
<1> QED
  BY <1>1 DEF AccessInv, CookieIsHeld, Entrance!Excused, Entrance!At

-----------------------------------------------------------------------------
(* Two rules of a price list never fit one line, and the variants of a     *)
(* product are those of one save unless saves overlapped, however many     *)
(* administrators save products and price lists together.                  *)
THEOREM CatalogConsistent == OfficeSpec => []CatalogIsConsistent
<1>1. Prices!Init => CatalogInv
  BY CatalogStarts, OfficeAssumption
<1>2. CatalogInv /\ [Prices!Next]_priceVars => CatalogInv'
  BY CatalogGoesOn, OfficeAssumption
<1>3. CatalogInv => Prices!TypeOK /\ Prices!PricesAreUnambiguous /\ Prices!VariantsAreOneSave
  BY OneRuleApplies DEF CatalogInv
<1>4. Prices!Spec => []CatalogInv
  BY <1>1, <1>2, PTL DEF Prices!Spec, priceVars, Prices!vars
<1> QED
  BY <1>3, <1>4, OfficeIsAll, PTL DEF CatalogIsConsistent

LEMMA AccessAlways == Entrance!Spec => []AccessInv
<1>1. Entrance!Init => AccessInv
  BY AccessStarts, OfficeAssumption
<1>2. AccessInv /\ [Entrance!Next]_accessVars => AccessInv'
  BY AccessGoesOn, OfficeAssumption
<1> QED
  BY <1>1, <1>2, PTL DEF Entrance!Spec, accessVars, Entrance!vars

(* However many tabs sign in the same new address, and whatever fails, it  *)
(* has one customer at most, none without its user, and sessions only if   *)
(* it has a user.                                                          *)
THEOREM FirstSignInIsWhole == OfficeSpec => []ProvisionIsWhole
<1>1. AccessInv => Entrance!TypeOK /\ Entrance!ProvisionIsWhole
  BY DEF AccessInv
<1> QED
  BY <1>1, AccessAlways, OfficeIsAll, PTL DEF ProvisionIsWhole

(* The sign-in form turns away those who are signed in, and of the others  *)
(* only who was barred or never heard of being signed out, for any number  *)
(* of tabs that share the cookie.                                          *)
THEOREM FormStaysInReach == OfficeSpec => []TheFormIsInReach
<1>1. AccessInv => Entrance!TheFormIsInReach
  BY FormInReach, OfficeAssumption
<1> QED
  BY <1>1, AccessAlways, OfficeIsAll, PTL DEF TheFormIsInReach
=============================================================================
