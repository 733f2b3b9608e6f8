-------------------------- MODULE Quotation_proofs --------------------------
(***************************************************************************)
(* What holds of the quotation operations, for any lines, chains, rule     *)
(* sets and number of requests: first of the serial specification, then    *)
(* that the services implement it, so that it holds of them too.           *)
(***************************************************************************)
EXTENDS QuotationService, TLAPS, SequenceTheorems

(* A fresh chain is a sequence of pending records, one for each role.      *)
LEMMA PendingRecordsType ==
    ASSUME NEW chain \in Seq(Roles)
    PROVE  /\ PendingRecords(chain) \in Seq(Record)
           /\ DOMAIN PendingRecords(chain) = DOMAIN chain
           /\ \A s \in DOMAIN chain : PendingRecords(chain)[s].status = "PENDING"
<1>1. PICK n \in Nat : chain \in [1 .. n -> Roles]
  BY SeqDef
<1>2. PendingRecords(chain) \in [1 .. n -> Record]
  BY <1>1 DEF PendingRecords, Record
<1>3. PendingRecords(chain) \in Seq(Record)
  BY <1>2, SeqDef
<1> QED
  BY <1>1, <1>3 DEF PendingRecords

(* The chain demanded by a rule set is a sequence of roles.                *)
LEMMA ChainType ==
    ASSUME NEW r \in RuleSets, NEW t \in Terms
    PROVE  Chain[r][t] \in Seq(Roles)
BY QuotationAssumption DEF QuotationAssumption

LEMMA CurrentTermsType ==
    ASSUME TypeOK
    PROVE  CurrentTerms \in Terms
BY DEF TypeOK, CurrentTerms, Terms

(* The status of a decided record.                                         *)
LEMMA ActionStatus ==
    ASSUME NEW action \in Decisions
    PROVE  ActionToStatus[action] \in {"APPROVED", "REJECTED", "RETURNED"}
BY DEF ActionToStatus, Decisions

LEMMA SettledStatusType ==
    ASSUME NEW action \in Decisions, NEW st
    PROVE  SettledStatus(action, st) \in
             {"REJECTED", "DRAFT", "CONFIRMED", "SENT_TO_CUSTOMER"}
BY DEF SettledStatus, TerminalApprovedStatus, Decisions

(***************************************************************************)
(* What each write does to the rows, given their types.                    *)
(***************************************************************************)
LEMMA FreezeEffect ==
    ASSUME TypeOK, NEW terms \in Terms, NEW chain \in Seq(Roles),
           NEW newStatus, Freeze(terms, chain, newStatus)
    PROVE  /\ snapshots' \in Seq(Snapshot)
           /\ Len(snapshots') = Len(snapshots) + 1
           /\ snapshots' # << >>
           /\ \A v \in DOMAIN snapshots : snapshots'[v] = snapshots[v]
           /\ snapshots'[Len(snapshots')].terms = terms
           /\ DOMAIN snapshots'[Len(snapshots')].records = DOMAIN chain
           /\ \A s \in DOMAIN chain :
                snapshots'[Len(snapshots')].records[s].status = "PENDING"
<1> DEFINE new == [terms |-> terms, records |-> PendingRecords(chain)]
<1>1. new \in Snapshot
  BY PendingRecordsType DEF Snapshot
<1>2. snapshots \in Seq(Snapshot) /\ snapshots' = Append(snapshots, new)
  BY DEF TypeOK, Freeze
<1>3. /\ snapshots' \in Seq(Snapshot)
      /\ Len(snapshots') = Len(snapshots) + 1
      /\ \A v \in DOMAIN snapshots : snapshots'[v] = snapshots[v]
      /\ snapshots'[Len(snapshots')] = new
  <2> HIDE DEF new
  <2> QED BY <1>1, <1>2
<1>4. snapshots' # << >>
  BY <1>3, <1>2
<1> QED
  BY <1>3, <1>4, PendingRecordsType

LEMMA DecideEffect ==
    ASSUME TypeOK, NEW v \in DOMAIN snapshots,
           NEW s \in DOMAIN snapshots[v].records,
           NEW action \in Decisions, RecordDecision(v, s, action)
    PROVE  /\ snapshots' \in Seq(Snapshot)
           /\ DOMAIN snapshots' = DOMAIN snapshots
           /\ Len(snapshots') = Len(snapshots)
           /\ \A w \in DOMAIN snapshots :
                /\ snapshots'[w].terms = snapshots[w].terms
                /\ DOMAIN snapshots'[w].records = DOMAIN snapshots[w].records
                /\ \A t \in DOMAIN snapshots[w].records :
                     (w # v \/ t # s) =>
                        snapshots'[w].records[t] = snapshots[w].records[t]
           /\ snapshots'[v].records[s].status = ActionToStatus[action]
<1> DEFINE newRecord == [snapshots[v].records[s] EXCEPT
                            !.status = ActionToStatus[action]]
           newRecords == [snapshots[v].records EXCEPT ![s] = newRecord]
           newSnapshot == [snapshots[v] EXCEPT !.records = newRecords]
<1>1. snapshots \in Seq(Snapshot)
  BY DEF TypeOK
<1>2. snapshots[v] \in Snapshot
  BY <1>1
<1>3. snapshots[v].records \in Seq(Record)
  BY <1>2 DEF Snapshot
<1>4. snapshots[v].records[s] \in Record
  BY <1>3
<1>5. newRecord \in Record /\ newRecord.status = ActionToStatus[action]
  BY <1>4, ActionStatus DEF Record
<1>6. /\ newRecords \in Seq(Record)
      /\ DOMAIN newRecords = DOMAIN snapshots[v].records
      /\ newRecords[s] = newRecord
      /\ \A t \in DOMAIN snapshots[v].records :
           t # s => newRecords[t] = snapshots[v].records[t]
  <2> HIDE DEF newRecord
  <2> QED BY <1>3, <1>5
<1>7. /\ newSnapshot \in Snapshot
      /\ newSnapshot.terms = snapshots[v].terms
      /\ newSnapshot.records = newRecords
  <2> HIDE DEF newRecords
  <2> QED BY <1>2, <1>6 DEF Snapshot
<1>8. snapshots' = [snapshots EXCEPT ![v] = newSnapshot]
  BY DEF RecordDecision
<1>9. /\ snapshots' \in Seq(Snapshot)
      /\ DOMAIN snapshots' = DOMAIN snapshots
      /\ Len(snapshots') = Len(snapshots)
      /\ snapshots'[v] = newSnapshot
      /\ \A w \in DOMAIN snapshots : w # v => snapshots'[w] = snapshots[w]
  <2> HIDE DEF newSnapshot
  <2> QED BY <1>1, <1>7, <1>8
<1> HIDE DEF newSnapshot, newRecords, newRecord
<1> QED
  BY <1>5, <1>6, <1>7, <1>9

LEMMA OpenEffect ==
    ASSUME TypeOK, NEW counter \in Pcts \cup {NoPct}, OpenNegotiation(counter)
    PROVE  /\ negotiations' \in Seq(Negotiation)
           /\ Len(negotiations') = Len(negotiations) + 1
           /\ \A n \in DOMAIN negotiations : negotiations'[n] = negotiations[n]
           /\ negotiations'[Len(negotiations')].status = "PENDING"
<1> DEFINE new == [status |-> "PENDING", counter |-> counter]
<1>1. new \in Negotiation /\ new.status = "PENDING"
  BY DEF Negotiation
<1>2. /\ negotiations \in Seq(Negotiation)
      /\ negotiations' = Append(negotiations, new)
  BY DEF TypeOK, OpenNegotiation
<1> HIDE DEF new
<1> QED
  BY <1>1, <1>2

LEMMA CloseEffect ==
    ASSUME TypeOK, NEW n \in DOMAIN negotiations, NEW applying \in BOOLEAN,
           CloseNegotiation(n, applying)
    PROVE  /\ negotiations' \in Seq(Negotiation)
           /\ DOMAIN negotiations' = DOMAIN negotiations
           /\ Len(negotiations') = Len(negotiations)
           /\ \A m \in DOMAIN negotiations \ {n} :
                negotiations'[m] = negotiations[m]
           /\ negotiations'[n].status = IF applying THEN "ACCEPTED"
                                                    ELSE "REJECTED"
           /\ disc' \in Pcts
<1> DEFINE new == [negotiations[n] EXCEPT
                      !.status = IF applying THEN "ACCEPTED" ELSE "REJECTED"]
<1>1. negotiations \in Seq(Negotiation) /\ negotiations[n] \in Negotiation
  BY DEF TypeOK
<1>2. new \in Negotiation
      /\ new.status = IF applying THEN "ACCEPTED" ELSE "REJECTED"
  BY <1>1 DEF Negotiation
<1>3. negotiations' = [negotiations EXCEPT ![n] = new]
  BY DEF CloseNegotiation
<1>4. disc' \in Pcts
  BY <1>1 DEF CloseNegotiation, TypeOK, Negotiation
<1> HIDE DEF new
<1> QED
  BY <1>1, <1>2, <1>3, <1>4

(***************************************************************************)
(* Types                                                                   *)
(***************************************************************************)
LEMMA InitTypeOK == Create => TypeOK
<1> SUFFICES ASSUME Create PROVE TypeOK
  OBVIOUS
<1>1. NoLines \in LineMaps
  BY DEF NoLines, LineMaps
<1> QED
  BY <1>1, QuotationAssumption
  DEF Create, TypeOK, QuotationAssumption, Statuses

LEMMA FreezeTypeOK ==
    ASSUME TypeOK, NEW terms \in Terms, NEW chain \in Seq(Roles),
           NEW newStatus \in Statuses, Freeze(terms, chain, newStatus),
           rules' \in RuleSets
    PROVE  TypeOK'
<1>1. snapshots' \in Seq(Snapshot)
  BY FreezeEffect
<1> QED
  BY <1>1 DEF TypeOK, Freeze, NextVersion

LEMMA NextTypeOK == TypeOK /\ [SerialNext]_vars => TypeOK'
<1> SUFFICES ASSUME TypeOK, [SerialNext]_vars PROVE TypeOK'
  OBVIOUS
<1> USE DEF vars, aggregate
<1>0. {"APPROVED", "PENDING_APPROVAL", "RE_APPROVAL_REQUIRED", "CONFIRMED",
       "REJECTED", "DRAFT", "SENT_TO_CUSTOMER", "UNDER_NEGOTIATION"}
         \subseteq Statuses
  BY DEF Statuses, Negotiable, Awaiting
<1>1. CASE Edit
  BY <1>1 DEF Edit, WriteTerms, NextVersion, TypeOK
<1>2. CASE Submit
  <2>1. PICK r \in RuleSets :
          Freeze(CurrentTerms, Chain[r][CurrentTerms],
                 IF Chain[r][CurrentTerms] # << >>
                 THEN "PENDING_APPROVAL" ELSE "APPROVED")
    BY <1>2 DEF Submit
  <2> QED
    BY <1>0, <1>2, <2>1, CurrentTermsType, ChainType, FreezeTypeOK
    DEF Submit, TypeOK
<1>3. CASE Negotiate
  <2>1. PICK counter \in Pcts \cup {NoPct} : OpenNegotiation(counter)
    BY <1>3 DEF Negotiate
  <2>2. negotiations' \in Seq(Negotiation)
    BY <2>1, OpenEffect
  <2> QED
    BY <1>0, <1>3, <2>1, <2>2 DEF Negotiate, OpenNegotiation, NextVersion, TypeOK
<1>4. CASE Confirm
  <2>1. PICK r \in RuleSets :
          ConfirmWrite(CurrentTerms, Chain[r][CurrentTerms])
    BY <1>4 DEF Confirm
  <2>2. CASE Chain[r][CurrentTerms] # << >>
    BY <1>0, <1>4, <2>1, <2>2, CurrentTermsType, ChainType, FreezeTypeOK
    DEF Confirm, ConfirmWrite, TypeOK
  <2>3. CASE Chain[r][CurrentTerms] = << >>
    BY <1>0, <1>4, <2>1, <2>3 DEF Confirm, ConfirmWrite, Accept, NextVersion, TypeOK
  <2> QED
    BY <2>2, <2>3
<1>5. CASE Resolve
  <2>1. PICK n \in DOMAIN negotiations, applying \in BOOLEAN :
          CloseNegotiation(n, applying)
    BY <1>5 DEF Resolve
  <2>2. negotiations' \in Seq(Negotiation) /\ disc' \in Pcts
    BY <2>1, CloseEffect
  <2> QED
    BY <1>0, <1>5, <2>1, <2>2 DEF Resolve, CloseNegotiation, NextVersion, TypeOK
<1>6. CASE Decide
  <2>1. PICK v \in DOMAIN snapshots :
          \E s \in DOMAIN snapshots[v].records, action \in Decisions :
             DecideWrite(v, s, action, status)
    BY <1>6 DEF Decide
  <2>2. PICK s \in DOMAIN snapshots[v].records, action \in Decisions :
          DecideWrite(v, s, action, status)
    BY <2>1
  <2>3. snapshots' \in Seq(Snapshot)
    BY <2>2, DecideEffect DEF DecideWrite
  <2>4. status' \in Statuses /\ version' \in Nat \ {0}
    BY <1>0, <2>2, SettledStatusType DEF DecideWrite, NextVersion, TypeOK
  <2> QED
    BY <1>6, <2>2, <2>3, <2>4 DEF Decide, DecideWrite, RecordDecision, TypeOK
<1>7. CASE ChangeRules
  BY <1>7 DEF ChangeRules, TypeOK
<1>8. CASE UNCHANGED vars
  BY <1>8 DEF TypeOK
<1> QED
  BY <1>1, <1>2, <1>3, <1>4, <1>5, <1>6, <1>7, <1>8 DEF SerialNext

(* Every row keeps values of its type, for any configuration.              *)
THEOREM TypeCorrect == SerialSpec => []TypeOK
BY InitTypeOK, NextTypeOK, PTL DEF SerialSpec

(***************************************************************************)
(* The shape of a step: what an operation wrote, with its guard.  The      *)
(* proofs below go by these cases.                                         *)
(***************************************************************************)
EditStep ==
    /\ status = "DRAFT"
    /\ \E ls \in LineMaps, d \in Pcts : WriteTerms(ls, d)

FreezeStep ==
    /\ status \in Negotiable \cup {"DRAFT"}
    /\ status = "DRAFT" \/ NoPendingNegotiation
    /\ \E chain \in Seq(Roles), newStatus \in Statuses :
         /\ Freeze(CurrentTerms, chain, newStatus)
         /\ newStatus \in Awaiting \cup {"APPROVED"}
         /\ newStatus \in Awaiting <=> chain # << >>
         /\ \E r \in RuleSets : chain = Chain[r][CurrentTerms]

AcceptStep ==
    /\ status \in Negotiable
    /\ NoPendingNegotiation
    /\ \E r \in RuleSets : Chain[r][CurrentTerms] = << >>
    /\ Accept

OpenStep ==
    /\ status \in Negotiable
    /\ NoPendingNegotiation
    /\ \E counter \in Pcts \cup {NoPct} : OpenNegotiation(counter)

CloseStep ==
    /\ status = "UNDER_NEGOTIATION"
    /\ \E n \in DOMAIN negotiations, applying \in BOOLEAN :
         /\ negotiations[n].status = "PENDING"
         /\ CloseNegotiation(n, applying)

DecideStep(v, s, action) ==
    /\ FirstPending(v, s)
    /\ DecideWrite(v, s, action, status)

LEMMA StepCases ==
    ASSUME TypeOK, [SerialNext]_vars
    PROVE  \/ EditStep
           \/ FreezeStep
           \/ OpenStep
           \/ AcceptStep
           \/ CloseStep
           \/ \E v \in DOMAIN snapshots :
                \E s \in DOMAIN snapshots[v].records, action \in Decisions :
                   DecideStep(v, s, action)
           \/ UNCHANGED aggregate
<1>1. CASE Edit
  BY <1>1 DEF Edit, EditStep
<1>2. CASE Submit
  <2>1. PICK r \in RuleSets :
          Freeze(CurrentTerms, Chain[r][CurrentTerms],
                 IF Chain[r][CurrentTerms] # << >>
                 THEN "PENDING_APPROVAL" ELSE "APPROVED")
    BY <1>2 DEF Submit
  <2>2. PICK chain \in Seq(Roles) : chain = Chain[r][CurrentTerms]
    BY CurrentTermsType, ChainType
  <2>3. PICK new \in Statuses :
          new = IF chain # << >> THEN "PENDING_APPROVAL" ELSE "APPROVED"
    BY DEF Statuses, Awaiting
  <2>4. Freeze(CurrentTerms, chain, new)
    BY <2>1, <2>2, <2>3
  <2>5. new \in Awaiting \cup {"APPROVED"} /\ (new \in Awaiting <=> chain # << >>)
    BY <2>3 DEF Awaiting
  <2> QED
    BY <1>2, <2>2, <2>4, <2>5 DEF FreezeStep, Submit
<1>3. CASE Negotiate
  BY <1>3 DEF Negotiate, OpenStep
<1>4. CASE Confirm
  <2>1. PICK r \in RuleSets :
          ConfirmWrite(CurrentTerms, Chain[r][CurrentTerms])
    BY <1>4 DEF Confirm
  <2>2. PICK chain \in Seq(Roles) : chain = Chain[r][CurrentTerms]
    BY CurrentTermsType, ChainType
  <2>3. status \in Negotiable /\ NoPendingNegotiation
    BY <1>4 DEF Confirm
  <2>4. CASE chain # << >>
    <3>1. Freeze(CurrentTerms, chain, "RE_APPROVAL_REQUIRED")
      BY <2>1, <2>2, <2>4 DEF ConfirmWrite
    <3>2. "RE_APPROVAL_REQUIRED" \in Awaiting /\ "RE_APPROVAL_REQUIRED" \in Statuses
      BY DEF Awaiting, Statuses
    <3> QED
      BY <2>2, <2>3, <2>4, <3>1, <3>2 DEF FreezeStep
  <2>5. CASE chain = << >>
    BY <2>1, <2>2, <2>3, <2>5 DEF ConfirmWrite, AcceptStep
  <2> QED
    BY <2>4, <2>5
<1>5. CASE Resolve
  BY <1>5 DEF Resolve, CloseStep
<1>6. CASE Decide
  BY <1>6 DEF Decide, DecideStep
<1>7. CASE ChangeRules \/ UNCHANGED vars
  BY <1>7 DEF ChangeRules, vars
<1> QED
  BY <1>1, <1>2, <1>3, <1>4, <1>5, <1>6, <1>7 DEF SerialNext

(***************************************************************************)
(* Negotiations                                                            *)
(***************************************************************************)
LEMMA NextNegotiationInv ==
    TypeOK /\ NegotiationInv /\ [SerialNext]_vars => NegotiationInv'
<1> SUFFICES ASSUME TypeOK, NegotiationInv, [SerialNext]_vars
             PROVE  NegotiationInv'
  OBVIOUS
<1> USE DEF NegotiationInv, AtMostOnePendingNegotiation,
            UnderNegotiationHasRequest, NoPendingNegotiation
<1>1. CASE EditStep
  BY <1>1 DEF EditStep, WriteTerms
<1>2. CASE FreezeStep
  BY <1>2 DEF FreezeStep, Freeze, Awaiting
<1>3. CASE OpenStep
  <2>1. PICK counter \in Pcts \cup {NoPct} : OpenNegotiation(counter)
    BY <1>3 DEF OpenStep
  <2>2. /\ negotiations \in Seq(Negotiation)
        /\ negotiations' \in Seq(Negotiation)
        /\ Len(negotiations') = Len(negotiations) + 1
        /\ \A n \in DOMAIN negotiations : negotiations'[n] = negotiations[n]
        /\ negotiations'[Len(negotiations')].status = "PENDING"
    BY <2>1, OpenEffect DEF TypeOK
  <2>3. \A n \in DOMAIN negotiations' :
          negotiations'[n].status = "PENDING" => n = Len(negotiations')
    BY <1>3, <2>2 DEF OpenStep
  <2> QED
    BY <2>2, <2>3
<1>4. CASE AcceptStep
  BY <1>4 DEF AcceptStep, Accept
<1>5. CASE CloseStep
  <2>1. PICK n \in DOMAIN negotiations, applying \in BOOLEAN :
          CloseNegotiation(n, applying)
    BY <1>5 DEF CloseStep
  <2>2. /\ DOMAIN negotiations' = DOMAIN negotiations
        /\ \A m \in DOMAIN negotiations' :
             negotiations'[m].status = "PENDING" =>
                negotiations[m].status = "PENDING"
    BY <2>1, CloseEffect
  <2>3. status' = "SENT_TO_CUSTOMER"
    BY <2>1 DEF CloseNegotiation
  <2> QED
    BY <2>2, <2>3
<1>6. ASSUME NEW v \in DOMAIN snapshots,
             NEW s \in DOMAIN snapshots[v].records, NEW action \in Decisions,
             DecideStep(v, s, action)
      PROVE  NegotiationInv'
  BY <1>6, SettledStatusType DEF DecideStep, DecideWrite, RecordDecision
<1>7. CASE UNCHANGED aggregate
  BY <1>7 DEF aggregate
<1> QED
  BY <1>1, <1>2, <1>3, <1>4, <1>5, <1>6, <1>7, StepCases

(* At every moment the customer has at most one open request, and a        *)
(* quotation under negotiation has exactly one.                            *)
THEOREM NegotiationSafe == SerialSpec => []NegotiationInv
<1>1. Create => NegotiationInv
  BY DEF Create, NegotiationInv, AtMostOnePendingNegotiation,
         UnderNegotiationHasRequest
<1> QED
  BY <1>1, NextNegotiationInv, TypeCorrect, PTL DEF SerialSpec

(***************************************************************************)
(* Review                                                                  *)
(***************************************************************************)
LEMMA NextReviewInv ==
    TypeOK /\ ReviewInv /\ [SerialNext]_vars => ReviewInv'
<1> SUFFICES ASSUME TypeOK, ReviewInv, [SerialNext]_vars
             PROVE  ReviewInv'
  OBVIOUS
<1> USE DEF ReviewInv, AwaitingHasPendingStep, ReviewedTermsAreCurrent,
            CurrentTerms, IsPending
<1>0. snapshots \in Seq(Snapshot)
  BY DEF TypeOK
<1>1. CASE EditStep
  BY <1>1 DEF EditStep, WriteTerms, Awaiting
<1>2. CASE FreezeStep
  <2>1. PICK chain \in Seq(Roles), newStatus \in Statuses :
          /\ Freeze(CurrentTerms, chain, newStatus)
          /\ newStatus \in Awaiting => chain # << >>
    BY <1>2 DEF FreezeStep
  <2>2. /\ snapshots' # << >>
        /\ snapshots'[Len(snapshots')].terms = CurrentTerms
        /\ DOMAIN snapshots'[Len(snapshots')].records = DOMAIN chain
        /\ \A s \in DOMAIN chain :
             snapshots'[Len(snapshots')].records[s].status = "PENDING"
    BY <2>1, CurrentTermsType, FreezeEffect DEF Freeze
  <2>3. CurrentTerms' = CurrentTerms /\ status' = newStatus
    BY <2>1 DEF Freeze
  <2>4. newStatus \in Awaiting => 1 \in DOMAIN chain
    BY <2>1
  <2> QED
    BY <2>2, <2>3, <2>4
<1>3. CASE OpenStep
  BY <1>3 DEF OpenStep, OpenNegotiation, Awaiting
<1>4. CASE AcceptStep
  BY <1>4 DEF AcceptStep, Accept, Awaiting
<1>5. CASE CloseStep
  BY <1>5 DEF CloseStep, CloseNegotiation, Awaiting
<1>6. ASSUME NEW v \in DOMAIN snapshots,
             NEW s \in DOMAIN snapshots[v].records, NEW action \in Decisions,
             DecideStep(v, s, action)
      PROVE  ReviewInv'
  <2>1. CASE Settles(v, s, action)
    BY <1>6, <2>1, SettledStatusType
    DEF DecideStep, DecideWrite, Awaiting
  <2>2. CASE ~Settles(v, s, action)
    <3>1. UNCHANGED <<status, lines, disc>>
      BY <1>6, <2>2 DEF DecideStep, DecideWrite, RecordDecision
    <3>2. /\ snapshots' \in Seq(Snapshot)
          /\ Len(snapshots') = Len(snapshots)
          /\ \A w \in DOMAIN snapshots :
               /\ snapshots'[w].terms = snapshots[w].terms
               /\ DOMAIN snapshots'[w].records = DOMAIN snapshots[w].records
               /\ \A t \in DOMAIN snapshots[w].records :
                    (w # v \/ t # s) =>
                       snapshots'[w].records[t] = snapshots[w].records[t]
      BY <1>6, DecideEffect DEF DecideStep, DecideWrite
    <3>3. OthersPending(v, s)
      BY <2>2 DEF Settles
    <3>4. ASSUME status \in Awaiting, snapshots # << >>
          PROVE  \E t \in DOMAIN snapshots'[Len(snapshots')].records :
                    snapshots'[Len(snapshots')].records[t].status = "PENDING"
      <4>1. Len(snapshots) \in DOMAIN snapshots
        BY <1>0, <3>4
      <4>2. CASE v = Len(snapshots)
        BY <3>2, <3>3, <4>1, <4>2 DEF OthersPending
      <4>3. CASE v # Len(snapshots)
        BY <3>2, <3>4, <4>1, <4>3
      <4> QED
        BY <4>2, <4>3
    <3>5. snapshots # << >> =>
             /\ snapshots' # << >>
             /\ snapshots'[Len(snapshots')].terms =
                   snapshots[Len(snapshots)].terms
      BY <1>0, <3>2
    <3> QED
      BY <3>1, <3>4, <3>5
  <2> QED
    BY <2>1, <2>2
<1>7. CASE UNCHANGED aggregate
  BY <1>7 DEF aggregate
<1> QED
  BY <1>1, <1>2, <1>3, <1>4, <1>5, <1>6, <1>7, StepCases

(* A quotation that waits for approval always has a step to decide in its  *)
(* latest version, and that version holds its terms, for any chains.       *)
THEOREM ReviewSafe == SerialSpec => []ReviewInv
<1>1. Create => ReviewInv
  BY DEF Create, ReviewInv, AwaitingHasPendingStep, ReviewedTermsAreCurrent,
         Awaiting
<1> QED
  BY <1>1, NextReviewInv, TypeCorrect, PTL DEF SerialSpec

(***************************************************************************)
(* What every step keeps                                                   *)
(***************************************************************************)
VersionMoves ==
    \/ version' = version + 1
    \/ version' = version /\ UNCHANGED <<status, lines, disc, negotiations>>
       /\ Len(snapshots') = Len(snapshots)

(* Versions keep their terms and their steps; a decided step stays.        *)
SnapshotsKept ==
    \A v \in DOMAIN snapshots :
       /\ v \in DOMAIN snapshots'
       /\ snapshots'[v].terms = snapshots[v].terms
       /\ DOMAIN snapshots'[v].records = DOMAIN snapshots[v].records
       /\ \A s \in DOMAIN snapshots[v].records :
            ~IsPending(v, s) =>
               snapshots'[v].records[s] = snapshots[v].records[s]

(* A step in review order is decided, and no other.                        *)
LEMMA DecideKeeps ==
    ASSUME TypeOK, NEW v \in DOMAIN snapshots,
           NEW s \in DOMAIN snapshots[v].records, NEW action \in Decisions,
           DecideStep(v, s, action)
    PROVE  SnapshotsKept /\ VersionMoves /\ Len(snapshots') = Len(snapshots)
<1>1. IsPending(v, s)
  BY DEF DecideStep, FirstPending
<1>2. /\ DOMAIN snapshots' = DOMAIN snapshots
      /\ Len(snapshots') = Len(snapshots)
      /\ \A w \in DOMAIN snapshots :
           /\ snapshots'[w].terms = snapshots[w].terms
           /\ DOMAIN snapshots'[w].records = DOMAIN snapshots[w].records
           /\ \A t \in DOMAIN snapshots[w].records :
                (w # v \/ t # s) =>
                   snapshots'[w].records[t] = snapshots[w].records[t]
  BY DecideEffect DEF DecideStep, DecideWrite
<1>3. SnapshotsKept
  BY <1>1, <1>2 DEF SnapshotsKept, IsPending
<1>4. VersionMoves
  BY <1>2 DEF VersionMoves, DecideStep, DecideWrite, RecordDecision, NextVersion
<1> QED
  BY <1>2, <1>3, <1>4

LEMMA StepKeeps ==
    ASSUME TypeOK, [SerialNext]_vars
    PROVE  VersionMoves /\ SnapshotsKept
<1>1. CASE EditStep
  BY <1>1 DEF EditStep, WriteTerms, NextVersion, VersionMoves, SnapshotsKept
<1>2. CASE FreezeStep
  <2>1. PICK chain \in Seq(Roles), newStatus \in Statuses :
          Freeze(CurrentTerms, chain, newStatus)
    BY <1>2 DEF FreezeStep
  <2>2. /\ snapshots \in Seq(Snapshot) /\ snapshots' \in Seq(Snapshot)
        /\ Len(snapshots') = Len(snapshots) + 1
        /\ \A v \in DOMAIN snapshots : snapshots'[v] = snapshots[v]
    BY <2>1, CurrentTermsType, FreezeEffect DEF TypeOK
  <2>3. DOMAIN snapshots \subseteq DOMAIN snapshots'
    BY <2>2
  <2> QED
    BY <2>1, <2>2, <2>3 DEF VersionMoves, SnapshotsKept, Freeze, NextVersion
<1>3. CASE OpenStep
  BY <1>3 DEF OpenStep, OpenNegotiation, NextVersion, VersionMoves, SnapshotsKept
<1>4. CASE AcceptStep
  BY <1>4 DEF AcceptStep, Accept, NextVersion, VersionMoves, SnapshotsKept
<1>5. CASE CloseStep
  BY <1>5 DEF CloseStep, CloseNegotiation, NextVersion, VersionMoves, SnapshotsKept
<1>6. ASSUME NEW v \in DOMAIN snapshots,
             NEW s \in DOMAIN snapshots[v].records, NEW action \in Decisions,
             DecideStep(v, s, action)
      PROVE  VersionMoves /\ SnapshotsKept
  BY <1>6, DecideKeeps
<1>7. CASE UNCHANGED aggregate
  BY <1>7 DEF aggregate, VersionMoves, SnapshotsKept
<1> QED
  BY <1>1, <1>2, <1>3, <1>4, <1>5, <1>6, <1>7, StepCases

(* Any change but the decision of a step moves the version: a conditional  *)
(* update notices every write that is not its own.                         *)
THEOREM VersionNoticesChanges == SerialSpec => ChangesMoveVersion
<1>1. TypeOK /\ [SerialNext]_vars =>
        [\/ version' = version + 1
         \/ /\ version' = version
            /\ UNCHANGED <<status, lines, disc, negotiations>>
            /\ Len(snapshots') = Len(snapshots)]_vars
  BY StepKeeps DEF VersionMoves
<1> QED
  BY <1>1, TypeCorrect, PTL DEF SerialSpec, ChangesMoveVersion

(* No step is decided twice, for any number of steps and versions.         *)
THEOREM DecisionsFinal == SerialSpec => DecisionsAreFinal
<1>1. TypeOK /\ [SerialNext]_vars =>
        [\A v \in DOMAIN snapshots : \A s \in DOMAIN snapshots[v].records :
            ~IsPending(v, s) =>
               snapshots'[v].records[s] = snapshots[v].records[s]]_vars
  BY StepKeeps DEF SnapshotsKept
<1> QED
  BY <1>1, TypeCorrect, PTL DEF SerialSpec, DecisionsAreFinal

(* A new version holds the terms of the quotation; old ones are kept.      *)
THEOREM SnapshotsFaithful == SerialSpec => SnapshotsAreFaithful
<1>1. TypeOK /\ [SerialNext]_vars =>
        [snapshots' # snapshots =>
         /\ \A v \in DOMAIN snapshots :
              snapshots'[v].terms = snapshots[v].terms
         /\ Len(snapshots') # Len(snapshots) =>
              /\ Len(snapshots') = Len(snapshots) + 1
              /\ snapshots'[Len(snapshots')].terms = CurrentTerms]_vars
  <2> DEFINE Grown == Len(snapshots') # Len(snapshots) =>
                        /\ Len(snapshots') = Len(snapshots) + 1
                        /\ snapshots'[Len(snapshots')].terms = CurrentTerms
  <2> SUFFICES ASSUME TypeOK, [SerialNext]_vars
               PROVE  /\ \A v \in DOMAIN snapshots :
                           snapshots'[v].terms = snapshots[v].terms
                      /\ Grown
    OBVIOUS
  <2>1. \A v \in DOMAIN snapshots : snapshots'[v].terms = snapshots[v].terms
    BY StepKeeps DEF SnapshotsKept
  <2>2. CASE FreezeStep
    BY <2>2, CurrentTermsType, FreezeEffect DEF FreezeStep
  <2>3. ASSUME NEW v \in DOMAIN snapshots,
               NEW s \in DOMAIN snapshots[v].records, NEW action \in Decisions,
               DecideStep(v, s, action)
        PROVE  Grown
    BY <2>3, DecideKeeps
  <2>4. CASE EditStep
    BY <2>4 DEF EditStep, WriteTerms
  <2>5. CASE OpenStep
    BY <2>5 DEF OpenStep, OpenNegotiation
  <2>6. CASE AcceptStep
    BY <2>6 DEF AcceptStep, Accept
  <2>7. CASE CloseStep
    BY <2>7 DEF CloseStep, CloseNegotiation
  <2>8. CASE UNCHANGED aggregate
    BY <2>8 DEF aggregate
  <2>9. Grown
    <3> HIDE DEF Grown
    <3> QED BY <2>2, <2>3, <2>4, <2>5, <2>6, <2>7, <2>8, StepCases
  <2> QED
    BY <2>1, <2>9
<1> QED
  BY <1>1, TypeCorrect, PTL DEF SerialSpec, SnapshotsAreFaithful

(* Outside Draft the terms change only as the customer asked and sales     *)
(* accepted.                                                               *)
THEOREM TermsFrozen == SerialSpec => TermsFrozenOutsideDraft
<1>1. TypeOK /\ [SerialNext]_vars =>
        [CurrentTerms' # CurrentTerms => status = "DRAFT" \/ AcceptsCounter]_vars
  <2> DEFINE Allowed == CurrentTerms' # CurrentTerms =>
                          status = "DRAFT" \/ AcceptsCounter
  <2> SUFFICES ASSUME TypeOK, [SerialNext]_vars PROVE Allowed
    OBVIOUS
  <2>1. CASE EditStep
    BY <2>1 DEF EditStep
  <2>2. CASE FreezeStep
    BY <2>2 DEF FreezeStep, Freeze, CurrentTerms
  <2>3. CASE OpenStep
    BY <2>3 DEF OpenStep, OpenNegotiation, CurrentTerms
  <2>4. CASE AcceptStep
    BY <2>4 DEF AcceptStep, Accept, CurrentTerms
  <2>5. CASE CloseStep
    <3>1. PICK n \in DOMAIN negotiations, applying \in BOOLEAN :
            /\ negotiations[n].status = "PENDING"
            /\ CloseNegotiation(n, applying)
      BY <2>5 DEF CloseStep
    <3>2. lines' = lines /\ status = "UNDER_NEGOTIATION"
      BY <2>5, <3>1 DEF CloseStep, CloseNegotiation
    <3>3. CASE applying /\ negotiations[n].counter # NoPct
      <4>1. disc' = negotiations[n].counter
        BY <3>1, <3>3 DEF CloseNegotiation
      <4>2. negotiations'[n].status = "ACCEPTED"
        BY <3>1, <3>3, CloseEffect
      <4> QED
        BY <3>1, <3>2, <4>1, <4>2 DEF AcceptsCounter
    <3>4. CASE ~(applying /\ negotiations[n].counter # NoPct)
      <4>1. disc' = disc
        BY <3>1, <3>4 DEF CloseNegotiation
      <4> QED
        BY <3>2, <4>1 DEF CurrentTerms
    <3> QED
      BY <3>3, <3>4
  <2>6. ASSUME NEW v \in DOMAIN snapshots,
               NEW s \in DOMAIN snapshots[v].records, NEW action \in Decisions,
               DecideStep(v, s, action)
        PROVE  Allowed
    BY <2>6 DEF DecideStep, DecideWrite, RecordDecision, CurrentTerms
  <2>7. CASE UNCHANGED aggregate
    BY <2>7 DEF aggregate, CurrentTerms
  <2> HIDE DEF Allowed
  <2> QED
    BY <2>1, <2>2, <2>3, <2>4, <2>5, <2>6, <2>7, StepCases
<1> QED
  BY <1>1, TypeCorrect, PTL DEF SerialSpec, TermsFrozenOutsideDraft

(* The steps of every version are decided in order.                        *)
THEOREM InOrder == SerialSpec => []DecidedInOrder
<1>1. Create => DecidedInOrder
  BY DEF Create, DecidedInOrder
<1>2. TypeOK /\ DecidedInOrder /\ [SerialNext]_vars => DecidedInOrder'
  <2> SUFFICES ASSUME TypeOK, DecidedInOrder, [SerialNext]_vars
               PROVE  DecidedInOrder'
    OBVIOUS
  <2> USE DEF DecidedInOrder, IsPending
  <2>1. CASE EditStep
    BY <2>1 DEF EditStep, WriteTerms
  <2>2. CASE FreezeStep
    <3>1. PICK chain \in Seq(Roles), newStatus \in Statuses :
            Freeze(CurrentTerms, chain, newStatus)
      BY <2>2 DEF FreezeStep
    <3>2. /\ snapshots \in Seq(Snapshot) /\ snapshots' \in Seq(Snapshot)
          /\ Len(snapshots') = Len(snapshots) + 1
          /\ \A v \in DOMAIN snapshots : snapshots'[v] = snapshots[v]
          /\ DOMAIN snapshots'[Len(snapshots')].records = DOMAIN chain
          /\ \A s \in DOMAIN chain :
               snapshots'[Len(snapshots')].records[s].status = "PENDING"
      BY <3>1, CurrentTermsType, FreezeEffect DEF TypeOK
    <3>3. \A v \in DOMAIN snapshots' :
            v \in DOMAIN snapshots \/ v = Len(snapshots')
      BY <3>2
    <3> QED
      BY <3>2, <3>3
  <2>3. CASE OpenStep
    BY <2>3 DEF OpenStep, OpenNegotiation
  <2>4. CASE AcceptStep
    BY <2>4 DEF AcceptStep, Accept
  <2>5. CASE CloseStep
    BY <2>5 DEF CloseStep, CloseNegotiation
  <2>6. ASSUME NEW v \in DOMAIN snapshots,
               NEW s \in DOMAIN snapshots[v].records, NEW action \in Decisions,
               DecideStep(v, s, action)
        PROVE  DecidedInOrder'
    <3>1. /\ DOMAIN snapshots' = DOMAIN snapshots
          /\ \A w \in DOMAIN snapshots :
               /\ DOMAIN snapshots'[w].records = DOMAIN snapshots[w].records
               /\ \A t \in DOMAIN snapshots[w].records :
                    (w # v \/ t # s) =>
                       snapshots'[w].records[t] = snapshots[w].records[t]
          /\ snapshots'[v].records[s].status # "PENDING"
      BY <2>6, DecideEffect, ActionStatus DEF DecideStep, DecideWrite
    <3>2. DOMAIN snapshots[v].records \subseteq Nat
      <4>1. snapshots \in Seq(Snapshot)
        BY DEF TypeOK
      <4>2. snapshots[v] \in Snapshot
        BY <4>1
      <4>3. snapshots[v].records \in Seq(Record)
        BY <4>2 DEF Snapshot
      <4> QED
        BY <4>3
    <3>3. ASSUME NEW w \in DOMAIN snapshots', NEW x \in DOMAIN snapshots'[w].records,
                 NEW t \in DOMAIN snapshots'[w].records,
                 x < t, IsPending(w, x)'
          PROVE  IsPending(w, t)'
      <4>1. CASE w # v
        BY <3>1, <3>3, <4>1
      <4>2. CASE w = v
        <5>1. x # s /\ IsPending(v, x)
          BY <3>1, <3>3, <4>2
        <5>2. s < x
          BY <2>6, <3>1, <3>2, <3>3, <4>2, <5>1 DEF DecideStep, FirstPending
        <5>3. t # s
          BY <3>1, <3>2, <3>3, <4>2, <5>2
        <5> QED
          BY <3>1, <3>3, <4>2, <5>1, <5>3
      <4> QED
        BY <4>1, <4>2
    <3> QED
      BY <3>3
  <2>7. CASE UNCHANGED aggregate
    BY <2>7 DEF aggregate
  <2> QED
    BY <2>1, <2>2, <2>3, <2>4, <2>5, <2>6, <2>7, StepCases
<1> QED
  BY <1>1, <1>2, TypeCorrect, PTL DEF SerialSpec

-----------------------------------------------------------------------------
(***************************************************************************)
(* Chains of one step, as LOW and MEDIUM risk have by default.  A step is  *)
(* then pending only while its quotation waits for it, which with two      *)
(* steps is not so: that is the run rejectIsTerminal.                      *)
(***************************************************************************)
ChainsOfOneStep == \A r \in RuleSets, t \in Terms : Len(Chain[r][t]) <= 1

PendingIsAwaited ==
    \A v \in DOMAIN snapshots : \A s \in DOMAIN snapshots[v].records :
       /\ s = 1
       /\ IsPending(v, s) => v = Len(snapshots) /\ status \in Awaiting

OneStepInv == /\ PendingIsAwaited
              /\ RequestsStayResolvable
              /\ ConfirmedIsAuthorised

(* The one decision of a chain settles the quotation, and approves all.    *)
LEMMA OneDecision ==
    ASSUME TypeOK, ReviewInv, PendingIsAwaited, NEW v \in DOMAIN snapshots,
           NEW s \in DOMAIN snapshots[v].records, NEW action \in Decisions,
           DecideStep(v, s, action)
    PROVE  /\ status \in Awaiting
           /\ status' = SettledStatus(action, status)
           /\ PendingIsAwaited'
           /\ action = "APPROVE" => FullyApproved'
           /\ UNCHANGED <<lines, disc, negotiations>>
<1>1. IsPending(v, s) /\ DecideWrite(v, s, action, status)
  BY DEF DecideStep, FirstPending
<1>2. status \in Awaiting /\ v = Len(snapshots) /\ DOMAIN snapshots[v].records = {1}
  BY <1>1 DEF PendingIsAwaited
<1>3. status' = SettledStatus(action, status) /\ UNCHANGED <<lines, disc, negotiations>>
  BY <1>1, <1>2 DEF DecideWrite, Settles, OthersPending, RecordDecision, PendingIsAwaited
<1>4. /\ snapshots' \in Seq(Snapshot)
      /\ DOMAIN snapshots' = DOMAIN snapshots /\ Len(snapshots') = Len(snapshots)
      /\ \A w \in DOMAIN snapshots :
           /\ snapshots'[w].terms = snapshots[w].terms
           /\ DOMAIN snapshots'[w].records = DOMAIN snapshots[w].records
           /\ \A t \in DOMAIN snapshots[w].records :
                (w # v \/ t # s) =>
                   snapshots'[w].records[t] = snapshots[w].records[t]
      /\ snapshots'[v].records[s].status = ActionToStatus[action]
  BY <1>1, DecideEffect DEF DecideWrite
<1>5. PendingIsAwaited'
  <2>1. ActionToStatus[action] # "PENDING"
    BY ActionStatus
  <2>2. ASSUME NEW w \in DOMAIN snapshots, NEW t \in DOMAIN snapshots[w].records
        PROVE  t = 1 /\ snapshots'[w].records[t].status # "PENDING"
    BY <1>2, <1>4, <2>1, <2>2 DEF PendingIsAwaited, IsPending
  <2> QED
    BY <1>4, <2>2 DEF PendingIsAwaited, IsPending
<1>6. ASSUME action = "APPROVE" PROVE FullyApproved'
  <2>1. snapshots[v].terms = CurrentTerms /\ CurrentTerms' = CurrentTerms
    BY <1>2, <1>3 DEF ReviewInv, ReviewedTermsAreCurrent, CurrentTerms
  <2>2. ActionToStatus[action] = "APPROVED"
    BY <1>6 DEF ActionToStatus
  <2>3. snapshots' # << >> /\ v = Len(snapshots')
    BY <1>2, <1>4
  <2>4. \A t \in DOMAIN snapshots'[v].records :
           snapshots'[v].records[t].status = "APPROVED"
    BY <1>2, <1>4, <2>2
  <2>5. snapshots'[v].terms = CurrentTerms'
    BY <1>4, <2>1
  <2> QED
    BY <2>3, <2>4, <2>5 DEF FullyApproved, CurrentTerms
<1> QED
  BY <1>2, <1>3, <1>5, <1>6

LEMMA NextOneStepInv ==
    ASSUME ChainsOfOneStep
    PROVE  TypeOK /\ ReviewInv /\ NegotiationInv /\ OneStepInv /\ [SerialNext]_vars
             => OneStepInv'
<1> SUFFICES ASSUME TypeOK, ReviewInv, NegotiationInv, OneStepInv, [SerialNext]_vars
             PROVE  OneStepInv'
  OBVIOUS
<1>0. /\ PendingIsAwaited /\ RequestsStayResolvable /\ ConfirmedIsAuthorised
      /\ snapshots \in Seq(Snapshot)
  BY DEF OneStepInv, TypeOK
<1>1. CASE EditStep
  <2>1. /\ status = "DRAFT" /\ status' = status
        /\ snapshots' = snapshots /\ negotiations' = negotiations
    BY <1>1 DEF EditStep, WriteTerms
  <2> QED
    BY <1>0, <2>1 DEF OneStepInv, PendingIsAwaited, IsPending, Awaiting,
         RequestsStayResolvable, NoPendingNegotiation, ConfirmedIsAuthorised
<1>2. CASE FreezeStep
  <2>1. PICK chain \in Seq(Roles), newStatus \in Statuses :
          /\ Freeze(CurrentTerms, chain, newStatus)
          /\ newStatus \in Awaiting \cup {"APPROVED"}
          /\ newStatus \in Awaiting <=> chain # << >>
          /\ \E r \in RuleSets : chain = Chain[r][CurrentTerms]
    BY <1>2 DEF FreezeStep
  <2>2. /\ snapshots' \in Seq(Snapshot)
        /\ Len(snapshots') = Len(snapshots) + 1
        /\ \A v \in DOMAIN snapshots : snapshots'[v] = snapshots[v]
        /\ DOMAIN snapshots'[Len(snapshots')].records = DOMAIN chain
    BY <2>1, CurrentTermsType, FreezeEffect
  <2>3. status' = newStatus /\ negotiations' = negotiations
    BY <2>1 DEF Freeze
  <2>4. \A s \in DOMAIN chain : s = 1
    <3>1. Len(chain) <= 1
      BY <2>1, CurrentTermsType DEF ChainsOfOneStep
    <3> QED
      BY <3>1
  <2>5. status \notin Awaiting
    BY <1>2 DEF FreezeStep, Awaiting, Negotiable
  <2>6. PendingIsAwaited'
    <3> SUFFICES ASSUME NEW v \in DOMAIN snapshots',
                        NEW s \in DOMAIN snapshots'[v].records
                 PROVE  /\ s = 1
                        /\ snapshots'[v].records[s].status = "PENDING"
                             => v = Len(snapshots') /\ status' \in Awaiting
      BY DEF PendingIsAwaited, IsPending
    <3>1. v \in DOMAIN snapshots \/ v = Len(snapshots')
      BY <1>0, <2>2
    <3>2. CASE v \in DOMAIN snapshots
      BY <1>0, <2>2, <2>5, <3>2 DEF PendingIsAwaited, IsPending
    <3>3. CASE v = Len(snapshots')
      BY <2>1, <2>2, <2>3, <2>4, <3>3
    <3> QED
      BY <3>1, <3>2, <3>3
  <2>7. RequestsStayResolvable'
    BY <1>0, <1>2, <2>3 DEF FreezeStep, RequestsStayResolvable, NoPendingNegotiation
  <2>8. ConfirmedIsAuthorised'
    BY <2>1, <2>3 DEF ConfirmedIsAuthorised, Awaiting
  <2> QED
    BY <2>6, <2>7, <2>8 DEF OneStepInv
<1>3. CASE OpenStep
  <2>1. /\ status \notin Awaiting /\ snapshots' = snapshots
        /\ status' = "UNDER_NEGOTIATION"
    BY <1>3 DEF OpenStep, OpenNegotiation, Negotiable, Awaiting
  <2> QED
    BY <1>0, <2>1 DEF OneStepInv, PendingIsAwaited, IsPending,
         RequestsStayResolvable, ConfirmedIsAuthorised
<1>4. CASE AcceptStep
  <2>1. /\ status \notin Awaiting /\ snapshots' = snapshots
        /\ negotiations' = negotiations /\ CurrentTerms' = CurrentTerms
    BY <1>4 DEF AcceptStep, Accept, Negotiable, Awaiting, CurrentTerms
  <2>2. PendingIsAwaited'
    BY <1>0, <2>1 DEF PendingIsAwaited, IsPending
  <2>3. RequestsStayResolvable'
    BY <1>4, <2>1 DEF AcceptStep, RequestsStayResolvable, NoPendingNegotiation
  <2>4. ConfirmedIsAuthorised'
    BY <1>4, <2>1 DEF AcceptStep, ConfirmedIsAuthorised
  <2> QED
    BY <2>2, <2>3, <2>4 DEF OneStepInv
<1>5. CASE CloseStep
  <2>1. PICK n \in DOMAIN negotiations, applying \in BOOLEAN :
          /\ negotiations[n].status = "PENDING"
          /\ CloseNegotiation(n, applying)
    BY <1>5 DEF CloseStep
  <2>2. /\ status = "UNDER_NEGOTIATION" /\ status' = "SENT_TO_CUSTOMER"
        /\ snapshots' = snapshots
    BY <1>5, <2>1 DEF CloseStep, CloseNegotiation
  <2>3. NoPendingNegotiation'
    <3>1. /\ DOMAIN negotiations' = DOMAIN negotiations
          /\ \A m \in DOMAIN negotiations \ {n} : negotiations'[m] = negotiations[m]
          /\ negotiations'[n].status # "PENDING"
      BY <2>1, CloseEffect
    <3>2. \A m \in DOMAIN negotiations \ {n} : negotiations[m].status # "PENDING"
      BY <2>1 DEF NegotiationInv, AtMostOnePendingNegotiation
    <3> QED
      BY <3>1, <3>2 DEF NoPendingNegotiation
  <2> QED
    BY <1>0, <2>2, <2>3 DEF OneStepInv, PendingIsAwaited, IsPending, Awaiting,
         RequestsStayResolvable, ConfirmedIsAuthorised
<1>6. ASSUME NEW v \in DOMAIN snapshots,
             NEW s \in DOMAIN snapshots[v].records, NEW action \in Decisions,
             DecideStep(v, s, action)
      PROVE  OneStepInv'
  <2>1. /\ status \in Awaiting
        /\ status' = SettledStatus(action, status)
        /\ PendingIsAwaited'
        /\ action = "APPROVE" => FullyApproved'
        /\ negotiations' = negotiations
    BY <1>0, <1>6, OneDecision
  <2>2. RequestsStayResolvable'
    BY <1>0, <2>1 DEF RequestsStayResolvable, NoPendingNegotiation, Awaiting
  <2>3. status' = "CONFIRMED" => action = "APPROVE"
    BY <2>1 DEF SettledStatus, Decisions
  <2>4. ConfirmedIsAuthorised'
    BY <2>1, <2>3 DEF ConfirmedIsAuthorised
  <2> QED
    BY <2>1, <2>2, <2>4 DEF OneStepInv
<1>7. CASE UNCHANGED aggregate
  BY <1>0, <1>7 DEF aggregate, OneStepInv, PendingIsAwaited, IsPending,
     RequestsStayResolvable, NoPendingNegotiation, ConfirmedIsAuthorised,
     FullyApproved, CurrentTerms
<1> QED
  BY <1>1, <1>2, <1>3, <1>4, <1>5, <1>6, <1>7, StepCases

LEMMA OneStepSafe ==
    ASSUME ChainsOfOneStep PROVE SerialSpec => []OneStepInv
<1>1. Create => OneStepInv
  BY DEF Create, OneStepInv, PendingIsAwaited, RequestsStayResolvable,
         NoPendingNegotiation, ConfirmedIsAuthorised
<1> QED
  BY <1>1, NextOneStepInv, TypeCorrect, ReviewSafe, NegotiationSafe, PTL
  DEF SerialSpec

(* With one step to a chain, a customer's open request can be answered at  *)
(* any time: nothing takes the quotation from negotiation while it is open *)
(* (negotiation-repository resolve, approval-record-service decide).       *)
THEOREM RequestsResolvable ==
    ASSUME ChainsOfOneStep PROVE SerialSpec => []RequestsStayResolvable
<1>1. OneStepInv => RequestsStayResolvable
  BY DEF OneStepInv
<1> QED
  BY <1>1, OneStepSafe, PTL

(* With one step to a chain, confirmed terms either needed no approval     *)
(* under rules that were in force, or were approved as they are (confirm,  *)
(* and the decision on a re-approval).                                     *)
THEOREM ConfirmedAuthorised ==
    ASSUME ChainsOfOneStep PROVE SerialSpec => []ConfirmedIsAuthorised
<1>1. OneStepInv => ConfirmedIsAuthorised
  BY DEF OneStepInv
<1> QED
  BY <1>1, OneStepSafe, PTL

(* With one step to a chain, only an approval of the terms that are held   *)
(* brings a quotation out of review to the customer or to confirmation.    *)
THEOREM NewTermsNewApproval ==
    ASSUME ChainsOfOneStep PROVE SerialSpec => OldApprovalsAuthorizeNothing
<1>1. TypeOK /\ ReviewInv /\ OneStepInv /\ [SerialNext]_vars =>
        [status' \in {"SENT_TO_CUSTOMER", "CONFIRMED"} /\ status \in Awaiting
           => FullyApproved']_vars
  <2> SUFFICES ASSUME TypeOK, ReviewInv, OneStepInv, [SerialNext]_vars,
                      status' \in {"SENT_TO_CUSTOMER", "CONFIRMED"},
                      status \in Awaiting
               PROVE  FullyApproved'
    OBVIOUS
  <2>1. ~EditStep /\ ~FreezeStep /\ ~OpenStep /\ ~AcceptStep /\ ~CloseStep
    BY DEF EditStep, FreezeStep, OpenStep, AcceptStep, CloseStep, Negotiable, Awaiting
  <2>2. ~UNCHANGED aggregate
    BY DEF aggregate, Awaiting
  <2>3. PICK v \in DOMAIN snapshots :
           \E s \in DOMAIN snapshots[v].records, action \in Decisions :
              DecideStep(v, s, action)
    BY <2>1, <2>2, StepCases
  <2>4. PICK s \in DOMAIN snapshots[v].records, action \in Decisions :
           DecideStep(v, s, action)
    BY <2>3
  <2>5. /\ status' = SettledStatus(action, status)
        /\ action = "APPROVE" => FullyApproved'
    BY <2>4, OneDecision DEF OneStepInv
  <2>6. action = "APPROVE"
    BY <2>5 DEF SettledStatus, Decisions
  <2> QED
    BY <2>5, <2>6
<1> QED
  BY <1>1, OneStepSafe, TypeCorrect, ReviewSafe, PTL
  DEF SerialSpec, OldApprovalsAuthorizeNothing

(* With one step to a chain, a rejected quotation stays rejected, as the   *)
(* design says (TAD 11); with two it need not, as a run shows.             *)
THEOREM RejectedForGood ==
    ASSUME ChainsOfOneStep PROVE SerialSpec => RejectIsTerminal
<1>1. TypeOK /\ OneStepInv /\ [SerialNext]_vars =>
        [status = "REJECTED" => status' = "REJECTED"]_vars
  <2> SUFFICES ASSUME TypeOK, OneStepInv, [SerialNext]_vars, status = "REJECTED"
               PROVE  status' = "REJECTED"
    OBVIOUS
  <2>1. ~EditStep /\ ~FreezeStep /\ ~OpenStep /\ ~AcceptStep /\ ~CloseStep
    BY DEF EditStep, FreezeStep, OpenStep, AcceptStep, CloseStep, Negotiable
  <2>2. ASSUME NEW v \in DOMAIN snapshots, NEW s \in DOMAIN snapshots[v].records,
               NEW action \in Decisions
        PROVE  ~DecideStep(v, s, action)
    BY DEF DecideStep, FirstPending, OneStepInv, PendingIsAwaited, Awaiting
  <2> QED
    BY <2>1, <2>2, StepCases DEF aggregate
<1> QED
  BY <1>1, OneStepSafe, TypeCorrect, PTL DEF SerialSpec, RejectIsTerminal

-----------------------------------------------------------------------------
(***************************************************************************)
(* The services implement the serial operations, for any number of         *)
(* requests in flight, and so keep all that those keep.                    *)
(*                                                                         *)
(* The argument is that of optimistic locking: as long as the version is   *)
(* the one a request read, what it read is still so (StepKeeps), and a     *)
(* commit checks just that.  Decisions of one step do not move the         *)
(* version; what DecideLoad read of the earlier steps is stable instead.   *)
(***************************************************************************)
UserOps == {"edit", "submit", "negotiate", "confirm"}

Fresh(r) == req[r].seen = version

(* The status that Start checked.                                          *)
StatusChecked(r) ==
    /\ req[r].op \in {"edit", "submit"} => req[r].status = "DRAFT"
    /\ req[r].op \in {"negotiate", "confirm"} => req[r].status \in Negotiable
    /\ req[r].op = "resolve" => req[r].status = "UNDER_NEGOTIATION"

(* What Load found, while nothing has moved.                               *)
LoadedHolds(r) ==
    /\ req[r].op \in {"submit", "confirm"} =>
         /\ req[r].terms = CurrentTerms
         /\ \E c \in RuleSets : req[r].chain = Chain[c][CurrentTerms]
    /\ req[r].op = "submit" => lines # NoLines
    /\ req[r].op \in {"negotiate", "confirm"} => NoPendingNegotiation
    /\ req[r].op = "resolve" =>
         /\ req[r].target \in DOMAIN negotiations
         /\ negotiations[req[r].target].status = "PENDING"

(* What a decision knows of its step whatever moves.                       *)
StepKnown(r) ==
    LET v == req[r].target
        s == req[r].step
    IN  /\ v \in DOMAIN snapshots
        /\ s \in DOMAIN snapshots[v].records
        /\ req[r].pc = "loaded" =>
             \A t \in DOMAIN snapshots[v].records : t < s => ~IsPending(v, t)

RequestHolds(r) ==
    req[r].pc # "idle" =>
       /\ req[r].op # "none"
       /\ req[r].expected <= req[r].seen
       /\ req[r].seen <= version
       /\ req[r].op \notin {"edit", "submit"} => req[r].expected = req[r].seen
       /\ req[r].op \in UserOps => req[r].seen < MaxVersion
       /\ StatusChecked(r)
       /\ Fresh(r) => req[r].status = status /\ req[r].terms.disc = disc
       /\ Fresh(r) /\ req[r].pc = "loaded" => LoadedHolds(r)
       /\ req[r].op = "decide" => StepKnown(r)

RequestInv ==
    /\ TypeOK
    /\ req \in [Requests -> Request]
    /\ \A r \in Requests : RequestHolds(r)

LEMMA RecordsType ==
    ASSUME TypeOK, NEW v \in DOMAIN snapshots
    PROVE  /\ v \in Nat
           /\ snapshots[v].records \in Seq(Record)
           /\ DOMAIN snapshots[v].records \subseteq Nat
<1>1. snapshots \in Seq(Snapshot)
  BY DEF TypeOK
<1>2. snapshots[v] \in Snapshot /\ v \in Nat
  BY <1>1
<1>3. snapshots[v].records \in Seq(Record)
  BY <1>2 DEF Snapshot
<1> QED
  BY <1>2, <1>3

(***************************************************************************)
(* A request that a step does not touch keeps what it holds.               *)
(***************************************************************************)
LEMMA UntouchedHolds ==
    ASSUME RequestInv, NEW r \in Requests, req'[r] = req[r], TypeOK',
           VersionMoves, SnapshotsKept
    PROVE  RequestHolds(r)'
<1> SUFFICES ASSUME req[r].pc # "idle" PROVE RequestHolds(r)'
  BY DEF RequestHolds
<1>1. RequestHolds(r) /\ req[r] \in Request
  BY DEF RequestInv
<1>2. version \in Nat /\ version' \in Nat /\ req[r].seen \in Nat
  BY <1>1 DEF RequestInv, TypeOK, Request
<1>3. version <= version'
  BY <1>2 DEF VersionMoves
<1>4. Fresh(r)' => Fresh(r) /\ UNCHANGED <<status, lines, disc, negotiations>>
  BY <1>1, <1>2, <1>3 DEF Fresh, RequestHolds, VersionMoves
<1>5. StatusChecked(r)'
  BY <1>1 DEF RequestHolds, StatusChecked
<1>6. Fresh(r)' => req'[r].status = status' /\ req'[r].terms.disc = disc'
  BY <1>1, <1>4 DEF RequestHolds
<1>7. Fresh(r)' /\ req'[r].pc = "loaded" => LoadedHolds(r)'
  BY <1>1, <1>4
  DEF RequestHolds, LoadedHolds, CurrentTerms, NoPendingNegotiation
<1>8. req'[r].op = "decide" => StepKnown(r)'
  BY <1>1 DEF RequestHolds, StepKnown, SnapshotsKept, IsPending
<1>9. req'[r].seen <= version'
  BY <1>1, <1>2, <1>3 DEF RequestHolds, Request
<1> QED
  BY <1>1, <1>5, <1>6, <1>7, <1>8, <1>9 DEF RequestHolds

LEMMA OthersHold ==
    ASSUME RequestInv, NEW r \in Requests, NEW new,
           req' = [req EXCEPT ![r] = new], new \in Request,
           TypeOK', VersionMoves, SnapshotsKept, RequestHolds(r)'
    PROVE  RequestInv'
<1>1. req \in [Requests -> Request]
  BY DEF RequestInv
<1>2. req' \in [Requests -> Request]
  BY <1>1
<1>3. \A q \in Requests : q # r => req'[q] = req[q]
  BY <1>1
<1>4. \A q \in Requests : RequestHolds(q)'
  BY <1>3, UntouchedHolds
<1> QED
  BY <1>2, <1>4 DEF RequestInv

(* A step that leaves the rows alone.                                      *)
LEMMA Still ==
    ASSUME TypeOK, UNCHANGED vars
    PROVE  TypeOK' /\ VersionMoves /\ SnapshotsKept
BY DEF vars, aggregate, TypeOK, VersionMoves, SnapshotsKept

LEMMA IdleType == ASSUME TypeOK PROVE Idle \in Request
<1>1. NoLines \in LineMaps
  BY DEF NoLines, LineMaps
<1>2. [lines |-> NoLines, disc |-> DefaultPct] \in Terms
  BY <1>1, QuotationAssumption DEF QuotationAssumption, Terms
<1>3. << >> \in Seq(Roles)
  OBVIOUS
<1> QED
  BY <1>2, <1>3 DEF Idle, Request, Ops, Statuses

(***************************************************************************)
(* Start                                                                   *)
(***************************************************************************)
LEMMA BeginHolds ==
    ASSUME RequestInv, NEW r \in Requests, NEW op \in Ops \ {"none"},
           NEW e \in Nat, NEW v \in Nat, NEW s \in Nat,
           Begin(r, op, e, v, s),
           e <= version,
           op \notin {"edit", "submit"} => e = version,
           op \in UserOps => version < MaxVersion,
           op \in {"edit", "submit"} => status = "DRAFT",
           op \in {"negotiate", "confirm"} => status \in Negotiable,
           op = "resolve" => status = "UNDER_NEGOTIATION",
           op = "decide" => v \in DOMAIN snapshots
                            /\ s \in DOMAIN snapshots[v].records
    PROVE  RequestInv'
<1> DEFINE new == [pc |-> "started", op |-> op, expected |-> e,
                   seen |-> version, status |-> status,
                   terms |-> [lines |-> NoLines, disc |-> disc],
                   chain |-> << >>, target |-> v, step |-> s]
<1>1. req' = [req EXCEPT ![r] = new] /\ UNCHANGED vars
  BY DEF Begin
<1>2. TypeOK /\ req \in [Requests -> Request]
  BY DEF RequestInv
<1>3. new \in Request
  <2>1. NoLines \in LineMaps
    BY DEF NoLines, LineMaps
  <2>2. [lines |-> NoLines, disc |-> disc] \in Terms
    BY <1>2, <2>1 DEF TypeOK, Terms
  <2>3. version \in Nat /\ status \in Statuses
    BY <1>2 DEF TypeOK
  <2>4. << >> \in Seq(Roles)
    OBVIOUS
  <2> QED
    BY <2>2, <2>3, <2>4 DEF Request
<1>4. req'[r] = new
  BY <1>1, <1>2
<1>5. UNCHANGED <<status, version, lines, disc, snapshots, negotiations>>
  BY <1>1 DEF vars, aggregate
<1>6. version <= version
  BY <1>2 DEF TypeOK
<1>7. RequestHolds(r)'
  BY <1>4, <1>5, <1>6
  DEF RequestHolds, StatusChecked, Fresh, StepKnown, UserOps
<1>8. TypeOK' /\ VersionMoves /\ SnapshotsKept
  BY <1>1, <1>2, Still
<1> HIDE DEF new
<1> QED
  BY <1>1, <1>3, <1>7, <1>8, OthersHold

LEMMA StartsHold ==
    ASSUME RequestInv, NEW r \in Requests, Starts(r)
    PROVE  RequestInv' /\ UNCHANGED vars
<1>0. TypeOK /\ version \in Nat /\ version <= version /\ 0 \in Nat
  BY DEF RequestInv, TypeOK
<1>1. ASSUME NEW op, NEW e, NEW v, NEW s, Begin(r, op, e, v, s)
      PROVE  UNCHANGED vars
  BY <1>1 DEF Begin
<1>2. CASE EditStart(r)
  <2>1. PICK e \in 1 .. version : Begin(r, "edit", e, 0, 0)
    BY <1>2 DEF EditStart
  <2>2. status = "DRAFT" /\ version < MaxVersion /\ e \in Nat /\ e <= version
    BY <1>0, <1>2 DEF EditStart, Room
  <2>3. RequestInv'
    BY <1>0, <2>1, <2>2, BeginHolds DEF Ops, UserOps
  <2> QED
    BY <1>1, <2>1, <2>3
<1>3. CASE SubmitStart(r)
  <2>1. PICK e \in 1 .. version : Begin(r, "submit", e, 0, 0)
    BY <1>3 DEF SubmitStart
  <2>2. status = "DRAFT" /\ version < MaxVersion /\ e \in Nat /\ e <= version
    BY <1>0, <1>3 DEF SubmitStart, Room
  <2>3. RequestInv'
    BY <1>0, <2>1, <2>2, BeginHolds DEF Ops, UserOps
  <2> QED
    BY <1>1, <2>1, <2>3
<1>4. CASE NegotiateStart(r)
  <2>1. /\ Begin(r, "negotiate", version, 0, 0)
        /\ status \in Negotiable /\ version < MaxVersion
    BY <1>4 DEF NegotiateStart, Room
  <2>2. RequestInv'
    BY <1>0, <2>1, BeginHolds DEF Ops, UserOps
  <2> QED
    BY <1>1, <2>1, <2>2
<1>5. CASE ConfirmStart(r)
  <2>1. /\ Begin(r, "confirm", version, 0, 0)
        /\ status \in Negotiable /\ version < MaxVersion
    BY <1>5 DEF ConfirmStart, Room
  <2>2. RequestInv'
    BY <1>0, <2>1, BeginHolds DEF Ops, UserOps
  <2> QED
    BY <1>1, <2>1, <2>2
<1>6. CASE ResolveStart(r)
  <2>1. Begin(r, "resolve", version, 0, 0) /\ status = "UNDER_NEGOTIATION"
    BY <1>6 DEF ResolveStart
  <2>2. RequestInv'
    BY <1>0, <2>1, BeginHolds DEF Ops, UserOps
  <2> QED
    BY <1>1, <2>1, <2>2
<1>7. CASE DecideStart(r)
  <2>1. PICK v \in DOMAIN snapshots :
          \E s \in DOMAIN snapshots[v].records : Begin(r, "decide", version, v, s)
    BY <1>7 DEF DecideStart
  <2>2. PICK s \in DOMAIN snapshots[v].records : Begin(r, "decide", version, v, s)
    BY <2>1
  <2>3. v \in Nat /\ s \in Nat
    BY <1>0, RecordsType
  <2>4. RequestInv'
    BY <1>0, <2>2, <2>3, BeginHolds DEF Ops, UserOps
  <2> QED
    BY <1>1, <2>2, <2>4
<1> QED
  BY <1>2, <1>3, <1>4, <1>5, <1>6, <1>7 DEF Starts

(***************************************************************************)
(* Load                                                                    *)
(***************************************************************************)
LEMMA LoadHolds ==
    ASSUME RequestInv, NEW r \in Requests, NEW terms \in Terms,
           NEW chain \in Seq(Roles), NEW target \in Nat,
           Load(r, terms, chain, target), req[r].pc = "started",
           terms.disc = req[r].terms.disc,
           req[r].op \in {"submit", "confirm"} =>
              /\ terms = TermsRead(r)
              /\ \E c \in RuleSets : chain = Chain[c][TermsRead(r)],
           req[r].op = "submit" => lines # NoLines,
           req[r].op \in {"negotiate", "confirm"} => NoPendingNegotiation,
           req[r].op = "resolve" =>
              target \in DOMAIN negotiations
              /\ negotiations[target].status = "PENDING",
           req[r].op = "decide" =>
              target = req[r].target /\ FirstPending(target, req[r].step)
    PROVE  RequestInv'
<1> DEFINE new == [req[r] EXCEPT !.pc = "loaded", !.terms = terms,
                                 !.chain = chain, !.target = target]
<1>1. req' = [req EXCEPT ![r] = new] /\ UNCHANGED vars
  BY DEF Load
<1>2. /\ TypeOK /\ req \in [Requests -> Request]
      /\ RequestHolds(r)
  BY DEF RequestInv
<1>3. req[r] \in Request
  BY <1>2
<1>4. /\ new \in Request
      /\ new.pc = "loaded" /\ new.terms = terms /\ new.chain = chain
      /\ new.target = target /\ new.op = req[r].op /\ new.step = req[r].step
      /\ new.expected = req[r].expected /\ new.seen = req[r].seen
      /\ new.status = req[r].status
  BY <1>3 DEF Request
<1> HIDE DEF new
<1>5. req'[r] = new
  BY <1>1, <1>2
<1>6. UNCHANGED <<status, version, lines, disc, snapshots, negotiations>>
  BY <1>1 DEF vars, aggregate
<1>7. Fresh(r) => TermsRead(r) = CurrentTerms
  BY <1>2 DEF RequestHolds, Fresh, TermsRead, CurrentTerms
<1>8. Fresh(r)' <=> Fresh(r)
  BY <1>4, <1>5, <1>6 DEF Fresh
<1>9. Fresh(r) => LoadedHolds(r)'
  BY <1>4, <1>5, <1>6, <1>7
  DEF LoadedHolds, CurrentTerms, NoPendingNegotiation
<1>10. req[r].op = "decide" => StepKnown(r)'
  <2> SUFFICES ASSUME req[r].op = "decide" PROVE StepKnown(r)'
    OBVIOUS
  <2>1. /\ target \in DOMAIN snapshots
        /\ req[r].step \in DOMAIN snapshots[target].records
    BY <1>2 DEF RequestHolds, StepKnown
  <2>2. DOMAIN snapshots[target].records \subseteq Nat
    BY <1>2, <2>1, RecordsType
  <2>3. \A t \in DOMAIN snapshots[target].records :
          t < req[r].step => ~IsPending(target, t)
    BY <2>1, <2>2 DEF FirstPending
  <2> QED
    BY <1>4, <1>5, <1>6, <2>1, <2>3 DEF StepKnown, IsPending
<1>11. RequestHolds(r)'
  BY <1>2, <1>4, <1>5, <1>6, <1>8, <1>9, <1>10
  DEF RequestHolds, StatusChecked
<1>12. TypeOK' /\ VersionMoves /\ SnapshotsKept
  BY <1>1, <1>2, Still
<1> QED
  BY <1>1, <1>4, <1>11, <1>12, OthersHold

LEMMA LoadsHold ==
    ASSUME RequestInv, NEW r \in Requests, Loads(r)
    PROVE  RequestInv' /\ UNCHANGED vars
<1>1. req[r] \in Request /\ TypeOK
  BY DEF RequestInv
<1>2. /\ req[r].terms \in Terms /\ req[r].target \in Nat
      /\ << >> \in Seq(Roles) /\ 0 \in Nat
  BY <1>1 DEF Request
<1>3. TermsRead(r) \in Terms /\ TermsRead(r).disc = req[r].terms.disc
  BY <1>1, <1>2 DEF TermsRead, Terms, TypeOK
<1>4. rules \in RuleSets /\ Chain[rules][TermsRead(r)] \in Seq(Roles)
  BY <1>1, <1>3, ChainType DEF TypeOK
<1> USE DEF At
<1>5. CASE SubmitLoad(r)
  BY <1>2, <1>3, <1>4, <1>5, LoadHolds DEF SubmitLoad, Load
<1>6. CASE NegotiateLoad(r)
  BY <1>2, <1>6, LoadHolds DEF NegotiateLoad, Load
<1>7. CASE ConfirmLoad(r)
  BY <1>2, <1>3, <1>4, <1>7, LoadHolds DEF ConfirmLoad, Load
<1>8. CASE ResolveLoad(r)
  <2>1. PICK n \in DOMAIN negotiations :
          /\ negotiations[n].status = "PENDING"
          /\ Load(r, req[r].terms, << >>, n)
    BY <1>8 DEF ResolveLoad
  <2>2. n \in Nat
    BY <1>1 DEF TypeOK
  <2> QED
    BY <1>2, <1>8, <2>1, <2>2, LoadHolds DEF ResolveLoad, Load
<1>9. CASE DecideLoad(r)
  BY <1>2, <1>9, LoadHolds DEF DecideLoad, Load
<1> QED
  BY <1>5, <1>6, <1>7, <1>8, <1>9 DEF Loads

(***************************************************************************)
(* Commit: each is the serial operation                                    *)
(***************************************************************************)
LEMMA CommitsFresh ==
    ASSUME RequestInv, NEW r \in Requests, req[r].pc # "idle",
           VersionUnchanged(r)
    PROVE  /\ Fresh(r)
           /\ req[r].status = status
           /\ req[r].pc = "loaded" => LoadedHolds(r)
           /\ req[r].op \in UserOps => Room
           /\ StatusChecked(r)
<1>1. RequestHolds(r) /\ req[r] \in Request /\ version \in Nat
  BY DEF RequestInv, TypeOK
<1>2. req[r].seen \in Nat /\ req[r].expected \in Nat
  BY <1>1 DEF Request
<1>3. Fresh(r)
  BY <1>1, <1>2 DEF RequestHolds, VersionUnchanged, Fresh
<1> QED
  BY <1>1, <1>3 DEF RequestHolds, Fresh, Room

LEMMA EditCommits ==
    ASSUME RequestInv, NEW r \in Requests,
           NEW ls \in LineMaps, NEW d \in Pcts,
           Commits(r, "edit", "started"), WriteTerms(ls, d)
    PROVE  Edit
<1>1. Room /\ status = "DRAFT"
  BY CommitsFresh DEF Commits, At, UserOps, StatusChecked
<1> QED
  BY <1>1 DEF Edit, Commits

LEMMA WritesSerial ==
    ASSUME RequestInv, NEW r \in Requests, Writes(r)
    PROVE  SerialNext /\ req' = [req EXCEPT ![r] = Idle]
<1>0. /\ TypeOK /\ lines \in LineMaps /\ disc \in Pcts /\ req[r] \in Request
      /\ RequestHolds(r)
  BY DEF RequestInv, TypeOK
<1>1. CASE AddLine(r)
  <2>1. PICK l \in Lines, d \in Deals : WriteTerms([lines EXCEPT ![l] = d], disc)
    BY <1>1 DEF AddLine
  <2>2. [lines EXCEPT ![l] = d] \in LineMaps
    BY <1>0 DEF LineMaps
  <2> QED
    BY <1>0, <1>1, <2>1, <2>2, EditCommits DEF AddLine, SerialNext, Commits
<1>2. CASE RemoveLine(r)
  <2>1. PICK l \in Lines : WriteTerms([lines EXCEPT ![l] = NoDeal], disc)
    BY <1>2 DEF RemoveLine
  <2>2. [lines EXCEPT ![l] = NoDeal] \in LineMaps
    BY <1>0 DEF LineMaps
  <2> QED
    BY <1>0, <1>2, <2>1, <2>2, EditCommits DEF RemoveLine, SerialNext, Commits
<1>3. CASE UpdateLineQuantity(r)
  <2>1. PICK l \in Lines, d \in Deals : WriteTerms([lines EXCEPT ![l] = d], disc)
    BY <1>3 DEF UpdateLineQuantity
  <2>2. [lines EXCEPT ![l] = d] \in LineMaps
    BY <1>0 DEF LineMaps
  <2> QED
    BY <1>0, <1>3, <2>1, <2>2, EditCommits
    DEF UpdateLineQuantity, SerialNext, Commits
<1>4. CASE UpdateDiscounts(r)
  <2>1. PICK ls \in LineMaps, d \in Pcts : WriteTerms(ls, d)
    BY <1>4 DEF UpdateDiscounts
  <2> QED
    BY <1>4, <2>1, EditCommits DEF UpdateDiscounts, SerialNext, Commits
<1>5. CASE SubmitCommit(r)
  <2>1. /\ Room /\ status = "DRAFT" /\ lines # NoLines
        /\ req[r].terms = CurrentTerms
        /\ \E c \in RuleSets : req[r].chain = Chain[c][CurrentTerms]
    BY <1>5, CommitsFresh
    DEF SubmitCommit, Commits, At, UserOps, StatusChecked, LoadedHolds
  <2> QED
    BY <1>5, <2>1 DEF SubmitCommit, Commits, Submit, SerialNext
<1>6. CASE NegotiateCommit(r)
  <2>1. Room /\ status \in Negotiable /\ NoPendingNegotiation
    BY <1>6, CommitsFresh
    DEF NegotiateCommit, Commits, At, UserOps, StatusChecked, LoadedHolds
  <2> QED
    BY <1>6, <2>1 DEF NegotiateCommit, Commits, Negotiate, SerialNext
<1>7. CASE ConfirmCommit(r)
  <2>1. /\ Room /\ status \in Negotiable /\ NoPendingNegotiation
        /\ req[r].terms = CurrentTerms
        /\ \E c \in RuleSets : req[r].chain = Chain[c][CurrentTerms]
    BY <1>7, CommitsFresh
    DEF ConfirmCommit, Commits, At, UserOps, StatusChecked, LoadedHolds
  <2> QED
    BY <1>7, <2>1 DEF ConfirmCommit, Commits, Confirm, SerialNext
<1>8. CASE ResolveCommit(r)
  <2>1. /\ status = "UNDER_NEGOTIATION"
        /\ req[r].target \in DOMAIN negotiations
        /\ negotiations[req[r].target].status = "PENDING"
    BY <1>8, CommitsFresh
    DEF ResolveCommit, Commits, At, StatusChecked, LoadedHolds
  <2> QED
    BY <1>8, <2>1 DEF ResolveCommit, Commits, Resolve, SerialNext
<1>9. CASE DecideCommit(r)
  <2> DEFINE v == req[r].target
             s == req[r].step
  <2>1. /\ v \in DOMAIN snapshots
        /\ s \in DOMAIN snapshots[v].records
        /\ \A t \in DOMAIN snapshots[v].records : t < s => ~IsPending(v, t)
    BY <1>0, <1>9 DEF DecideCommit, At, RequestHolds, StepKnown
  <2>2. FirstPending(v, s)
    <3>1. DOMAIN snapshots[v].records \subseteq Nat
      BY <1>0, <2>1, RecordsType
    <3>2. \A t \in DOMAIN snapshots[v].records : IsPending(v, t) => s <= t
      BY <2>1, <3>1
    <3> QED
      BY <1>9, <3>2 DEF FirstPending, DecideCommit, RecordUnchanged
  <2>3. PICK action \in Decisions :
          /\ Settles(v, s, action) => VersionUnchanged(r)
          /\ DecideWrite(v, s, action, req[r].status)
    BY <1>9 DEF DecideCommit
  <2>4. Settles(v, s, action) => req[r].status = status
    BY <1>9, <2>3, CommitsFresh DEF DecideCommit, At
  <2>5. DecideWrite(v, s, action, status)
    BY <2>3, <2>4 DEF DecideWrite
  <2>6. Decide
    BY <1>9, <2>1, <2>2, <2>5 DEF Decide, DecideCommit
  <2> QED
    BY <1>9, <2>6 DEF DecideCommit, SerialNext
<1> QED
  BY <1>1, <1>2, <1>3, <1>4, <1>5, <1>6, <1>7, <1>8, <1>9
  DEF Writes, AddLine, RemoveLine, UpdateLineQuantity, UpdateDiscounts,
      SubmitCommit, NegotiateCommit, ConfirmCommit, ResolveCommit, DecideCommit,
      Commits

LEMMA IdleHolds ==
    ASSUME RequestInv, NEW r \in Requests, req' = [req EXCEPT ![r] = Idle]
    PROVE  RequestHolds(r)'
<1>1. req'[r] = Idle
  BY DEF RequestInv
<1> QED
  BY <1>1 DEF RequestHolds, Idle

LEMMA NextRequestInv ==
    ASSUME RequestInv, [ServiceNext]_allVars
    PROVE  RequestInv' /\ [SerialNext]_vars
<1>0. TypeOK /\ req \in [Requests -> Request]
  BY DEF RequestInv
<1>1. ASSUME NEW r \in Requests, Starts(r)
      PROVE  RequestInv' /\ [SerialNext]_vars
  BY <1>1, StartsHold
<1>2. ASSUME NEW r \in Requests, Loads(r)
      PROVE  RequestInv' /\ [SerialNext]_vars
  BY <1>2, LoadsHold
<1>3. ASSUME NEW r \in Requests, Writes(r)
      PROVE  RequestInv' /\ [SerialNext]_vars
  <2>1. SerialNext /\ req' = [req EXCEPT ![r] = Idle]
    BY <1>3, WritesSerial
  <2>2. TypeOK' /\ VersionMoves /\ SnapshotsKept
    BY <1>0, <2>1, NextTypeOK, StepKeeps
  <2> QED
    BY <1>0, <2>1, <2>2, IdleType, IdleHolds, OthersHold
<1>4. ASSUME NEW r \in Requests, Abort(r)
      PROVE  RequestInv' /\ [SerialNext]_vars
  <2>1. req' = [req EXCEPT ![r] = Idle] /\ UNCHANGED vars
    BY <1>4 DEF Abort
  <2>2. TypeOK' /\ VersionMoves /\ SnapshotsKept
    BY <1>0, <2>1, Still
  <2> QED
    BY <1>0, <2>1, <2>2, IdleType, IdleHolds, OthersHold
<1>5. ASSUME ChangeRules \/ UNCHANGED vars, UNCHANGED req
      PROVE  RequestInv' /\ [SerialNext]_vars
  <2>1. [SerialNext]_vars
    BY <1>5 DEF SerialNext
  <2>2. TypeOK' /\ VersionMoves /\ SnapshotsKept
    BY <1>0, <2>1, NextTypeOK, StepKeeps
  <2>3. \A r \in Requests : RequestHolds(r)'
    BY <1>5, <2>2, UntouchedHolds
  <2> QED
    BY <1>0, <1>5, <2>1, <2>2, <2>3 DEF RequestInv
<1>6. UNCHANGED allVars => UNCHANGED vars /\ UNCHANGED req
  BY DEF allVars, vars
<1> QED
  BY <1>1, <1>2, <1>3, <1>4, <1>5, <1>6 DEF ServiceNext

LEMMA InitRequestInv == ServiceInit => RequestInv
<1> SUFFICES ASSUME ServiceInit PROVE RequestInv
  OBVIOUS
<1>1. TypeOK
  BY InitTypeOK DEF ServiceInit
<1>2. \A r \in Requests : req[r] = Idle
  BY DEF ServiceInit
<1>3. \A r \in Requests : RequestHolds(r)
  BY <1>2 DEF RequestHolds, Idle
<1> QED
  BY <1>1, <1>3, IdleType DEF ServiceInit, RequestInv

(* However many requests are in flight and however their statements        *)
(* interleave, the rows change as if operations ran one at a time: the     *)
(* version check alone makes the services atomic.                          *)
THEOREM ServiceImplementsSerial == ServiceSpec => SerialSpec
<1>1. ServiceInit => Create
  BY DEF ServiceInit
<1> QED
  BY <1>1, InitRequestInv, NextRequestInv, PTL DEF ServiceSpec, SerialSpec

(* Rows and requests keep their types.                                     *)
THEOREM ServiceTypeCorrect == ServiceSpec => []ServiceTypeOK
<1>1. RequestInv => ServiceTypeOK
  BY DEF RequestInv, ServiceTypeOK
<1> QED
  BY <1>1, InitRequestInv, NextRequestInv, PTL DEF ServiceSpec

(* What holds of the serial operations holds of the running services.      *)
THEOREM ServiceSafe ==
    ServiceSpec => []NegotiationInv /\ []ReviewsAreSound
<1>1. ReviewInv /\ DecidedInOrder => ReviewsAreSound
  BY DEF ReviewsAreSound
<1> QED
  BY <1>1, ServiceImplementsSerial, NegotiationSafe, ReviewSafe, InOrder, PTL

(* And what no step of them does, no step of the services does.            *)
THEOREM ServiceSteps ==
    ServiceSpec => /\ TermsFrozenOutsideDraft
                   /\ HistoryIsKept
                   /\ ChangesMoveVersion
BY ServiceImplementsSerial, TermsFrozen, SnapshotsFaithful, DecisionsFinal,
   VersionNoticesChanges DEF HistoryIsKept

(* What chains of one step give the serial operations, they give the       *)
(* services too.                                                           *)
THEOREM ServiceOneStep ==
    ASSUME ChainsOfOneStep
    PROVE  ServiceSpec => /\ []RequestsStayResolvable
                          /\ []ConfirmedIsAuthorised
                          /\ OldApprovalsAuthorizeNothing
BY ServiceImplementsSerial, RequestsResolvable, ConfirmedAuthorised,
   NewTermsNewApproval
=============================================================================
