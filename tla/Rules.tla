-------------------------------- MODULE Rules --------------------------------
(***************************************************************************)
(* The discount rules of a few tiers and categories, and the approval      *)
(* rule of one risk band with its steps, under administrators who save     *)
(* them at the same time (prisma-discount-rule-repository.ts,              *)
(* prisma-approval-rule-repository.ts).                                    *)
(*                                                                         *)
(* Every operation is one READ COMMITTED transaction.  Its statements see  *)
(* what is committed when each of them starts; a row it has written stays  *)
(* locked, and a key it has put into a unique index stays claimed, until   *)
(* it commits.  Who needs such a row or key waits.                         *)
(***************************************************************************)
EXTENDS Naturals, FiniteSets

CONSTANTS Rules,      \* ids of discount rules
          Targets,    \* the tiers and categories they may be for
          Ceilings,   \* discounts they may allow
          Requests,   \* transactions under way at once
          MaxWrites   \* bound: transactions that write

VARIABLES rule,     \* rule[i]: a discount rule, or none
          policy,   \* whether the approval rule exists
          steps,    \* its steps, [order, tag]; the tag names the save
          txn,      \* txn[r]: what a transaction has read and written
          writes    \* transactions begun

vars == <<rule, policy, steps, txn, writes>>

NoRule == [exists |-> FALSE, target |-> CHOOSE t \in Targets : TRUE,
           ceiling |-> CHOOSE c \in Ceilings : TRUE, active |-> FALSE]

Rule == {NoRule} \union
        [exists : {TRUE}, target : Targets, ceiling : Ceilings, active : BOOLEAN]

Step == [order : Nat, tag : Nat]

Idle == [pc |-> "idle", id |-> CHOOSE i \in Rules : TRUE, row |-> NoRule,
         sets |-> {}, seen |-> {}, put |-> {}, drop |-> FALSE]

Fields == {"ceiling", "active"}

PolicyPhases == {"deleting", "deleted", "saved", "created"}

Transaction == [pc : {"idle", "insert", "update", "drop", "written"} \union PolicyPhases,
                id : Rules, row : Rule, sets : SUBSET Fields,
                seen : SUBSET Step, put : SUBSET Step, drop : BOOLEAN]

TypeOK == /\ rule \in [Rules -> Rule]
          /\ policy \in BOOLEAN
          /\ steps \in SUBSET Step
          /\ txn \in [Requests -> Transaction]
          /\ writes \in Nat

Init == /\ rule = [i \in Rules |-> NoRule]
        /\ policy = FALSE /\ steps = {}
        /\ txn = [r \in Requests |-> Idle]
        /\ writes = 0

At(r, phases) == txn[r].pc \in phases

Others(r) == Requests \ {r}

Begin(r, t) == /\ At(r, {"idle"}) /\ writes < MaxWrites
               /\ writes' = writes + 1
               /\ txn' = [txn EXCEPT ![r] = t]

(* A transaction ends without a trace: by an error, or because its         *)
(* connection is lost.                                                     *)
Rollback(r) == /\ ~At(r, {"idle"})
               /\ txn' = [txn EXCEPT ![r] = Idle]
               /\ UNCHANGED <<rule, policy, steps, writes>>

PolicyUnchanged == UNCHANGED <<policy, steps>>

-----------------------------------------------------------------------------
(* Discount rules.                                                         *)

Conflicts(row, i) == \E j \in Rules \ {i} : /\ row.active /\ rule[j].active
                                            /\ rule[j].target = row.target

(* What the other transactions hold: the row itself, or the place in the   *)
(* partial unique index of active rules.                                   *)
Free(r, row, i) ==
    \A o \in Others(r) : At(o, {"written"}) =>
        /\ txn[o].id # i
        /\ ~(row.active /\ txn[o].row.active /\ txn[o].row.target = row.target)

Create(r) ==
    /\ \E i \in Rules, t \in Targets, c \in Ceilings, a \in BOOLEAN :
         LET row == [exists |-> TRUE, target |-> t, ceiling |-> c, active |-> a]
         IN  /\ ~rule[i].exists /\ \A o \in Others(r) : txn[o].id # i \/ At(o, {"idle"})
             /\ ~Conflicts(row, i)
             /\ Begin(r, [Idle EXCEPT !.pc = "insert", !.id = i, !.row = row])
    /\ PolicyUnchanged /\ UNCHANGED rule

Written(r, row) == txn' = [txn EXCEPT ![r].pc = "written", ![r].row = row]

(* Fault: the check made when the transaction began is all there is.       *)
InsertUnchecked(r) ==
    /\ At(r, {"insert"})
    /\ Written(r, txn[r].row)
    /\ PolicyUnchanged /\ UNCHANGED <<rule, writes>>

Insert(r) ==
    /\ At(r, {"insert"})
    /\ Free(r, txn[r].row, txn[r].id) /\ ~Conflicts(txn[r].row, txn[r].id)
    /\ Written(r, txn[r].row)
    /\ PolicyUnchanged /\ UNCHANGED <<rule, writes>>

(* The rule as it was read, with the fields the request sets.  Activating  *)
(* it is refused while another one is active for its target.               *)
Update(r) ==
    /\ \E i \in Rules, c \in Ceilings, a \in BOOLEAN, f \in SUBSET Fields :
         LET willBe == IF "active" \in f THEN a ELSE rule[i].active
         IN  /\ rule[i].exists
             /\ ~rule[i].active => ~Conflicts([rule[i] EXCEPT !.active = willBe], i)
             /\ Begin(r, [Idle EXCEPT !.pc = "update", !.id = i, !.sets = f,
                            !.row = [rule[i] EXCEPT !.active = willBe,
                                       !.ceiling = IF "ceiling" \in f THEN c ELSE rule[i].ceiling]])
    /\ PolicyUnchanged /\ UNCHANGED rule

(* Fault: the rule is written back whole as it was read.                   *)
AppliedWhole(r) == txn[r].row

(* The statement sets these fields, whatever the others are by now.        *)
Applied(r) ==
    [rule[txn[r].id] EXCEPT
       !.ceiling = IF "ceiling" \in txn[r].sets THEN txn[r].row.ceiling ELSE @,
       !.active  = IF "active" \in txn[r].sets THEN txn[r].row.active ELSE @]

WriteUpdate(r) ==
    /\ At(r, {"update"})
    /\ rule[txn[r].id].exists
    /\ Free(r, Applied(r), txn[r].id) /\ ~Conflicts(Applied(r), txn[r].id)
    /\ Written(r, Applied(r))
    /\ PolicyUnchanged /\ UNCHANGED <<rule, writes>>

Delete(r) ==
    /\ \E i \in Rules : /\ rule[i].exists
                        /\ Begin(r, [Idle EXCEPT !.pc = "drop", !.id = i])
    /\ PolicyUnchanged /\ UNCHANGED rule

WriteDelete(r) ==
    /\ At(r, {"drop"})
    /\ rule[txn[r].id].exists /\ Free(r, NoRule, txn[r].id)
    /\ Written(r, NoRule)
    /\ PolicyUnchanged /\ UNCHANGED <<rule, writes>>

(* The entry of the audit trail commits with what it documents.            *)
Commit(r) ==
    /\ At(r, {"written"})
    /\ rule' = [rule EXCEPT ![txn[r].id] = txn[r].row]
    /\ txn' = [txn EXCEPT ![r] = Idle]
    /\ PolicyUnchanged /\ UNCHANGED writes

-----------------------------------------------------------------------------
(* The approval rule.  Its steps, numbered from 1, are deleted and created *)
(* anew by every save that names steps.                                    *)

NewSteps(n) == [order : 1 .. n, tag : {writes + 1}]

CreatePolicy(r) ==
    /\ ~policy /\ \A o \in Others(r) : ~At(o, {"created"})
    /\ \E n \in 0 .. 2 :
         Begin(r, [Idle EXCEPT !.pc = "created", !.put = NewSteps(n)])
    /\ PolicyUnchanged /\ UNCHANGED rule

(* The deletion of the steps looks for them before it waits for those who  *)
(* hold them, and does not see what they put in their place.               *)
UpdatePolicy(r) ==
    /\ policy
    /\ \E n \in 0 .. 2, drop \in BOOLEAN :
         Begin(r, [Idle EXCEPT !.pc = "deleting", !.seen = steps,
                               !.put = IF drop THEN {} ELSE NewSteps(n),
                               !.drop = drop])
    /\ PolicyUnchanged /\ UNCHANGED rule

DeleteSteps(r) ==
    /\ At(r, {"deleting"})
    /\ \A o \in Others(r) : At(o, {"deleted", "saved"}) =>
                               txn[o].seen \intersect txn[r].seen = {}
    /\ txn' = [txn EXCEPT ![r].pc = "deleted", ![r].seen = @ \intersect steps]
    /\ PolicyUnchanged /\ UNCHANGED <<rule, writes>>

Remaining(r) == steps \ txn[r].seen

(* Fault: the order of a step is not unique.                               *)
WriteRepeated(r) ==
    /\ At(r, {"deleted"}) /\ policy
    /\ \A o \in Others(r) : ~At(o, {"saved"})
    /\ txn' = [txn EXCEPT ![r].pc = "saved"]
    /\ PolicyUnchanged /\ UNCHANGED <<rule, writes>>

(* The rule's row is locked, then its steps are created; a step of the     *)
(* same order that is left fails the request, and so does a rule that is   *)
(* to be deleted and has steps left.                                       *)
WritePolicy(r) ==
    /\ At(r, {"deleted"}) /\ policy
    /\ \A o \in Others(r) : ~At(o, {"saved"})
    /\ \A old \in Remaining(r), new \in txn[r].put : old.order # new.order
    /\ txn[r].drop => Remaining(r) = {}
    /\ txn' = [txn EXCEPT ![r].pc = "saved"]
    /\ PolicyUnchanged /\ UNCHANGED <<rule, writes>>

CommitPolicy(r) ==
    /\ At(r, {"saved", "created"})
    /\ policy' = ~txn[r].drop
    /\ steps' = Remaining(r) \union txn[r].put
    /\ txn' = [txn EXCEPT ![r] = Idle]
    /\ UNCHANGED <<rule, writes>>

Next == \E r \in Requests :
           \/ Create(r) \/ Insert(r) \/ Update(r) \/ WriteUpdate(r)
           \/ Delete(r) \/ WriteDelete(r) \/ Commit(r)
           \/ CreatePolicy(r) \/ UpdatePolicy(r) \/ DeleteSteps(r)
           \/ WritePolicy(r) \/ CommitPolicy(r) \/ Rollback(r)

Spec == Init /\ [][Next]_vars

-----------------------------------------------------------------------------
(* A tier or a category has at most one active ceiling to resolve, however *)
(* many administrators save rules at once (migration 20260905130000).      *)
OneActiveCeiling ==
    \A i, j \in Rules : /\ rule[i].active /\ rule[j].active
                        /\ rule[i].target = rule[j].target
                        => i = j

(* A save changes the fields it names and no other, although the rule it   *)
(* read may have been saved by others since (update, lines 172 to 179).    *)
OthersFieldsStay ==
    [][\A i \in Rules, f \in Fields :
          /\ rule[i].exists /\ rule'[i].exists
          /\ rule'[i][f] # rule[i][f]
          => \E r \in Requests : /\ txn[r].pc = "written" /\ txn[r].id = i
                                 /\ f \in txn[r].sets]_vars

(* No save mixes its steps with those of another, and none leaves a gap:   *)
(* the chain of approvals is one that some administrator entered.          *)
ChainIsOneSave ==
    /\ \A s, t \in steps : s.tag = t.tag
    /\ \A s \in steps : \A n \in 1 .. s.order : \E t \in steps : t.order = n
=============================================================================
