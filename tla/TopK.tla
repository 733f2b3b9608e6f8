-------------------------------- MODULE TopK ---------------------------------
(***************************************************************************)
(* The choice of a quotation's recommendations, statement by statement:    *)
(* generate scores the candidates that are not excluded, and selectTopK    *)
(* takes the k best, by sorting a few, with a heap of k among many.        *)
(* heap[1] scores the least of what the heap holds.                        *)
(***************************************************************************)
EXTENDS Scoring

VARIABLES offer,      \* [candidates, k, threshold]: up to threshold are sorted
          considered, \* how many candidates the loop has passed
          scored,     \* entries [score, item] of those not excluded
          pushed,     \* how many of the entries the heap was given
          heap,
          at,         \* where in the heap an entry is on its way
          doing,      \* "score", "push", "up", "down" or "done"
          chosen      \* the entries selected, best first

selectVars == <<offer, considered, scored, pushed, heap, at, doing, chosen>>

NoOffer == [candidates |-> << >>, k |-> 0, threshold |-> 0]

SelectInit(o) == /\ offer = o /\ considered = 0 /\ scored = << >>
                 /\ pushed = 0 /\ heap = << >> /\ at = 1
                 /\ doing = "score" /\ chosen = << >>

MostBought == Max({0} \union {offer.candidates[i].co : i \in DOMAIN offer.candidates})

Score(i) == ScoreCandidate(offer.candidates[i], MostBought)

Excluded(i) == FindExclusionReason(offer.candidates[i])

Consider ==
    /\ doing = "score" /\ considered < Len(offer.candidates)
    /\ considered' = considered + 1
    /\ scored' = IF Excluded(considered') THEN scored
                 ELSE Append(scored, [score |-> Score(considered'), item |-> considered'])
    /\ UNCHANGED <<offer, pushed, heap, at, doing, chosen>>

(* JavaScript's sort is stable: ties stay in the order they stand in.      *)
Before(entries, i, j) ==
    \/ entries[i].score > entries[j].score
    \/ entries[i].score = entries[j].score /\ i < j

Place(entries, i) == 1 + Cardinality({j \in DOMAIN entries : Before(entries, j, i)})

Descending(entries) ==
    [n \in DOMAIN entries |->
        entries[CHOOSE i \in DOMAIN entries : Place(entries, i) = n]]

FewEnough == offer.k = 0 \/ Len(scored) <= offer.threshold

SelectBySort ==
    /\ doing = "score" /\ considered = Len(offer.candidates) /\ FewEnough
    /\ chosen' = SubSeq(Descending(scored), 1, Min({offer.k, Len(scored)}))
    /\ doing' = "done"
    /\ UNCHANGED <<offer, considered, scored, pushed, heap, at>>

SelectByHeap ==
    /\ doing = "score" /\ considered = Len(offer.candidates) /\ ~FewEnough
    /\ doing' = "push"
    /\ UNCHANGED <<offer, considered, scored, pushed, heap, at, chosen>>

(* The next entry: to the end of a heap that is not full, in place of the  *)
(* least, or nowhere if it scores no more than that.                       *)
Push ==
    /\ doing = "push" /\ pushed < Len(scored)
    /\ pushed' = pushed + 1
    /\ LET entry == scored[pushed']
       IN  \/ /\ Len(heap) < offer.k
              /\ heap' = Append(heap, entry) /\ at' = Len(heap) + 1 /\ doing' = "up"
           \/ /\ Len(heap) >= offer.k /\ entry.score <= heap[1].score
              /\ UNCHANGED <<heap, at, doing>>
           \/ /\ Len(heap) >= offer.k /\ entry.score > heap[1].score
              /\ heap' = [heap EXCEPT ![1] = entry] /\ at' = 1 /\ doing' = "down"
    /\ UNCHANGED <<offer, considered, scored, chosen>>

Swap(i, j) == [heap EXCEPT ![i] = heap[j], ![j] = heap[i]]

(* One turn of a loop: the entry changes places with the one at position   *)
(* to, or stays where it is.                                               *)
MoveTo(to) == /\ heap' = Swap(at, to) /\ at' = to
              /\ UNCHANGED <<offer, considered, scored, pushed, doing, chosen>>

Settle == /\ doing' = "push"
          /\ UNCHANGED <<offer, considered, scored, pushed, heap, at, chosen>>

Parent(i) == i \div 2

BubbleUp ==
    /\ doing = "up"
    /\ IF at > 1 /\ heap[Parent(at)].score > heap[at].score
       THEN MoveTo(Parent(at)) ELSE Settle

(* Fault: the right child is not looked at.                                *)
LowerLeftChild == {i \in {2 * at} : i <= Len(heap) /\ heap[i].score < heap[at].score}

LowerChildren == {i \in {2 * at, 2 * at + 1} :
                    i <= Len(heap) /\ heap[i].score < heap[at].score}

(* Down to the smaller child; the left one when they are equal.            *)
BubbleDown ==
    /\ doing = "down"
    /\ \/ LowerChildren = {} /\ Settle
       \/ \E i \in LowerChildren :
            /\ \A j \in LowerChildren : \/ heap[i].score < heap[j].score
                                        \/ heap[i].score = heap[j].score /\ i <= j
            /\ MoveTo(i)

ToSortedDescending ==
    /\ doing = "push" /\ pushed = Len(scored)
    /\ chosen' = Descending(heap) /\ doing' = "done"
    /\ UNCHANGED <<offer, considered, scored, pushed, heap, at>>

SelectNext == \/ Consider \/ SelectBySort \/ SelectByHeap \/ Push
              \/ BubbleUp \/ BubbleDown \/ ToSortedDescending

Eligible == {i \in DOMAIN offer.candidates : ~Excluded(i)}

(* At least as good as another in every respect that counts.               *)
AsGood(c, d) == /\ c.co >= d.co /\ c.promotion >= d.promotion /\ c.margin >= d.margin
                /\ c.stock >= d.stock /\ c.same >= d.same /\ c.total = d.total

(* What is offered is the best there is, best first, nothing twice and     *)
(* nothing excluded, by the heap as by the sort; and a candidate that is   *)
(* as good as another in every respect is passed over for it only if they  *)
(* score the same (select-top-k.ts, score.ts).                             *)
BestAreOffered ==
    doing = "done" =>
      LET items == {chosen[n].item : n \in DOMAIN chosen}
      IN  /\ Len(chosen) = Min({offer.k, Cardinality(Eligible)})
          /\ items \subseteq Eligible
          /\ \A m, n \in DOMAIN chosen : m < n =>
                /\ chosen[m].item # chosen[n].item
                /\ Score(chosen[m].item) >= Score(chosen[n].item)
          /\ \A i \in Eligible \ items, j \in items :
                /\ Score(i) <= Score(j)
                /\ AsGood(offer.candidates[i], offer.candidates[j]) => Score(i) = Score(j)
=============================================================================
