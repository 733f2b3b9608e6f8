---------------------------- MODULE Jobs_proofs ------------------------------
(***************************************************************************)
(* A row of the outbox never claims what the queue does not have, SENT     *)
(* gives way to nothing but the record of a failed job, and a dismissal of *)
(* an alert to nothing but an evaluation that read the alert before: for   *)
(* any events, dispatchers, runs, attempts and faults, and for any deals,  *)
(* evaluations and severities.                                             *)
(*                                                                         *)
(* Claims make it so for rows: a claimed row is PENDING and has one        *)
(* claimant, until that dispatcher's transaction ends.  For alerts it is   *)
(* that an evaluation goes on to write only if it read no dismissal.       *)
(***************************************************************************)
EXTENDS MCJobs, FiniteSetTheorems, SequenceTheorems, TLAPS

Row   == [status : RowStatuses, due : BOOLEAN]
Job   == [state : JobStates, tries : 0 .. JobAttempts, holder : Runs]
Batch == [open : BOOLEAN, todo : SUBSET Events, writes : [Events -> Writes]]

(* A claimed row is PENDING, and nobody else's.                            *)
ClaimsHold ==
    /\ \A d \in Dispatchers : \A e \in Claimed(d) : row[e].status = "PENDING"
    /\ \A c, d \in Dispatchers : c # d => Claimed(c) \intersect Claimed(d) = {}

(* What a dispatcher is about to commit is so already.                     *)
WritesAreTrue ==
    \A d \in Dispatchers, e \in Events :
        /\ batch[d].writes[e] = "dispatched" => job[e].state # "none"
        /\ batch[d].writes[e] = "failed" => e \notin Routable

NoticesAreFinal == \A e \in notice : job[e].state = "failed"

AttemptsAreLeft ==
    \A e \in Events : job[e].state \in {"none", "waiting", "active"} =>
                          job[e].tries < JobAttempts

OutboxInv == /\ ClaimsHold /\ WritesAreTrue /\ NoticesAreFinal /\ AttemptsAreLeft
             /\ RowsTellTheQueue

-----------------------------------------------------------------------------
(* What a step does to the jobs.                                           *)

JobsRest == UNCHANGED job /\ notice' \subseteq notice

JobMoves(e, j) ==
    /\ job' = [job EXCEPT ![e] = j]
    /\ j.state # "none" /\ job[e].state # "failed"
    /\ j.state \in {"waiting", "active"} => j.tries < JobAttempts
    /\ notice' \subseteq notice \union (IF j.state = "failed" THEN {e} ELSE {})

JobsMove == JobsRest \/ \E e \in Events : \E j \in Job : JobMoves(e, j)

LEMMA AddingMoves ==
    ASSUME TypeOK, AttemptsAreLeft, NEW e \in Events, AddJob(e), UNCHANGED notice
    PROVE  JobsMove /\ job'[e].state # "none"
<1>1. CASE job[e].state # "none"
  BY <1>1 DEF AddJob, JobsMove, JobsRest
<1>2. CASE job[e].state = "none"
  <2>1. PICK j : j = [job[e] EXCEPT !.state = "waiting"]
    OBVIOUS
  <2>2. job[e] \in Job /\ job[e].tries < JobAttempts
    BY <1>2 DEF TypeOK, Job, AttemptsAreLeft
  <2>3. j \in Job /\ j.state = "waiting" /\ j.tries = job[e].tries
    BY <2>1, <2>2 DEF Job, JobStates
  <2>4. job' = [job EXCEPT ![e] = j]
    BY <1>2, <2>1 DEF AddJob
  <2>5. job'[e] = j
    BY <2>4 DEF TypeOK
  <2> QED
    BY <1>2, <2>2, <2>3, <2>4, <2>5 DEF JobsMove, JobMoves
<1> QED
  BY <1>1, <1>2

LEMMA FailingMoves ==
    ASSUME TypeOK, AttemptsAreLeft, NEW e \in Events, NEW k \in Runs, FailAttempt(e, k)
    PROVE  JobsMove
<1>1. CASE job[e].state = "active" /\ job[e].holder = k
  <2> DEFINE last == job[e].tries + 1 >= JobAttempts
  <2>1. PICK j : j = [job[e] EXCEPT !.tries = job[e].tries + 1,
                                    !.state = IF last THEN "failed" ELSE "waiting"]
    OBVIOUS
  <2>2. job[e] \in Job /\ job[e].tries < JobAttempts
    BY <1>1 DEF TypeOK, Job, AttemptsAreLeft
  <2>3. job[e].tries + 1 \in 0 .. JobAttempts
    BY <2>2, OutboxAssumption DEF Job, OutboxAssumption
  <2>4. /\ j \in Job /\ j.tries = job[e].tries + 1
        /\ j.state = IF last THEN "failed" ELSE "waiting"
    BY <2>1, <2>2, <2>3 DEF Job, JobStates
  <2>5. job' = [job EXCEPT ![e] = j]
    BY <1>1, <2>1 DEF FailAttempt
  <2>6. notice' = IF last THEN notice \union {e} ELSE notice
    BY <1>1 DEF FailAttempt
  <2>7. ~last => j.tries < JobAttempts
    BY <2>3, <2>4, OutboxAssumption DEF OutboxAssumption
  <2> HIDE DEF last
  <2> QED
    BY <1>1, <2>4, <2>5, <2>6, <2>7 DEF JobsMove, JobMoves
<1>2. CASE ~(job[e].state = "active" /\ job[e].holder = k)
  BY <1>2 DEF FailAttempt, JobsMove, JobsRest
<1> QED
  BY <1>1, <1>2

LEMMA JobSteps == ASSUME TypeOK, AttemptsAreLeft, Next PROVE JobsMove
<1>1. CASE \E d \in Dispatchers : Dispatch(d) \/ LoseReply(d)
  BY <1>1, AddingMoves, OutboxAssumption DEF Dispatch, LoseReply, OutboxAssumption
<1>2. ASSUME NEW e \in Events, NEW k \in Runs, Start(e, k) PROVE JobsMove
  <2>1. PICK j : j = [job[e] EXCEPT !.state = "active", !.holder = k]
    OBVIOUS
  <2>2. job[e] \in Job /\ job[e].tries < JobAttempts
    BY <1>2 DEF TypeOK, Job, AttemptsAreLeft, Start
  <2>3. j \in Job /\ j.state = "active" /\ j.tries = job[e].tries
    BY <2>1, <2>2 DEF Job, JobStates
  <2>4. job' = [job EXCEPT ![e] = j]
    BY <1>2, <2>1 DEF Start
  <2> QED
    BY <1>2, <2>2, <2>3, <2>4 DEF JobsMove, JobMoves, Start
<1>3. ASSUME NEW e \in Events, NEW k \in Runs, Complete(e, k) PROVE JobsMove
  <2>1. CASE ~(job[e].state = "active" /\ job[e].holder = k)
    BY <1>3, <2>1 DEF Complete, JobsMove, JobsRest
  <2>2. CASE job[e].state = "active" /\ job[e].holder = k
    <3>1. PICK j : j = [job[e] EXCEPT !.state = "completed"]
      OBVIOUS
    <3>2. j \in Job /\ j.state = "completed"
      BY <3>1 DEF TypeOK, Job, JobStates
    <3>3. job' = [job EXCEPT ![e] = j]
      BY <1>3, <2>2, <3>1 DEF Complete
    <3> QED
      BY <1>3, <2>2, <3>2, <3>3 DEF JobsMove, JobMoves, Complete
  <2> QED
    BY <2>1, <2>2
<1>4. CASE \E e \in Events, k \in Runs : Throw(e, k) \/ SentUnheard(e, k)
  BY <1>4, FailingMoves DEF Throw, SentUnheard
<1>5. ASSUME NEW e \in Events, Stall(e) PROVE JobsMove
  <2>1. PICK j : j = [job[e] EXCEPT !.state = "waiting"]
    OBVIOUS
  <2>2. job[e] \in Job /\ job[e].tries < JobAttempts
    BY <1>5 DEF TypeOK, Job, AttemptsAreLeft, Stall
  <2>3. j \in Job /\ j.state = "waiting" /\ j.tries = job[e].tries
    BY <2>1, <2>2 DEF Job, JobStates
  <2>4. job' = [job EXCEPT ![e] = j]
    BY <1>5, <2>1 DEF Stall
  <2> QED
    BY <1>5, <2>2, <2>3, <2>4 DEF JobsMove, JobMoves, Stall
<1>6. CASE \E e \in Events : \/ EnqueueOutboxEvent(e) \/ BecomeDue(e)
                            \/ MarkOutboxFailed(e) \/ LoseNotice(e)
                            \/ \E k \in Runs : Work(e, k) \/ WriteSent(e, k)
  BY <1>6 DEF EnqueueOutboxEvent, BecomeDue, MarkOutboxFailed, LoseNotice, Work,
              WriteSent, JobsMove, JobsRest
<1>7. CASE RedisGoes \/ RedisReturns
  BY <1>7 DEF RedisGoes, RedisReturns, JobsMove, JobsRest
<1>8. CASE \E d \in Dispatchers : \/ Claim(d) \/ FailUnroutable(d) \/ RetryLater(d)
                                 \/ CommitBatch(d) \/ RollBackBatch(d)
  BY <1>8 DEF Claim, FailUnroutable, RetryLater, CommitBatch, RollBackBatch,
              JobsMove, JobsRest
<1> QED
  BY <1>1, <1>2, <1>3, <1>4, <1>5, <1>6, <1>7, <1>8
  DEF Next, Worker, Dispatcher, Trouble

(* A job the queue has it keeps, and a failed one stays failed.            *)
JobsLast ==
    \A e \in Events : /\ job[e].state # "none" => job'[e].state # "none"
                      /\ job[e].state = "failed" => job'[e] = job[e]

LEMMA JobsKept ==
    ASSUME TypeOK, NoticesAreFinal, AttemptsAreLeft, Next
    PROVE  /\ JobsLast /\ NoticesAreFinal' /\ AttemptsAreLeft'
           /\ job' \in [Events -> Job] /\ notice' \subseteq Events
<1>1. JobsMove
  BY JobSteps
<1>2. job \in [Events -> Job] /\ notice \subseteq Events
  BY DEF TypeOK, Job
<1>3. CASE JobsRest
  BY <1>2, <1>3 DEF JobsRest, JobsLast, NoticesAreFinal, AttemptsAreLeft
<1>4. ASSUME NEW e \in Events, NEW j \in Job, JobMoves(e, j)
      PROVE  /\ JobsLast /\ NoticesAreFinal' /\ AttemptsAreLeft'
             /\ job' \in [Events -> Job] /\ notice' \subseteq Events
  <2>1. /\ job'[e] = j /\ \A f \in Events \ {e} : job'[f] = job[f]
        /\ job' \in [Events -> Job]
    BY <1>2, <1>4 DEF JobMoves
  <2>2. /\ j.state # "none" /\ job[e].state # "failed"
        /\ j.state \in {"waiting", "active"} => j.tries < JobAttempts
        /\ notice' \subseteq notice \union (IF j.state = "failed" THEN {e} ELSE {})
    BY <1>4 DEF JobMoves
  <2>3. JobsLast
    BY <2>1, <2>2 DEF JobsLast
  <2>4. NoticesAreFinal'
    BY <1>2, <2>1, <2>2 DEF NoticesAreFinal
  <2>5. AttemptsAreLeft'
    BY <2>1, <2>2 DEF AttemptsAreLeft
  <2> QED
    BY <1>2, <2>1, <2>2, <2>3, <2>4, <2>5
<1> QED
  BY <1>1, <1>3, <1>4 DEF JobsMove

-----------------------------------------------------------------------------
(* What a step does to rows and batches.                                   *)

RowsRest == UNCHANGED <<row, batch>>

(* A dispatcher notes what becomes of a row it has claimed.                *)
Notes(d, e, w) ==
    /\ e \in batch[d].todo /\ w # "none" /\ Note(d, e, w) /\ UNCHANGED row
    /\ w = "dispatched" => job'[e].state # "none"
    /\ w = "failed" => e \notin Routable

(* It claims rows that are PENDING and free.                               *)
Claims(d, b) ==
    /\ batch' = [batch EXCEPT ![d] = b] /\ UNCHANGED row
    /\ b.writes = NoBatch.writes
    /\ \A e \in b.todo : row[e].status = "PENDING" /\ ~Locked(e)

(* Its transaction ends.                                                   *)
Closes(d) == batch' = [batch EXCEPT ![d] = NoBatch] /\ (UNCHANGED row \/ CommitBatch(d))

(* A row is written that no dispatcher has claimed, or only its time.      *)
RowMoves(e, w) ==
    /\ row' = [row EXCEPT ![e] = w] /\ UNCHANGED batch
    /\ \/ w = row[e]
       \/ w.status = "PENDING" /\ row[e].status = "PENDING"
       \/ ~Locked(e) /\ w.status = "PENDING" /\ row[e].status = "NONE"
       \/ ~Locked(e) /\ w.status = "SENT" /\ row[e].status # "SENT"
       \/ ~Locked(e) /\ w.status = "FAILED" /\ e \in notice

RowsMove ==
    \/ RowsRest
    \/ \E d \in Dispatchers : Closes(d)
    \/ \E d \in Dispatchers : \E b \in Batch : Claims(d, b)
    \/ \E d \in Dispatchers : \E e \in Events : \E w \in Writes : Notes(d, e, w)
    \/ \E e \in Events : \E w \in Row : RowMoves(e, w)

LEMMA NoBatchType == NoBatch \in Batch /\ NoBatch.todo = {}
                     /\ \A e \in Events : NoBatch.writes[e] = "none"
BY DEF NoBatch, Batch, Writes

SetStatus(e, s) ==
    /\ row' = [row EXCEPT ![e].status = s] /\ UNCHANGED batch /\ ~Locked(e)
    /\ \/ s = "PENDING" /\ row[e].status = "NONE"
       \/ s = "SENT"
       \/ s = "FAILED" /\ e \in notice

LEMMA StatusMoves ==
    ASSUME TypeOK, NEW e \in Events, NEW s \in RowStatuses, SetStatus(e, s)
    PROVE  RowsMove
<1>1. PICK w : w = [row[e] EXCEPT !.status = s]
  OBVIOUS
<1>2. w \in Row /\ w.status = s /\ (s = row[e].status => w = row[e])
  BY <1>1 DEF TypeOK, Row
<1>3. row' = [row EXCEPT ![e] = w]
  BY <1>1 DEF SetStatus
<1> QED
  BY <1>2, <1>3 DEF RowsMove, RowMoves, SetStatus

LEMMA RowSteps == ASSUME TypeOK, ClaimsHold, AttemptsAreLeft, Next PROVE RowsMove
<1> USE OutboxAssumption DEF OutboxAssumption
<1>1. ASSUME NEW d \in Dispatchers, Claim(d) PROVE RowsMove
  <2> DEFINE due == {e \in Events : /\ row[e].status = "PENDING" /\ row[e].due
                                   /\ ~Locked(e)}
  <2>1. PICK b : b = [NoBatch EXCEPT !.open = TRUE, !.todo = FirstOf(due)]
    OBVIOUS
  <2>2. FirstOf(due) \subseteq due
    BY DEF FirstOf
  <2>3. b = [open |-> TRUE, todo |-> FirstOf(due), writes |-> NoBatch.writes]
    BY <2>1 DEF NoBatch
  <2>4. b \in Batch
    BY <2>2, <2>3 DEF NoBatch, Batch, Writes
  <2>5. batch' = [batch EXCEPT ![d] = b] /\ UNCHANGED row
    BY <1>1, <2>1 DEF Claim
  <2>6. \A e \in b.todo : row[e].status = "PENDING" /\ ~Locked(e)
    BY <2>2, <2>3
  <2> QED
    BY <2>3, <2>4, <2>5, <2>6 DEF RowsMove, Claims
<1>2. ASSUME NEW d \in Dispatchers, Dispatch(d) \/ LoseReply(d) PROVE RowsMove
  <2>1. PICK e \in Routable, w \in {"dispatched", "later"} :
          Turn(d, e) /\ AddJob(e) /\ Note(d, e, w)
    BY <1>2 DEF Dispatch, LoseReply
  <2>2. e \in Events /\ w \in Writes
    BY DEF Writes
  <2>3. job'[e].state # "none"
    <3>1. UNCHANGED notice
      BY <1>2 DEF Dispatch, LoseReply
    <3> QED
      BY <2>1, <2>2, <3>1, AddingMoves
  <2>4. UNCHANGED row
    BY <1>2 DEF Dispatch, LoseReply
  <2>5. Notes(d, e, w)
    BY <2>1, <2>3, <2>4 DEF Notes, Turn
  <2> QED
    BY <2>2, <2>5 DEF RowsMove
<1>3. ASSUME NEW d \in Dispatchers, FailUnroutable(d) PROVE RowsMove
  <2>1. PICK e \in Events \ Routable : Turn(d, e) /\ Note(d, e, "failed")
    BY <1>3 DEF FailUnroutable
  <2>2. Notes(d, e, "failed")
    BY <1>3, <2>1 DEF Notes, Turn, FailUnroutable
  <2> QED
    BY <2>1, <2>2 DEF RowsMove, Writes
<1>4. ASSUME NEW d \in Dispatchers, RetryLater(d) PROVE RowsMove
  <2>1. PICK e \in Routable : Turn(d, e) /\ Note(d, e, "later")
    BY <1>4 DEF RetryLater
  <2>2. Notes(d, e, "later")
    BY <1>4, <2>1 DEF Notes, Turn, RetryLater
  <2> QED
    BY <2>1, <2>2 DEF RowsMove, Writes
<1>5. CASE \E d \in Dispatchers : CommitBatch(d) \/ RollBackBatch(d)
  BY <1>5 DEF CommitBatch, RollBackBatch, RowsMove, Closes
<1>6. ASSUME NEW e \in Events, EnqueueOutboxEvent(e) PROVE RowsMove
  <2>1. ~Locked(e)
    BY <1>6 DEF EnqueueOutboxEvent, ClaimsHold, Locked
  <2>2. \E s \in RowStatuses : SetStatus(e, s)
    BY <1>6, <2>1 DEF EnqueueOutboxEvent, SetStatus, RowStatuses
  <2> QED
    BY <2>2, StatusMoves
<1>7. ASSUME NEW e \in Events, BecomeDue(e) PROVE RowsMove
  <2>1. PICK w : w = [row[e] EXCEPT !.due = TRUE]
    OBVIOUS
  <2>2. w \in Row /\ w.status = "PENDING" /\ row[e].status = "PENDING"
    BY <1>7, <2>1 DEF TypeOK, Row, BecomeDue
  <2>3. row' = [row EXCEPT ![e] = w] /\ UNCHANGED batch
    BY <1>7, <2>1 DEF BecomeDue
  <2> QED
    BY <2>2, <2>3 DEF RowsMove, RowMoves
<1>8. ASSUME NEW e \in Events, NEW k \in Runs, WriteSent(e, k) \/ SentUnheard(e, k)
      PROVE  RowsMove
  <2>1. \E s \in RowStatuses : SetStatus(e, s)
    BY <1>8 DEF WriteSent, SentUnheard, SetStatus, RowStatuses
  <2> QED
    BY <2>1, StatusMoves
<1>9. ASSUME NEW e \in Events, MarkOutboxFailed(e) PROVE RowsMove
  <2>1. \E s \in RowStatuses : SetStatus(e, s)
    BY <1>9 DEF MarkOutboxFailed, SetStatus, RowStatuses
  <2> QED
    BY <2>1, StatusMoves
<1>10. CASE \E e \in Events : \/ Stall(e) \/ LoseNotice(e)
                             \/ \E k \in Runs : \/ Start(e, k) \/ Work(e, k)
                                               \/ Complete(e, k) \/ Throw(e, k)
  BY <1>10 DEF Stall, LoseNotice, Start, Work, Complete, Throw, RowsMove, RowsRest
<1>11. CASE RedisGoes \/ RedisReturns
  BY <1>11 DEF RedisGoes, RedisReturns, RowsMove, RowsRest
<1> QED
  BY <1>1, <1>2, <1>3, <1>4, <1>5, <1>6, <1>7, <1>8, <1>9, <1>10, <1>11
  DEF Next, Worker, Dispatcher, Trouble

-----------------------------------------------------------------------------
(* Types.                                                                  *)

LEMMA CommittedRows ==
    ASSUME TypeOK, NEW d \in Dispatchers, CommitBatch(d)
    PROVE  /\ row' \in [Events -> Row]
           /\ \A e \in Events :
                /\ batch[d].writes[e] = "none" => row'[e] = row[e]
                /\ batch[d].writes[e] = "dispatched" => row'[e].status = "DISPATCHED"
                /\ batch[d].writes[e] = "failed" => row'[e].status = "FAILED"
                /\ batch[d].writes[e] = "later" => row'[e].status = row[e].status
<1> DEFINE New(e) ==
          CASE batch[d].writes[e] = "none"       -> row[e]
            [] batch[d].writes[e] = "dispatched" -> [row[e] EXCEPT !.status = "DISPATCHED"]
            [] batch[d].writes[e] = "failed"     -> [row[e] EXCEPT !.status = "FAILED"]
            [] batch[d].writes[e] = "later"      -> [row[e] EXCEPT !.due = FALSE]
<1>1. row' = [e \in Events |-> New(e)]
  BY DEF CommitBatch
<1>2. ASSUME NEW e \in Events
      PROVE  /\ New(e) \in Row
             /\ batch[d].writes[e] = "none" => New(e) = row[e]
             /\ batch[d].writes[e] = "dispatched" => New(e).status = "DISPATCHED"
             /\ batch[d].writes[e] = "failed" => New(e).status = "FAILED"
             /\ batch[d].writes[e] = "later" => New(e).status = row[e].status
  <2>1. row[e] \in Row /\ batch[d].writes[e] \in Writes
    BY DEF TypeOK, Row
  <2>2. CASE batch[d].writes[e] = "none"
    BY <2>1, <2>2
  <2>3. CASE batch[d].writes[e] = "dispatched"
    <3>1. New(e) = [row[e] EXCEPT !.status = "DISPATCHED"]
      BY <2>3
    <3> QED
      BY <2>1, <2>3, <3>1 DEF Row, RowStatuses
  <2>4. CASE batch[d].writes[e] = "failed"
    <3>1. New(e) = [row[e] EXCEPT !.status = "FAILED"]
      BY <2>4
    <3> QED
      BY <2>1, <2>4, <3>1 DEF Row, RowStatuses
  <2>5. CASE batch[d].writes[e] = "later"
    <3>1. New(e) = [row[e] EXCEPT !.due = FALSE]
      BY <2>5
    <3> QED
      BY <2>1, <2>5, <3>1 DEF Row, RowStatuses
  <2> QED
    BY <2>1, <2>2, <2>3, <2>4, <2>5 DEF Writes
<1> HIDE DEF New
<1> QED
  BY <1>1, <1>2

LEMMA NotedBatch ==
    ASSUME TypeOK, NEW d \in Dispatchers, NEW e \in Events, NEW w \in Writes,
           Notes(d, e, w)
    PROVE  /\ batch' \in [Dispatchers -> Batch]
           /\ batch'[d].writes = [batch[d].writes EXCEPT ![e] = w]
           /\ batch'[d].todo = batch[d].todo \ {e}
           /\ \A c \in Dispatchers \ {d} : batch'[c] = batch[c]
<1>1. PICK b : b = [batch[d] EXCEPT !.todo = batch[d].todo \ {e},
                                    !.writes = [batch[d].writes EXCEPT ![e] = w]]
  OBVIOUS
<1>2. batch[d] \in Batch
  BY DEF TypeOK, Batch
<1>3. /\ b \in Batch /\ b.todo = batch[d].todo \ {e}
      /\ b.writes = [batch[d].writes EXCEPT ![e] = w]
  BY <1>1, <1>2 DEF Batch
<1>4. batch' = [batch EXCEPT ![d] = b]
  BY <1>1 DEF Notes, Note
<1> QED
  BY <1>3, <1>4 DEF TypeOK, Batch

LEMMA StepTypes == ASSUME TypeOK, ClaimsHold, NoticesAreFinal, AttemptsAreLeft, Next
                   PROVE  TypeOK'
<1>1. job' \in [Events -> Job] /\ notice' \subseteq Events
  BY JobsKept
<1>2. row' \in [Events -> Row] /\ batch' \in [Dispatchers -> Batch]
  <2>1. row \in [Events -> Row] /\ batch \in [Dispatchers -> Batch]
    BY DEF TypeOK, Row, Batch
  <2>2. RowsMove
    BY RowSteps
  <2>3. CASE RowsRest
    BY <2>1, <2>3 DEF RowsRest
  <2>4. ASSUME NEW d \in Dispatchers, Closes(d) PROVE row' \in [Events -> Row] /\ batch' \in [Dispatchers -> Batch]
    BY <2>1, <2>4, NoBatchType, CommittedRows DEF Closes
  <2>5. ASSUME NEW d \in Dispatchers, NEW b \in Batch, Claims(d, b)
        PROVE  row' \in [Events -> Row] /\ batch' \in [Dispatchers -> Batch]
    BY <2>1, <2>5 DEF Claims
  <2>6. ASSUME NEW d \in Dispatchers, NEW e \in Events, NEW w \in Writes, Notes(d, e, w)
        PROVE  row' \in [Events -> Row] /\ batch' \in [Dispatchers -> Batch]
    BY <2>1, <2>6 DEF Notes, Note, Batch
  <2>7. ASSUME NEW e \in Events, NEW w \in Row, RowMoves(e, w)
        PROVE  row' \in [Events -> Row] /\ batch' \in [Dispatchers -> Batch]
    BY <2>1, <2>7 DEF RowMoves
  <2> QED
    BY <2>2, <2>3, <2>4, <2>5, <2>6, <2>7 DEF RowsMove
<1>3. run' \in [Events -> [Runs -> RunStates]]
  <2>1. CASE UNCHANGED run
    BY <2>1 DEF TypeOK
  <2>2. ASSUME NEW e \in Events, NEW k \in Runs,
               \E s \in RunStates : run' = [run EXCEPT ![e][k] = s]
        PROVE  run' \in [Events -> [Runs -> RunStates]]
    BY <2>2 DEF TypeOK
  <2>3. ASSUME NEW e \in Events, Stall(e) PROVE run' \in [Events -> [Runs -> RunStates]]
    <3>1. job[e].holder \in Runs
      BY DEF TypeOK
    <3> QED
      BY <2>1, <2>2, <2>3, <3>1 DEF Stall, RunStates
  <2>4. ASSUME NEW e \in Events, NEW k \in Runs,
               Worker(e, k) \/ Throw(e, k) \/ SentUnheard(e, k)
        PROVE  run' \in [Events -> [Runs -> RunStates]]
    BY <2>2, <2>4 DEF Worker, Start, Work, WriteSent, Complete, Throw, SentUnheard,
                      FailAttempt, RunStates
  <2>5. CASE \E d \in Dispatchers : Dispatcher(d) \/ LoseReply(d) \/ RollBackBatch(d)
    BY <2>1, <2>5 DEF Dispatcher, Claim, Dispatch, FailUnroutable, RetryLater,
                      CommitBatch, LoseReply, RollBackBatch
  <2>6. CASE RedisGoes \/ RedisReturns
    BY <2>1, <2>6 DEF RedisGoes, RedisReturns
  <2>7. CASE \E e \in Events : \/ EnqueueOutboxEvent(e) \/ BecomeDue(e)
                              \/ MarkOutboxFailed(e) \/ LoseNotice(e)
    BY <2>1, <2>7 DEF EnqueueOutboxEvent, BecomeDue, MarkOutboxFailed, LoseNotice
  <2> QED
    BY <2>3, <2>4, <2>5, <2>6, <2>7 DEF Next, Trouble
<1>4. redis' \in BOOLEAN /\ faults' \in 0 .. MaxFaults
  <2>1. \/ Strike \/ UNCHANGED faults
    BY DEF Next, Trouble, Worker, Dispatcher, EnqueueOutboxEvent, BecomeDue,
           MarkOutboxFailed, Start, Work, WriteSent, Complete, Claim, Dispatch,
           FailUnroutable, RetryLater, CommitBatch, RedisReturns, RedisGoes,
           LoseReply, RollBackBatch, Stall, LoseNotice, Throw, SentUnheard
  <2>2. redis' \in BOOLEAN \/ UNCHANGED redis
    BY DEF Next, Trouble, Worker, Dispatcher, EnqueueOutboxEvent, BecomeDue,
           MarkOutboxFailed, Start, Work, WriteSent, Complete, Claim, Dispatch,
           FailUnroutable, RetryLater, CommitBatch, RedisReturns, RedisGoes,
           LoseReply, RollBackBatch, Stall, LoseNotice, Throw, SentUnheard
  <2> QED
    BY <2>1, <2>2, OutboxAssumption DEF TypeOK, Strike, OutboxAssumption
<1> QED
  BY <1>1, <1>2, <1>3, <1>4 DEF TypeOK, Row, Batch, Job

-----------------------------------------------------------------------------
(* The invariant.                                                          *)

LEMMA StartsRight == Init => TypeOK /\ OutboxInv
<1> SUFFICES ASSUME Init PROVE TypeOK /\ OutboxInv
  OBVIOUS
<1> USE OutboxAssumption DEF OutboxAssumption
<1>1. TypeOK
  BY NoBatchType DEF Init, TypeOK, Batch, RowStatuses, JobStates, RunStates
<1>2. \A d \in Dispatchers : Claimed(d) = {}
  BY NoBatchType DEF Init, Claimed
<1>3. ClaimsHold
  BY <1>2 DEF ClaimsHold
<1>4. WritesAreTrue
  BY NoBatchType DEF Init, WritesAreTrue
<1>5. NoticesAreFinal /\ AttemptsAreLeft /\ RowsTellTheQueue
  BY DEF Init, NoticesAreFinal, AttemptsAreLeft, RowsTellTheQueue
<1> QED
  BY <1>1, <1>3, <1>4, <1>5 DEF OutboxInv

(* What was claimed stays claimed, by the same dispatcher.                 *)
LEMMA NoteKeepsClaims ==
    ASSUME TypeOK, NEW d \in Dispatchers, NEW e \in Events, NEW w \in Writes,
           Notes(d, e, w), NEW c \in Dispatchers
    PROVE  Claimed(c)' = Claimed(c)
<1>1. /\ batch'[d].writes = [batch[d].writes EXCEPT ![e] = w]
      /\ batch'[d].todo = batch[d].todo \ {e}
      /\ \A o \in Dispatchers \ {d} : batch'[o] = batch[o]
  BY NotedBatch
<1>2. e \in batch[d].todo
  BY DEF Notes
<1>3. w # "none" /\ batch[d].writes \in [Events -> Writes] /\ batch[d].todo \subseteq Events
  BY DEF TypeOK, Notes
<1>4. CASE c = d
  BY <1>1, <1>2, <1>3, <1>4 DEF Claimed
<1>5. CASE c # d
  BY <1>1, <1>5 DEF Claimed
<1> QED
  BY <1>4, <1>5

LEMMA ClaimsKept ==
    ASSUME TypeOK, OutboxInv, Next
    PROVE  ClaimsHold'
<1>1. RowsMove
  BY RowSteps DEF OutboxInv
<1>2. ClaimsHold
  BY DEF OutboxInv
<1>3. CASE RowsRest
  BY <1>2, <1>3 DEF RowsRest, ClaimsHold, Claimed
<1>4. ASSUME NEW d \in Dispatchers, Closes(d) PROVE ClaimsHold'
  <2>1. /\ batch'[d] = NoBatch /\ \A c \in Dispatchers \ {d} : batch'[c] = batch[c]
    BY <1>4 DEF Closes, TypeOK
  <2>2. Claimed(d)' = {} /\ \A c \in Dispatchers \ {d} : Claimed(c)' = Claimed(c)
    BY <2>1, NoBatchType DEF Claimed
  <2>3. ASSUME NEW c \in Dispatchers \ {d}, NEW e \in Claimed(c)
        PROVE  row'[e] = row[e]
    <3>1. e \in Events /\ e \notin Claimed(d)
      BY <1>2, <2>3 DEF ClaimsHold, Claimed, TypeOK
    <3>2. batch[d].writes[e] = "none"
      BY <3>1 DEF Claimed
    <3> QED
      BY <1>4, <3>1, <3>2, CommittedRows DEF Closes
  <2> QED
    BY <1>2, <2>2, <2>3 DEF ClaimsHold
<1>5. ASSUME NEW d \in Dispatchers, NEW b \in Batch, Claims(d, b) PROVE ClaimsHold'
  <2>1. /\ batch'[d] = b /\ \A c \in Dispatchers \ {d} : batch'[c] = batch[c]
        /\ row' = row
    BY <1>5 DEF Claims, TypeOK
  <2>2. Claimed(d)' = b.todo
    BY <1>5, <2>1, NoBatchType DEF Claims, Claimed
  <2>3. \A c \in Dispatchers \ {d} : Claimed(c)' = Claimed(c)
    BY <2>1 DEF Claimed
  <2>4. \A e \in b.todo : row[e].status = "PENDING" /\ \A c \in Dispatchers : e \notin Claimed(c)
    BY <1>5 DEF Claims, Locked
  <2> QED
    BY <1>2, <2>1, <2>2, <2>3, <2>4 DEF ClaimsHold
<1>6. ASSUME NEW d \in Dispatchers, NEW e \in Events, NEW w \in Writes, Notes(d, e, w)
      PROVE  ClaimsHold'
  <2>1. \A c \in Dispatchers : Claimed(c)' = Claimed(c)
    BY <1>6, NoteKeepsClaims
  <2> QED
    BY <1>2, <1>6, <2>1 DEF ClaimsHold, Notes
<1>7. ASSUME NEW e \in Events, NEW w \in Row, RowMoves(e, w) PROVE ClaimsHold'
  <2>1. /\ row'[e] = w /\ \A f \in Events \ {e} : row'[f] = row[f]
        /\ batch' = batch
    BY <1>7 DEF RowMoves, TypeOK
  <2>2. \A d \in Dispatchers : Claimed(d)' = Claimed(d) /\ Claimed(d) \subseteq Events
    BY <2>1 DEF Claimed, TypeOK
  <2>3. w.status = row[e].status \/ \A d \in Dispatchers : e \notin Claimed(d)
    BY <1>7 DEF RowMoves, Locked
  <2> QED
    BY <1>2, <2>1, <2>2, <2>3 DEF ClaimsHold
<1> QED
  BY <1>1, <1>3, <1>4, <1>5, <1>6, <1>7 DEF RowsMove

LEMMA WritesStayTrue ==
    ASSUME TypeOK, OutboxInv, Next
    PROVE  WritesAreTrue'
<1>1. RowsMove /\ JobsLast
  BY RowSteps, JobsKept DEF OutboxInv
<1>2. WritesAreTrue
  BY DEF OutboxInv
<1>3. CASE UNCHANGED batch
  BY <1>1, <1>2, <1>3 DEF WritesAreTrue, JobsLast
<1>4. ASSUME NEW d \in Dispatchers, NEW b, b.writes = NoBatch.writes,
             batch' = [batch EXCEPT ![d] = b]
      PROVE  WritesAreTrue'
  <2>1. batch'[d] = b /\ \A c \in Dispatchers \ {d} : batch'[c] = batch[c]
    BY <1>4 DEF TypeOK
  <2> QED
    BY <1>1, <1>2, <1>4, <2>1, NoBatchType DEF WritesAreTrue, JobsLast
<1>5. ASSUME NEW d \in Dispatchers, NEW e \in Events, NEW w \in Writes, Notes(d, e, w)
      PROVE  WritesAreTrue'
  <2>1. /\ w # "none"
        /\ w = "dispatched" => job'[e].state # "none"
        /\ w = "failed" => e \notin Routable
    BY <1>5 DEF Notes
  <2>2. /\ batch'[d].writes = [batch[d].writes EXCEPT ![e] = w]
        /\ \A c \in Dispatchers \ {d} : batch'[c] = batch[c]
    BY <1>5, <2>1, NotedBatch
  <2>3. batch[d].writes \in [Events -> Writes]
    BY DEF TypeOK
  <2>4. batch'[d].writes[e] = w /\ \A f \in Events \ {e} : batch'[d].writes[f] = batch[d].writes[f]
    BY <2>2, <2>3
  <2> SUFFICES ASSUME NEW c \in Dispatchers, NEW f \in Events
               PROVE  /\ batch'[c].writes[f] = "dispatched" => job'[f].state # "none"
                      /\ batch'[c].writes[f] = "failed" => f \notin Routable
    BY DEF WritesAreTrue
  <2>5. CASE c = d /\ f = e
    BY <2>1, <2>4, <2>5
  <2>6. CASE ~(c = d /\ f = e)
    <3>1. batch'[c].writes[f] = batch[c].writes[f]
      BY <2>2, <2>4, <2>6
    <3> QED
      BY <1>1, <1>2, <3>1 DEF WritesAreTrue, JobsLast
  <2> QED
    BY <2>5, <2>6
<1> QED
  BY <1>1, <1>3, <1>4, <1>5 DEF RowsMove, RowsRest, Closes, Claims, RowMoves

LEMMA RowsStayTrue ==
    ASSUME TypeOK, OutboxInv, Next
    PROVE  RowsTellTheQueue'
<1>1. RowsMove /\ JobsLast
  BY RowSteps, JobsKept DEF OutboxInv
<1>2. RowsTellTheQueue /\ WritesAreTrue /\ NoticesAreFinal
  BY DEF OutboxInv
<1>3. CASE UNCHANGED row
  BY <1>1, <1>2, <1>3 DEF RowsTellTheQueue, JobsLast
<1>4. ASSUME NEW d \in Dispatchers, CommitBatch(d) PROVE RowsTellTheQueue'
  <2> SUFFICES ASSUME NEW e \in Events
               PROVE  /\ row'[e].status = "DISPATCHED" => job'[e].state # "none"
                      /\ row'[e].status = "FAILED" => e \notin Routable \/ job'[e].state = "failed"
    BY DEF RowsTellTheQueue
  <2>1. batch[d].writes[e] \in Writes
    BY DEF TypeOK
  <2> QED
    BY <1>1, <1>2, <1>4, <2>1, CommittedRows
    DEF RowsTellTheQueue, WritesAreTrue, JobsLast, Writes
<1>5. ASSUME NEW e \in Events, NEW w \in Row, RowMoves(e, w) PROVE RowsTellTheQueue'
  <2>1. row'[e] = w /\ \A f \in Events \ {e} : row'[f] = row[f]
    BY <1>5 DEF RowMoves, TypeOK
  <2>2. \/ w.status = row[e].status
        \/ w.status \in {"PENDING", "SENT"}
        \/ w.status = "FAILED" /\ job[e].state = "failed"
    BY <1>2, <1>5 DEF RowMoves, NoticesAreFinal
  <2> QED
    BY <1>1, <1>2, <2>1, <2>2 DEF RowsTellTheQueue, JobsLast
<1> QED
  BY <1>1, <1>3, <1>4, <1>5 DEF RowsMove, RowsRest, Closes, Claims, Notes

LEMMA OutboxAlways == Spec => [](TypeOK /\ OutboxInv)
<1>1. Init => TypeOK /\ OutboxInv
  BY StartsRight
<1>2. TypeOK /\ OutboxInv /\ [Next]_vars => (TypeOK /\ OutboxInv)'
  <2> SUFFICES ASSUME TypeOK, OutboxInv, [Next]_vars PROVE TypeOK' /\ OutboxInv'
    OBVIOUS
  <2>1. CASE Next
    <3>1. TypeOK' /\ NoticesAreFinal' /\ AttemptsAreLeft'
      BY <2>1, StepTypes, JobsKept DEF OutboxInv
    <3>2. ClaimsHold' /\ WritesAreTrue' /\ RowsTellTheQueue'
      BY <2>1, ClaimsKept, WritesStayTrue, RowsStayTrue
    <3> QED
      BY <3>1, <3>2 DEF OutboxInv
  <2>2. CASE UNCHANGED vars
    BY <2>2 DEF vars, TypeOK, OutboxInv, ClaimsHold, Claimed, WritesAreTrue,
                NoticesAreFinal, AttemptsAreLeft, RowsTellTheQueue
  <2> QED
    BY <2>1, <2>2
<1> QED
  BY <1>1, <1>2, PTL DEF Spec

(* Rows, batches and jobs keep their types; no job runs more often than    *)
(* its attempts allow.                                                     *)
THEOREM OutboxTypeCorrect == Spec => []TypeOK
<1>1. Spec => [](TypeOK /\ OutboxInv)
  BY OutboxAlways
<1> QED
  BY <1>1, PTL

(* A dispatched row has its job, and a failed one has none that would      *)
(* still be tried, whatever faults strike.                                 *)
THEOREM RowsTellTheTruth == Spec => []RowsTellTheQueue
<1>1. OutboxInv => RowsTellTheQueue
  BY DEF OutboxInv
<1>2. Spec => [](TypeOK /\ OutboxInv)
  BY OutboxAlways
<1> QED
  BY <1>1, <1>2, PTL

(* A SENT row is not claimed, written or taken back again, but for the     *)
(* record of a job that failed after it was sent.                          *)
THEOREM SentIsFinal == Spec => SentStays
<1> DEFINE Stays == \A e \in Events : row[e].status = "SENT" =>
                      \/ row'[e] = row[e]
                      \/ /\ e \in notice /\ job[e].state = "failed"
                         /\ row'[e].status = "FAILED"
<1>1. TypeOK /\ OutboxInv /\ [Next]_vars => [Stays]_vars
  <2> SUFFICES ASSUME TypeOK, OutboxInv, Next, NEW e \in Events, row[e].status = "SENT"
               PROVE  \/ row'[e] = row[e]
                      \/ /\ e \in notice /\ job[e].state = "failed"
                         /\ row'[e].status = "FAILED"
    OBVIOUS
  <2>1. RowsMove
    BY RowSteps DEF OutboxInv
  <2>2. ASSUME NEW d \in Dispatchers, CommitBatch(d) PROVE row'[e] = row[e]
    <3>1. e \notin Claimed(d)
      BY DEF OutboxInv, ClaimsHold
    <3>2. batch[d].writes[e] = "none"
      BY <3>1 DEF Claimed
    <3> QED
      BY <2>2, <3>2, CommittedRows
  <2>3. ASSUME NEW f \in Events, NEW w \in Row, RowMoves(f, w), row'[e] # row[e]
        PROVE  e \in notice /\ job[e].state = "failed" /\ row'[e].status = "FAILED"
    <3>1. e = f /\ row'[e] = w /\ w # row[e]
      BY <2>3 DEF RowMoves, TypeOK
    <3>2. w.status = "FAILED" /\ e \in notice
      BY <2>3, <3>1 DEF RowMoves
    <3> QED
      BY <3>1, <3>2 DEF OutboxInv, NoticesAreFinal
  <2> QED
    BY <2>1, <2>2, <2>3 DEF RowsMove, RowsRest, Closes, Claims, Notes
<1>2. Spec => [](TypeOK /\ OutboxInv)
  BY OutboxAlways
<1> QED
  BY <1>1, <1>2, PTL DEF Spec, SentStays
-----------------------------------------------------------------------------
(* The alerts.                                                             *)

Evaluation == [pc : {"idle", "read", "upsert", "resolve"}, deal : Deals,
               finding : Severities, seen : Alerts!Alert]

(* An evaluation that is about to write did not see a dismissal.           *)
SeenIsOpen ==
    \A k \in Evaluations : eval[k].pc \in {"upsert", "resolve"} =>
                              eval[k].seen.status # "DISMISSED"

(* The deals are in some order, each once, and stay so: touching one moves *)
(* it to the end.                                                          *)
LEMMA InitialOrder ==
    ASSUME Alerts!DealsAssumption, NEW s \in Alerts!SetToSeqs(Deals)
    PROVE  s \in Seq(Deals) /\ Alerts!ToSet(s) = Deals /\ Alerts!IsInjective(s)
<1>0. IsFiniteSet(Deals) /\ Alerts!Cardinality(Deals) = Cardinality(Deals)
  BY DEF Alerts!DealsAssumption, Alerts!IsFiniteSet, IsFiniteSet, Alerts!Cardinality, Cardinality
<1>1. PICK n \in Nat : n = Cardinality(Deals)
  BY <1>0, FS_CardinalityType
<1>2. s \in [1 .. n -> Deals] /\ \A i, j \in 1 .. n : i # j => s[i] # s[j]
  BY <1>0, <1>1 DEF Alerts!SetToSeqs
<1>3. s \in Injection(1 .. n, Deals)
  BY <1>2 DEF Injection, IsInjective
<1>4. s \in Surjection(1 .. n, Deals)
  <2>1. Cardinality(1 .. n) = n
    BY FS_Interval
  <2> QED
    BY <1>0, <1>1, <1>3, <2>1, FS_Injection
<1>5. s \in Seq(Deals)
  BY <1>2, SeqDef
<1> QED
  BY <1>2, <1>4, <1>5 DEF Surjection, Alerts!ToSet, Alerts!IsInjective

LEMMA MovedToTheEnd ==
    ASSUME NEW s \in Seq(Deals), Alerts!ToSet(s) = Deals, Alerts!IsInjective(s),
           NEW i \in DOMAIN s
    PROVE  LET t == Append(Alerts!RemoveAt(s, i), s[i])
           IN  t \in Seq(Deals) /\ Alerts!ToSet(t) = Deals /\ Alerts!IsInjective(t)
<1>1. PICK n \in Nat : n = Len(s)
  OBVIOUS
<1>2. i \in 1 .. n /\ DOMAIN s = 1 .. n /\ \A j \in 1 .. n : s[j] \in Deals
  BY <1>1
<1>3. PICK a : a = SubSeq(s, 1, i - 1)
  OBVIOUS
<1>4. PICK b : b = SubSeq(s, i + 1, n)
  OBVIOUS
<1>5. PICK c : c = a \o b
  OBVIOUS
<1>6. PICK t : t = Append(c, s[i])
  OBVIOUS
<1>7. a \in Seq(Deals) /\ Len(a) = i - 1 /\ \A j \in 1 .. i - 1 : a[j] = s[j]
  <2>1. \A j \in 1 .. i - 1 : s[j] \in Deals
    BY <1>2
  <2> QED
    BY <1>2, <1>3, <2>1, SubSeqProperties
<1>8. b \in Seq(Deals) /\ Len(b) = n - i /\ \A j \in 1 .. n - i : b[j] = s[j + i]
  <2>1. \A j \in i + 1 .. n : s[j] \in Deals
    BY <1>2
  <2>2. /\ b \in Seq(Deals) /\ Len(b) = IF i + 1 <= n THEN n - (i + 1) + 1 ELSE 0
        /\ \A j \in 1 .. n - (i + 1) + 1 : b[j] = s[(i + 1) + j - 1]
    BY <1>2, <1>4, <2>1, SubSeqProperties
  <2>3. Len(b) = n - i
    BY <1>2, <2>2
  <2>4. ASSUME NEW j \in 1 .. n - i PROVE b[j] = s[j + i]
    <3>1. j \in 1 .. n - (i + 1) + 1 /\ (i + 1) + j - 1 = j + i
      BY <1>2
    <3> QED
      BY <2>2, <3>1
  <2> QED
    BY <2>2, <2>3, <2>4
<1>9. c \in Seq(Deals) /\ Len(c) = n - 1
      /\ \A j \in 1 .. n - 1 : c[j] = IF j < i THEN s[j] ELSE s[j + 1]
  <2>1. /\ c \in Seq(Deals) /\ Len(c) = Len(a) + Len(b)
        /\ \A j \in 1 .. Len(a) + Len(b) : c[j] = IF j <= Len(a) THEN a[j] ELSE b[j - Len(a)]
    BY <1>5, <1>7, <1>8, ConcatProperties
  <2>2. Len(c) = n - 1 /\ Len(a) + Len(b) = n - 1
    BY <1>2, <1>7, <1>8, <2>1
  <2>3. ASSUME NEW j \in 1 .. n - 1 PROVE c[j] = IF j < i THEN s[j] ELSE s[j + 1]
    <3>1. c[j] = IF j <= i - 1 THEN a[j] ELSE b[j - (i - 1)]
      BY <1>7, <2>1, <2>2
    <3>2. CASE j < i
      BY <1>2, <1>7, <3>1, <3>2
    <3>3. CASE ~(j < i)
      <4>1. j - (i - 1) \in 1 .. n - i /\ (j - (i - 1)) + i = j + 1 /\ ~(j <= i - 1)
        BY <1>2, <3>3
      <4> QED
        BY <1>8, <3>1, <3>3, <4>1
    <3> QED
      BY <3>2, <3>3
  <2> QED
    BY <2>1, <2>2, <2>3
<1>10. /\ t \in Seq(Deals) /\ DOMAIN t = 1 .. n
       /\ \A j \in 1 .. n : t[j] = IF j < i THEN s[j] ELSE IF j < n THEN s[j + 1] ELSE s[i]
  <2>1. s[i] \in Deals
    BY <1>2
  <2> QED
    BY <1>2, <1>6, <1>9, <2>1
<1>11. Alerts!IsInjective(t)
  <2>1. \A j, k \in 1 .. n : s[j] = s[k] => j = k
    BY <1>2 DEF Alerts!IsInjective
  <2> SUFFICES ASSUME NEW j \in 1 .. n, NEW k \in 1 .. n, t[j] = t[k] PROVE j = k
    BY <1>10 DEF Alerts!IsInjective
  <2> QED
    BY <1>2, <1>10, <2>1
<1>12. Alerts!ToSet(t) = Deals
  <2>1. Alerts!ToSet(t) \subseteq Deals
    <3>1. \A j \in 1 .. n : t[j] \in Deals
      BY <1>2, <1>10
    <3> QED
      BY <1>10, <3>1 DEF Alerts!ToSet
  <2>2. ASSUME NEW q \in Deals PROVE \E k \in 1 .. n : t[k] = q
    <3>1. PICK j \in 1 .. n : s[j] = q
      BY <1>2 DEF Alerts!ToSet
    <3>2. CASE j < i
      BY <1>2, <1>10, <3>1, <3>2
    <3>3. CASE j = i
      <4>1. n \in 1 .. n /\ t[n] = s[i]
        BY <1>2, <1>10
      <4> QED
        BY <3>1, <3>3, <4>1
    <3>4. CASE j > i
      <4>1. j - 1 \in 1 .. n /\ t[j - 1] = q
        BY <1>2, <1>10, <3>1, <3>4
      <4> QED
        BY <4>1
    <3> QED
      BY <1>2, <3>1, <3>2, <3>3, <3>4
  <2> QED
    BY <1>10, <2>1, <2>2 DEF Alerts!ToSet
<1>13. t = Append(Alerts!RemoveAt(s, i), s[i])
  BY <1>1, <1>3, <1>4, <1>5, <1>6 DEF Alerts!RemoveAt
<1> QED
  BY <1>10, <1>11, <1>12, <1>13

LEMMA AlertsStart == Alerts!DealsAssumption /\ Alerts!Init => Alerts!TypeOK /\ SeenIsOpen
<1> SUFFICES ASSUME Alerts!DealsAssumption, Alerts!Init PROVE Alerts!TypeOK /\ SeenIsOpen
  OBVIOUS
<1>1. Alerts!NoAlert \in Alerts!Alert
  BY DEF Alerts!NoAlert, Alerts!Alert, Alerts!AlertStatuses, Alerts!DealsAssumption
<1>2. Alerts!Idle \in Evaluation /\ Alerts!Idle.pc = "idle"
  BY <1>1 DEF Alerts!Idle, Evaluation, Alerts!DealsAssumption
<1>3. byUpdate \in Seq(Deals) /\ Alerts!ToSet(byUpdate) = Deals /\ Alerts!IsInjective(byUpdate)
  BY InitialOrder DEF Alerts!Init
<1> QED
  BY <1>1, <1>2, <1>3 DEF Alerts!Init, Alerts!TypeOK, SeenIsOpen, Evaluation, Alerts!DealsAssumption

LEMMA AlertsGoOn ==
    Alerts!DealsAssumption /\ Alerts!TypeOK /\ SeenIsOpen /\ [Alerts!Next]_alertVars => Alerts!TypeOK' /\ SeenIsOpen'
<1> SUFFICES ASSUME Alerts!DealsAssumption, Alerts!TypeOK, SeenIsOpen, [Alerts!Next]_alertVars
             PROVE  Alerts!TypeOK' /\ SeenIsOpen'
  OBVIOUS
<1> USE DEF Alerts!DealsAssumption
<1>1. Alerts!NoAlert \in Alerts!Alert /\ Alerts!Idle \in Evaluation /\ Alerts!Idle.pc = "idle"
  BY DEF Alerts!NoAlert, Alerts!Alert, Alerts!AlertStatuses, Alerts!Idle, Evaluation
<1>2. eval \in [Evaluations -> Evaluation]
  BY DEF Alerts!TypeOK, Evaluation
<1>3. ASSUME NEW k \in Evaluations, Alerts!Finish(k)
      PROVE  eval' \in [Evaluations -> Evaluation] /\ SeenIsOpen'
  BY <1>1, <1>2, <1>3 DEF Alerts!Finish, SeenIsOpen
<1>4. CASE Alerts!ScheduleBatch
  BY <1>4 DEF Alerts!ScheduleBatch, Alerts!TypeOK, SeenIsOpen
<1>5. ASSUME NEW q \in Deals, Alerts!Activity(q) PROVE Alerts!TypeOK' /\ SeenIsOpen'
  <2>1. severity' \in [Deals -> Severities]
    BY <1>5 DEF Alerts!Activity, Alerts!TypeOK
  <2>2. byUpdate' \in Seq(Deals) /\ Alerts!ToSet(byUpdate') = Deals /\ Alerts!IsInjective(byUpdate')
    <3>1. PICK i \in DOMAIN byUpdate : byUpdate' = Append(Alerts!RemoveAt(byUpdate, i), byUpdate[i])
      BY <1>5 DEF Alerts!Activity
    <3> QED
      BY <3>1, MovedToTheEnd DEF Alerts!TypeOK
  <2>3. closed' \subseteq Deals
    BY <1>5 DEF Alerts!Activity, Alerts!TypeOK
  <2> QED
    BY <1>5, <2>1, <2>2, <2>3 DEF Alerts!Activity, Alerts!TypeOK, SeenIsOpen
<1>6. ASSUME NEW q \in Deals, Alerts!Aging(q) \/ Alerts!RefreshQuotation(q) \/ Alerts!DismissAlert(q)
      PROVE  Alerts!TypeOK' /\ SeenIsOpen'
  <2>1. CASE Alerts!Aging(q)
    BY <2>1 DEF Alerts!Aging, Alerts!TypeOK, SeenIsOpen
  <2>2. CASE Alerts!RefreshQuotation(q)
    BY <2>2 DEF Alerts!RefreshQuotation, Alerts!TypeOK, SeenIsOpen
  <2>3. CASE Alerts!DismissAlert(q)
    <3>1. [alert[q] EXCEPT !.status = "DISMISSED"] \in Alerts!Alert
      BY DEF Alerts!TypeOK, Alerts!Alert, Alerts!AlertStatuses
    <3> QED
      BY <2>3, <3>1 DEF Alerts!DismissAlert, Alerts!TypeOK, SeenIsOpen
  <2> QED
    BY <1>6, <2>1, <2>2, <2>3
<1>7. ASSUME NEW k \in Evaluations, NEW q \in Deals, Alerts!GetSnapshot(k, q)
      PROVE  Alerts!TypeOK' /\ SeenIsOpen'
  <2>1. PICK e : e = [Alerts!Idle EXCEPT !.pc = "read", !.deal = q, !.finding = severity[q]]
    OBVIOUS
  <2>2. e \in Evaluation /\ e.pc = "read"
    BY <1>1, <2>1 DEF Evaluation, Alerts!Idle, Alerts!TypeOK
  <2> QED
    BY <1>2, <1>7, <2>1, <2>2 DEF Alerts!GetSnapshot, Alerts!TypeOK, SeenIsOpen, Evaluation
<1>8. ASSUME NEW k \in Evaluations, Alerts!ReadAlert(k) PROVE Alerts!TypeOK' /\ SeenIsOpen'
  <2>1. PICK a \in Alerts!Alert : a = alert[eval[k].deal]
    BY <1>2 DEF Alerts!TypeOK, Evaluation
  <2>2. PICK next : next = Alerts!NextStep(eval[k].finding, a)
    OBVIOUS
  <2>3. CASE next = "idle"
    BY <1>3, <1>8, <2>1, <2>2, <2>3 DEF Alerts!ReadAlert, Alerts!TypeOK, Evaluation
  <2>4. CASE next # "idle"
    <3>1. next \in {"upsert", "resolve"} /\ a.status # "DISMISSED"
      BY <2>2, <2>4 DEF Alerts!NextStep
    <3>2. PICK e : e = [eval[k] EXCEPT !.pc = next, !.seen = a]
      OBVIOUS
    <3>3. e \in Evaluation /\ e.seen = a
      BY <1>2, <3>1, <3>2 DEF Evaluation
    <3>4. eval' = [eval EXCEPT ![k] = e]
      BY <1>8, <2>1, <2>2, <2>4, <3>2 DEF Alerts!ReadAlert
    <3> QED
      BY <1>2, <1>8, <3>1, <3>3, <3>4 DEF Alerts!ReadAlert, Alerts!TypeOK, SeenIsOpen, Evaluation
  <2> QED
    BY <2>3, <2>4
<1>9. ASSUME NEW k \in Evaluations, Alerts!UpsertOpenAlert(k) \/ Alerts!ResolveAlert(k)
      PROVE  Alerts!TypeOK' /\ SeenIsOpen'
  <2>1. PICK q \in Deals : q = eval[k].deal
    BY <1>2 DEF Evaluation
  <2>2. PICK a \in Alerts!Alert : alert' = [alert EXCEPT ![q] = a]
    <3>1. [status |-> "OPEN", severity |-> eval[k].finding] \in Alerts!Alert
      BY <1>2 DEF Alerts!Alert, Alerts!AlertStatuses, Evaluation
    <3>2. alert[q] \in Alerts!Alert
      BY DEF Alerts!TypeOK
    <3>3. [alert[q] EXCEPT !.status = "RESOLVED"] \in Alerts!Alert
      BY <3>2 DEF Alerts!Alert, Alerts!AlertStatuses
    <3> QED
      BY <1>9, <2>1, <3>1, <3>3 DEF Alerts!UpsertOpenAlert, Alerts!ResolveAlert
  <2>3. alert' \in [Deals -> Alerts!Alert]
    BY <2>2 DEF Alerts!TypeOK
  <2>4. Alerts!Finish(k) /\ UNCHANGED <<severity, byUpdate, closed, scheduled, dismissals>>
    BY <1>9 DEF Alerts!UpsertOpenAlert, Alerts!ResolveAlert
  <2> QED
    BY <1>3, <2>3, <2>4 DEF Alerts!TypeOK, Evaluation
<1>10. ASSUME NEW k \in Evaluations, Alerts!Interrupt(k) PROVE Alerts!TypeOK' /\ SeenIsOpen'
  <2>1. eval[k].deal \in Deals
    BY <1>2 DEF Evaluation
  <2> QED
    BY <1>3, <1>10, <2>1 DEF Alerts!Interrupt, Alerts!TypeOK, Evaluation
<1>11. CASE UNCHANGED alertVars
  BY <1>11 DEF alertVars, Alerts!TypeOK, SeenIsOpen
<1> QED
  BY <1>4, <1>5, <1>6, <1>7, <1>8, <1>9, <1>10, <1>11 DEF Alerts!Next, Alerts!Evaluate

LEMMA DismissalStep ==
    Alerts!TypeOK /\ SeenIsOpen /\ [Alerts!Next]_alertVars =>
    [\A q \in Deals : alert[q].status = "DISMISSED" /\ alert'[q] # alert[q] =>
          \E k \in Evaluations : /\ eval[k].pc # "idle" /\ eval[k].deal = q
                                 /\ eval[k].seen.status # "DISMISSED"
                                 /\ eval'[k].pc = "idle"]_alertVars
<1> SUFFICES ASSUME Alerts!TypeOK, SeenIsOpen, Alerts!Next, NEW q \in Deals,
                    alert[q].status = "DISMISSED", alert'[q] # alert[q]
             PROVE  \E k \in Evaluations : /\ eval[k].pc # "idle" /\ eval[k].deal = q
                                           /\ eval[k].seen.status # "DISMISSED"
                                           /\ eval'[k].pc = "idle"
  OBVIOUS
<1>1. PICK k \in Evaluations : Alerts!UpsertOpenAlert(k) \/ Alerts!ResolveAlert(k)
  <2>1. ASSUME NEW p \in Deals, Alerts!DismissAlert(p) PROVE FALSE
    <3>1. alert[p] \in [status : Alerts!AlertStatuses, severity : Severities]
      BY DEF Alerts!TypeOK, Alerts!Alert
    <3>2. alert'[q] = IF p = q THEN [alert[q] EXCEPT !.status = "DISMISSED"] ELSE alert[q]
      BY <2>1 DEF Alerts!DismissAlert, Alerts!TypeOK
    <3> QED
      BY <3>1, <3>2
  <2> QED
    BY <2>1 DEF Alerts!Next, Alerts!Evaluate, Alerts!ScheduleBatch, Alerts!Activity, Alerts!Aging, Alerts!RefreshQuotation, Alerts!GetSnapshot,
                Alerts!ReadAlert, Alerts!Interrupt
<1>2. eval[k].pc \in {"upsert", "resolve"} /\ eval'[k].pc = "idle"
  BY <1>1 DEF Alerts!UpsertOpenAlert, Alerts!ResolveAlert, Alerts!Finish, Alerts!TypeOK, Alerts!Idle
<1>3. eval[k].deal = q
  BY <1>1 DEF Alerts!UpsertOpenAlert, Alerts!ResolveAlert, Alerts!TypeOK
<1> QED
  BY <1>2, <1>3 DEF SeenIsOpen


(* Each part of the jobs runs by its own specification, as they share no   *)
(* row.                                                                    *)
LEMMA JobsAreBoth == JobsSpec => Spec /\ Alerts!Spec
<1>1. JobsInit => Init /\ Alerts!Init
  BY DEF JobsInit
<1>2. [JobsNext]_<<vars, alertVars, part>> => [Next]_vars /\ [Alerts!Next]_alertVars
  BY DEF JobsNext
<1> QED
  BY <1>1, <1>2, PTL DEF JobsSpec, Spec, Alerts!Spec, alertVars, Alerts!vars

LEMMA AlertsAlways == Alerts!Spec => [](Alerts!TypeOK /\ SeenIsOpen)
<1>1. Alerts!Init => Alerts!TypeOK /\ SeenIsOpen
  BY AlertsStart, AlertsAssumption
<1>2. Alerts!TypeOK /\ SeenIsOpen /\ [Alerts!Next]_alertVars => Alerts!TypeOK' /\ SeenIsOpen'
  BY AlertsGoOn, AlertsAssumption
<1> QED
  BY <1>1, <1>2, PTL DEF Alerts!Spec, alertVars, Alerts!vars

(* The invariant of the jobs: rows, claims, jobs and alerts have their     *)
(* types, and what a row says of the queue is so.                          *)
THEOREM JobsSafe == JobsSpec => []JobsInv
<1>1. TypeOK /\ OutboxInv => TypeOK /\ RowsTellTheQueue
  BY DEF OutboxInv
<1>2. Spec => [](TypeOK /\ OutboxInv)
  BY OutboxAlways
<1>3. Alerts!Spec => [](Alerts!TypeOK /\ SeenIsOpen)
  BY AlertsAlways
<1> QED
  BY <1>1, <1>2, <1>3, JobsAreBoth, PTL DEF JobsInv

(* A dismissal is undone only by an evaluation that had read the alert     *)
(* before it, however many evaluations and managers there are.             *)
THEOREM DismissalsLast == JobsSpec => DismissalsYieldToOlder
<1> DEFINE Yields == \A q \in Deals : alert[q].status = "DISMISSED" /\ alert'[q] # alert[q] =>
                        \E k \in Evaluations : /\ eval[k].pc # "idle" /\ eval[k].deal = q
                                               /\ eval[k].seen.status # "DISMISSED"
                                               /\ eval'[k].pc = "idle"
<1>1. Alerts!TypeOK /\ SeenIsOpen /\ [Alerts!Next]_alertVars => [Yields]_alertVars
  BY DismissalStep
<1>2. Alerts!Spec => [](Alerts!TypeOK /\ SeenIsOpen)
  BY AlertsAlways
<1>3. Alerts!Spec => [][Yields]_alertVars
  BY <1>1, <1>2, PTL DEF Alerts!Spec, alertVars, Alerts!vars
<1> QED
  BY <1>3, JobsAreBoth DEF DismissalsYieldToOlder, Alerts!DismissalsYieldToOlder,
                           alertVars, Alerts!vars
=============================================================================
