------------------------------- MODULE Outbox -------------------------------
(***************************************************************************)
(* The outbox, its dispatcher and the worker that runs the jobs.  Business *)
(* transactions leave a row; a dispatcher claims due rows with FOR UPDATE  *)
(* SKIP LOCKED, adds a job for each to a BullMQ queue and commits what it  *)
(* did; the worker runs the job and writes the outcome to the row.         *)
(*                                                                         *)
(* A job's id is derived from its row, so that adding it again while the   *)
(* queue still knows it does nothing.  Redis, the queue and its retries    *)
(* are external: job and redis are modelled from how jobs/ uses them.      *)
(* Backoff is a flag (due) that time sets again.                           *)
(***************************************************************************)
EXTENDS Naturals, FiniteSets

CONSTANTS Events,        \* numbered in the order their rows are created
          Routable,      \* the events whose type has a queue
          Dispatchers, Runs,
          BatchSize, JobAttempts,
          MaxFaults      \* bound on how many faults strike

ASSUME OutboxAssumption ==
    /\ Events \subseteq Nat /\ Routable \subseteq Events
    /\ Runs # {} /\ JobAttempts \in Nat \ {0} /\ MaxFaults \in Nat

VARIABLES row,      \* row[e] = [status, due]
          batch,    \* batch[d] = [open, todo, writes]: a dispatcher's transaction
          job,      \* job[e] = [state, tries, holder]
          run,      \* run[e][k]: where run k of e's processor is
          notice,   \* events whose failed job is yet to be recorded
          redis,    \* whether Redis can be reached
          faults

vars == <<row, batch, job, run, notice, redis, faults>>

RowStatuses == {"NONE", "PENDING", "DISPATCHED", "SENT", "FAILED"}
JobStates   == {"none", "waiting", "active", "completed", "failed"}
RunStates   == {"idle", "loaded", "skipping", "worked", "written"}
Writes      == {"none", "dispatched", "failed", "later"}

NoBatch == [open |-> FALSE, todo |-> {}, writes |-> [e \in Events |-> "none"]]

TypeOK == /\ row \in [Events -> [status : RowStatuses, due : BOOLEAN]]
          /\ batch \in [Dispatchers -> [open : BOOLEAN, todo : SUBSET Events,
                                        writes : [Events -> Writes]]]
          /\ job \in [Events -> [state : JobStates, tries : 0 .. JobAttempts,
                                 holder : Runs]]
          /\ run \in [Events -> [Runs -> RunStates]]
          /\ notice \subseteq Events
          /\ redis \in BOOLEAN
          /\ faults \in 0 .. MaxFaults

Init == /\ row = [e \in Events |-> [status |-> "NONE", due |-> TRUE]]
        /\ batch = [d \in Dispatchers |-> NoBatch]
        /\ job = [e \in Events |-> [state |-> "none", tries |-> 0,
                                    holder |-> CHOOSE k \in Runs : TRUE]]
        /\ run = [e \in Events |-> [k \in Runs |-> "idle"]]
        /\ notice = {}
        /\ redis = TRUE
        /\ faults = 0

Strike == faults < MaxFaults /\ faults' = faults + 1

(***************************************************************************)
(* Writing and dispatching                                                 *)
(***************************************************************************)
EnqueueOutboxEvent(e) ==
    /\ row[e].status = "NONE"
    /\ \A f \in Events : f < e => row[f].status # "NONE"
    /\ row' = [row EXCEPT ![e].status = "PENDING"]
    /\ UNCHANGED <<batch, job, run, notice, redis, faults>>

(* The rows a dispatcher has claimed, until its transaction ends.          *)
Claimed(d) == batch[d].todo \union {e \in Events : batch[d].writes[e] # "none"}

(* Fault: claimed rows are not locked.                                    *)
LockedNever(e) == FALSE

Locked(e) == \E d \in Dispatchers : e \in Claimed(d)

FirstOf(S) == {e \in S : Cardinality({f \in S : f < e}) < BatchSize}

Claim(d) ==
    LET due == {e \in Events : /\ row[e].status = "PENDING" /\ row[e].due
                               /\ ~Locked(e)}
    IN  /\ ~batch[d].open /\ due # {}
        /\ batch' = [batch EXCEPT ![d] =
                       [NoBatch EXCEPT !.open = TRUE, !.todo = FirstOf(due)]]
        /\ UNCHANGED <<row, job, run, notice, redis, faults>>

AddJob(e) ==
    IF job[e].state # "none" THEN UNCHANGED job
    ELSE job' = [job EXCEPT ![e].state = "waiting"]

(* Claimed rows have their turn in the order they were created.            *)
Turn(d, e) == e \in batch[d].todo /\ \A f \in batch[d].todo : e <= f

Note(d, e, write) == batch' = [batch EXCEPT ![d].todo = @ \ {e}, ![d].writes[e] = write]

(* Fault: a row counts as dispatched whether or not Redis took the job.    *)
DispatchHopefully(d) ==
    /\ \E e \in Routable : /\ Turn(d, e)
                           /\ IF redis THEN AddJob(e) ELSE UNCHANGED job
                           /\ Note(d, e, "dispatched")
    /\ UNCHANGED <<row, run, notice, redis, faults>>

Dispatch(d) ==
    /\ redis
    /\ \E e \in Routable : Turn(d, e) /\ AddJob(e) /\ Note(d, e, "dispatched")
    /\ UNCHANGED <<row, run, notice, redis, faults>>

FailUnroutable(d) ==
    /\ \E e \in Events \ Routable : Turn(d, e) /\ Note(d, e, "failed")
    /\ UNCHANGED <<row, job, run, notice, redis, faults>>

RetryLater(d) ==
    /\ ~redis
    /\ \E e \in Routable : Turn(d, e) /\ Note(d, e, "later")
    /\ UNCHANGED <<row, job, run, notice, redis, faults>>

(* Redis took the job, but its reply is lost: an error to the dispatcher.  *)
LoseReply(d) ==
    /\ Strike /\ redis
    /\ \E e \in Routable : Turn(d, e) /\ AddJob(e) /\ Note(d, e, "later")
    /\ UNCHANGED <<row, run, notice, redis>>

CommitBatch(d) ==
    /\ batch[d].open /\ batch[d].todo = {}
    /\ row' = [e \in Events |->
          CASE batch[d].writes[e] = "none"       -> row[e]
            [] batch[d].writes[e] = "dispatched" -> [row[e] EXCEPT !.status = "DISPATCHED"]
            [] batch[d].writes[e] = "failed"     -> [row[e] EXCEPT !.status = "FAILED"]
            [] batch[d].writes[e] = "later"      -> [row[e] EXCEPT !.due = FALSE]]
    /\ batch' = [batch EXCEPT ![d] = NoBatch]
    /\ UNCHANGED <<job, run, notice, redis, faults>>

(* The transaction times out or the process dies; added jobs stay added.   *)
RollBackBatch(d) ==
    /\ Strike
    /\ batch[d].open
    /\ batch' = [batch EXCEPT ![d] = NoBatch]
    /\ UNCHANGED <<row, job, run, notice, redis>>

BecomeDue(e) ==
    /\ row[e].status = "PENDING" /\ ~row[e].due
    /\ row' = [row EXCEPT ![e].due = TRUE]
    /\ UNCHANGED <<batch, job, run, notice, redis, faults>>

RedisGoes ==
    /\ Strike
    /\ redis /\ redis' = FALSE
    /\ UNCHANGED <<row, batch, job, run, notice>>

RedisReturns ==
    /\ ~redis /\ redis' = TRUE
    /\ UNCHANGED <<row, batch, job, run, notice, faults>>

(***************************************************************************)
(* The worker                                                              *)
(***************************************************************************)
(* Fault: only a row still PENDING is worked on.                           *)
StartUndispatched(e, k) ==
    /\ redis /\ job[e].state = "waiting" /\ run[e][k] = "idle"
    /\ job' = [job EXCEPT ![e].state = "active", ![e].holder = k]
    /\ run' = [run EXCEPT ![e][k] =
                 IF row[e].status = "PENDING" THEN "loaded" ELSE "skipping"]
    /\ UNCHANGED <<row, batch, notice, redis, faults>>

(* A run reloads the row and has nothing to do when it is SENT already.    *)
Start(e, k) ==
    /\ redis /\ job[e].state = "waiting" /\ run[e][k] = "idle"
    /\ job' = [job EXCEPT ![e].state = "active", ![e].holder = k]
    /\ run' = [run EXCEPT ![e][k] =
                 IF row[e].status = "SENT" THEN "skipping" ELSE "loaded"]
    /\ UNCHANGED <<row, batch, notice, redis, faults>>

Work(e, k) ==
    /\ run[e][k] = "loaded"
    /\ run' = [run EXCEPT ![e][k] = "worked"]
    /\ UNCHANGED <<row, batch, job, notice, redis, faults>>

WriteSent(e, k) ==
    /\ run[e][k] = "worked" /\ ~Locked(e)
    /\ row' = [row EXCEPT ![e].status = "SENT"]
    /\ run' = [run EXCEPT ![e][k] = "written"]
    /\ UNCHANGED <<batch, job, notice, redis, faults>>

(* Only the run that still holds the job can move it.                      *)
Complete(e, k) ==
    /\ redis /\ run[e][k] \in {"written", "skipping"}
    /\ run' = [run EXCEPT ![e][k] = "idle"]
    /\ IF job[e].state = "active" /\ job[e].holder = k
       THEN job' = [job EXCEPT ![e].state = "completed"]
       ELSE UNCHANGED job
    /\ UNCHANGED <<row, batch, notice, redis, faults>>

(* Fault: every failed attempt is recorded, not only the last.             *)
FailAttemptAlways(e, k) ==
    /\ run' = [run EXCEPT ![e][k] = "idle"]
    /\ IF job[e].state = "active" /\ job[e].holder = k
       THEN LET last == job[e].tries + 1 >= JobAttempts
            IN  /\ job' = [job EXCEPT ![e].tries = @ + 1,
                                      ![e].state = IF last THEN "failed" ELSE "waiting"]
                /\ notice' = notice \union {e}
       ELSE UNCHANGED <<job, notice>>

(* Fault: attempts are counted past their limit.                           *)
FailAttemptForever(e, k) ==
    /\ run' = [run EXCEPT ![e][k] = "idle"]
    /\ IF job[e].state = "active" /\ job[e].holder = k
       THEN /\ job' = [job EXCEPT ![e].tries = @ + 1, ![e].state = "waiting"]
            /\ notice' = notice
       ELSE UNCHANGED <<job, notice>>

(* The queue runs the job again until its attempts are used up; then the   *)
(* worker's failed handler records that on the row.                        *)
FailAttempt(e, k) ==
    /\ run' = [run EXCEPT ![e][k] = "idle"]
    /\ IF job[e].state = "active" /\ job[e].holder = k
       THEN LET last == job[e].tries + 1 >= JobAttempts
            IN  /\ job' = [job EXCEPT ![e].tries = @ + 1,
                                      ![e].state = IF last THEN "failed" ELSE "waiting"]
                /\ notice' = IF last THEN notice \union {e} ELSE notice
       ELSE UNCHANGED <<job, notice>>

Throw(e, k) ==
    /\ Strike
    /\ redis /\ run[e][k] \in {"loaded", "worked"}
    /\ FailAttempt(e, k)
    /\ UNCHANGED <<row, batch, redis>>

(* The row is SENT, but the confirmation is lost: an error to the run.     *)
SentUnheard(e, k) ==
    /\ Strike
    /\ redis /\ run[e][k] = "worked" /\ ~Locked(e)
    /\ row' = [row EXCEPT ![e].status = "SENT"]
    /\ FailAttempt(e, k)
    /\ UNCHANGED <<batch, redis>>

(* The queue takes a silent run for dead and hands the job out again; the  *)
(* run may be dead indeed, or go on.                                       *)
Stall(e) ==
    /\ Strike
    /\ redis /\ job[e].state = "active"
    /\ job' = [job EXCEPT ![e].state = "waiting"]
    /\ \/ run' = [run EXCEPT ![e][job[e].holder] = "idle"]
       \/ UNCHANGED run
    /\ UNCHANGED <<row, batch, notice, redis>>

MarkOutboxFailed(e) ==
    /\ e \in notice /\ ~Locked(e)
    /\ row' = [row EXCEPT ![e].status = "FAILED"]
    /\ notice' = notice \ {e}
    /\ UNCHANGED <<batch, job, run, redis, faults>>

(* The database cannot be reached, which is only logged, or the worker     *)
(* dies before the handler is done.                                        *)
LoseNotice(e) ==
    /\ Strike
    /\ e \in notice /\ notice' = notice \ {e}
    /\ UNCHANGED <<row, batch, job, run, redis>>

Dispatcher(d) == \/ Claim(d) \/ Dispatch(d) \/ FailUnroutable(d)
                 \/ RetryLater(d) \/ CommitBatch(d)

Worker(e, k) == Start(e, k) \/ Work(e, k) \/ WriteSent(e, k) \/ Complete(e, k)

Trouble == \/ RedisGoes
           \/ \E d \in Dispatchers : LoseReply(d) \/ RollBackBatch(d)
           \/ \E e \in Events : Stall(e) \/ LoseNotice(e)
           \/ \E e \in Events, k \in Runs : Throw(e, k) \/ SentUnheard(e, k)

Next == \/ \E e \in Events : \/ EnqueueOutboxEvent(e) \/ BecomeDue(e)
                             \/ MarkOutboxFailed(e)
                             \/ \E k \in Runs : Worker(e, k)
        \/ \E d \in Dispatchers : Dispatcher(d)
        \/ RedisReturns
        \/ Trouble

Spec == Init /\ [][Next]_vars

(* The dispatcher's timer keeps firing, time passes, Redis comes back, and *)
(* a worker runs the jobs the queue gives it.                              *)
Fairness == /\ WF_vars(RedisReturns)
            /\ \A d \in Dispatchers : WF_vars(Dispatcher(d))
            /\ \A e \in Events : /\ WF_vars(BecomeDue(e))
                                 /\ WF_vars(MarkOutboxFailed(e))
                                 /\ \A k \in Runs : WF_vars(Worker(e, k))

(***************************************************************************)
(* Properties                                                              *)
(***************************************************************************)
(* A row is called dispatched only when the queue has its job: nothing is  *)
(* lost when Redis is away or a batch rolls back (dispatchOutboxBatch).    *)
(* It is called failed only when nothing will try it again.                *)
RowsTellTheQueue ==
    \A e \in Events :
        /\ row[e].status = "DISPATCHED" => job[e].state # "none"
        /\ row[e].status = "FAILED" => e \notin Routable \/ job[e].state = "failed"

(* No order of claims, commits and late handlers takes a finished row back *)
(* (architecture document, section 24A: conditional status transitions),   *)
(* but for one: when the confirmation of a SENT row is lost, or a run goes *)
(* on after it was given up, the last attempt may fail all the same, and   *)
(* markOutboxFailed looks at no status.                                    *)
SentStays ==
    [][\A e \in Events : row[e].status = "SENT" =>
          \/ row'[e] = row[e]
          \/ /\ e \in notice /\ job[e].state = "failed"
             /\ row'[e].status = "FAILED"]_vars

(* Every event that was committed is settled in the end: sent, or recorded *)
(* as failed.  Only markOutboxFailed's own failure, which it logs and      *)
(* forgets (31-33), leaves a row DISPATCHED, with its job failed.          *)
EventsAreSettled ==
    \A e \in Events : row[e].status = "PENDING" ~>
        \/ row[e].status \in {"SENT", "FAILED"}
        \/ job[e].state = "failed" /\ e \notin notice
=============================================================================
