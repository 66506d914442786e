---------------------------- MODULE StatementIngest ----------------------------
(***************************************************************************)
(* One uploaded PDF statement: the row of gnucash_web_statement_batches,   *)
(* the copies of its parsed lines, the extraction jobs that fill them, the *)
(* automatic recovery that the list request schedules, and the requests    *)
(* that re-parse, re-assign, finalize and delete the batch.                *)
(*                                                                         *)
(* A run is one execution of runStatementExtraction, by the worker or in   *)
(* the request.  Its copy of the lines is named by the run.                *)
(***************************************************************************)
EXTENDS Naturals, FiniteSets

CONSTANTS Runs, Callers,
          CallOf,        \* of a request: "list", which repeats, "reparse", "assign"
          MaxAttempts,   \* MAX_STATEMENT_AUTO_RECOVERY_ATTEMPTS
          MaxCrashes     \* bound

ASSUME IngestAssumption ==
    /\ CallOf \in [Callers -> {"list", "reparse", "assign"}]
    /\ MaxAttempts \in Nat \ {0} /\ MaxCrashes \in Nat

VARIABLES
    status,     \* of the batch; "gone": deleted
    marker,     \* the attempt in the error field's prefix, 0 without one
    due,        \* nextRetryAt is past, or there is none
    age,        \* since updated_at: 0, 1 (ten minutes), 2 (thirty)
    closing,    \* a closing balance was parsed: without it no finalize ties out
    lines,      \* the copies of the lines that are committed
    pc, job,    \* per run: its place; its job's data
    snap,       \* per run: the rows its DELETE saw, then those it deleted
    kept,       \* recovery attempts whose job the queue still knows by its id
    req,        \* per request: what it has read and has yet to write
    crashes

batch == <<status, marker, due, age, closing>>
queue == <<job, kept>>
vars == <<batch, lines, pc, snap, queue, req, crashes>>

Statuses == {"uploaded", "parsing", "parsed", "error", "reconciled", "gone"}
Places == {"unused", "queued", "loaded", "extracting", "deleting",
           "inserting", "replaced", "failed", "ended", "marking", "done"}
Attempts == 0..MaxAttempts
Jobs == [auto : BOOLEAN, attempt : Attempts]
Idle == [kind |-> "idle"]
Answered == [kind |-> "answered"]
Requests == {Idle, Answered} \cup [kind : {"recover", "recovering"}, attempt : 1..MaxAttempts]
                   \cup [kind : {"reparse"}, attempt : Attempts]
                   \cup [kind : {"assign"}, status : Statuses]

TypeOK ==
    /\ status \in Statuses /\ marker \in Attempts
    /\ due \in BOOLEAN /\ age \in 0..2 /\ closing \in BOOLEAN
    /\ lines \subseteq Runs
    /\ pc \in [Runs -> Places] /\ job \in [Runs -> Jobs]
    /\ snap \in [Runs -> SUBSET Runs]
    /\ kept \subseteq 1..MaxAttempts
    /\ req \in [Callers -> Requests]
    /\ crashes \in 0..MaxCrashes

ByUser(a) == [auto |-> FALSE, attempt |-> a]
ByRecovery(a) == [auto |-> TRUE, attempt |-> a]

\* intakeStatement: the batch is created and its first job queued; the job's
\* deterministic id keeps a slow enqueue from running it twice.
Init ==
    /\ status = "uploaded" /\ marker = 0 /\ due = TRUE /\ age = 0 /\ closing = FALSE
    /\ lines = {}
    /\ \E r \in Runs : pc = [s \in Runs |-> IF s = r THEN "queued" ELSE "unused"]
    /\ job = [r \in Runs |-> ByUser(0)]
    /\ snap = [r \in Runs |-> {}]
    /\ kept = {}
    /\ req = [q \in Callers |-> Idle]
    /\ crashes = 0

--------------------------------------------------------------------------------
(* The batch row. *)

\* setBatchStatus without a change of the error field; no row, no change.
SetStatus(s) ==
    IF status = "gone" THEN UNCHANGED batch
    ELSE status' = s /\ age' = 0 /\ UNCHANGED <<marker, due, closing>>

\* ... with the error field cleared or replaced by a plain message, or set to
\* a message that carries attempt a.
SetError(s, a, known) ==
    IF status = "gone" THEN UNCHANGED batch
    ELSE /\ status' = s /\ age' = 0 /\ closing' = known
         /\ marker' = a
         /\ due' = (a \in {0, MaxAttempts})

\* nextStatementRecoveryAttempt: 0 for null.
\* Mutant: a batch stuck in 'parsing' is not recovered.
NextAttemptErrorsOnly ==
    IF marker < MaxAttempts /\ due /\ status = "error" /\ age >= 1
    THEN marker + 1 ELSE 0
NextAttempt ==
    IF /\ marker < MaxAttempts /\ due
       /\ \/ status = "error" /\ age >= 1
          \/ status = "parsing" /\ age = 2
    THEN marker + 1 ELSE 0

\* Ten, then thirty minutes since the last update; the back-off of fifteen
\* minutes started no later than updated_at.  Minutes do not pass between the
\* statements with which a run records its outcome.
TimePasses ==
    /\ status # "gone"
    /\ \A r \in Runs : pc[r] \notin {"failed", "ended", "marking"}
    /\ \/ age = 0 /\ age' = 1 /\ UNCHANGED due
       \/ age = 1 /\ ~due /\ due' = TRUE /\ UNCHANGED age
       \/ age = 1 /\ due /\ age' = 2 /\ UNCHANGED due
    /\ UNCHANGED <<status, marker, closing, lines, pc, snap, queue, req, crashes>>

--------------------------------------------------------------------------------
(* runStatementExtraction and handleExtractStatement. *)

Goto(r, place) == pc' = [pc EXCEPT ![r] = place]

Load(r) ==
    /\ pc[r] = "queued"
    /\ Goto(r, IF status = "gone" THEN "done" ELSE "loaded")
    /\ UNCHANGED <<batch, lines, snap, queue, req, crashes>>

StartParsing(r) ==
    /\ pc[r] = "loaded"
    /\ SetStatus("parsing")
    /\ Goto(r, "extracting")
    /\ UNCHANGED <<lines, snap, queue, req, crashes>>

\* replaceLines, BEGIN; DELETE: the statement sees the rows committed now ...
BeginReplace(r) ==
    /\ pc[r] = "extracting"
    /\ snap' = [snap EXCEPT ![r] = lines]
    /\ Goto(r, "deleting")
    /\ UNCHANGED <<batch, lines, queue, req, crashes>>

\* Mutant: the DELETE commits before the INSERT.
DeleteAndCommit(r) ==
    /\ pc[r] = "deleting"
    /\ lines' = lines \ snap[r]
    /\ snap' = [snap EXCEPT ![r] = {}]
    /\ Goto(r, "inserting")
    /\ UNCHANGED <<batch, queue, req, crashes>>

\* ... waits for whoever has deleted one of them and not committed, and deletes
\* what is left of them.
DeleteLines(r) ==
    /\ pc[r] = "deleting"
    /\ \A s \in Runs \ {r} : pc[s] = "inserting" => snap[s] \cap snap[r] = {}
    /\ snap' = [snap EXCEPT ![r] = @ \cap lines]
    /\ Goto(r, "inserting")
    /\ UNCHANGED <<batch, lines, queue, req, crashes>>

\* INSERT; COMMIT.
InsertLines(r) ==
    /\ pc[r] = "inserting"
    /\ lines' = (lines \ snap[r]) \cup {r}
    /\ snap' = [snap EXCEPT ![r] = {}]
    /\ Goto(r, "replaced")
    /\ UNCHANGED <<batch, queue, req, crashes>>

SetParsed(r) ==
    /\ pc[r] = "replaced"
    /\ SetError("parsed", 0, TRUE)
    /\ Goto(r, "ended")
    /\ UNCHANGED <<lines, snap, queue, req, crashes>>

\* Storage, the PDF, the AI or the database fails.
Fails(r) ==
    /\ pc[r] \in {"loaded", "extracting", "deleting", "inserting", "replaced"}
    /\ snap' = [snap EXCEPT ![r] = {}]
    /\ Goto(r, "failed")
    /\ UNCHANGED <<batch, lines, queue, req, crashes>>

\* The catch block: the error replaces the field, marker included; this write
\* may fail as well.
RecordError(r) ==
    /\ pc[r] = "failed"
    /\ SetError("error", 0, closing) \/ UNCHANGED batch
    /\ Goto(r, "ended")
    /\ UNCHANGED <<lines, snap, queue, req, crashes>>

\* recordStatementRecoveryFailure: read the outcome, put the marker back.
ReadOutcome(r) ==
    /\ pc[r] = "ended"
    /\ Goto(r, IF job[r].attempt > 0 /\ status = "error" THEN "marking" ELSE "done")
    /\ UNCHANGED <<batch, lines, snap, queue, req, crashes>>

WriteMarker(r) ==
    /\ pc[r] = "marking"
    /\ SetError("error", job[r].attempt, closing)
    /\ Goto(r, "done")
    /\ UNCHANGED <<lines, snap, queue, req, crashes>>

\* A process dies; its transaction is rolled back.  BullMQ may deliver a job of
\* a dead worker once more: that is another run.
Crash(r) ==
    /\ pc[r] \notin {"unused", "queued", "done"} /\ crashes < MaxCrashes
    /\ crashes' = crashes + 1
    /\ snap' = [snap EXCEPT ![r] = {}]
    /\ \/ Goto(r, "done") /\ UNCHANGED job
       \/ \E s \in Runs : /\ pc[s] = "unused"
                          /\ pc' = [pc EXCEPT ![r] = "done", ![s] = "queued"]
                          /\ job' = [job EXCEPT ![s] = job[r]]
    /\ UNCHANGED <<batch, lines, kept, req>>

Step(r) == \/ Load(r) \/ StartParsing(r) \/ BeginReplace(r)
           \/ DeleteLines(r) \/ InsertLines(r) \/ SetParsed(r) \/ Fails(r)
           \/ RecordError(r) \/ ReadOutcome(r) \/ WriteMarker(r)

--------------------------------------------------------------------------------
(* scheduleStatementRecovery, called by every GET of the list. *)

Becomes(q, state) == req' = [req EXCEPT ![q] = state]

ListBatches(q) ==
    /\ CallOf[q] = "list" /\ req[q] = Idle /\ NextAttempt > 0
    /\ Becomes(q, [kind |-> "recover", attempt |-> NextAttempt])
    /\ UNCHANGED <<batch, lines, pc, snap, queue, crashes>>

Unused == {r \in Runs : pc[r] = "unused"}

\* Mutant: no deterministic job id.
EnqueueRecoveryAnew(q) ==
    /\ req[q].kind = "recover"
    /\ kept' = kept \cup {req[q].attempt}
    /\ \E r \in Unused : Goto(r, "queued") /\ job' = [job EXCEPT ![r] = ByRecovery(req[q].attempt)]
    /\ Becomes(q, [req[q] EXCEPT !.kind = "recovering"])
    /\ UNCHANGED <<batch, lines, snap, crashes>>

\* The queue ignores a job whose id it knows and answers with the id.  (When
\* the instance has no run left, the job waits for a worker that never comes.)
EnqueueRecovery(q) ==
    /\ req[q].kind = "recover"
    /\ kept' = kept \cup {req[q].attempt}
    /\ IF req[q].attempt \in kept \/ Unused = {}
       THEN UNCHANGED <<pc, job>>
       ELSE \E r \in Unused :
               Goto(r, "queued") /\ job' = [job EXCEPT ![r] = ByRecovery(req[q].attempt)]
    /\ Becomes(q, [req[q] EXCEPT !.kind = "recovering"])
    /\ UNCHANGED <<batch, lines, snap, crashes>>

\* The marker is written after the job is queued: the job may have run already.
MarkScheduled(q) ==
    /\ req[q].kind = "recovering"
    /\ SetError("error", req[q].attempt, closing)
    /\ Becomes(q, Idle)
    /\ UNCHANGED <<lines, pc, snap, queue, crashes>>

\* removeOnComplete, removeOnFail: the queue forgets a finished job.
ForgetJob(a) ==
    /\ a \in kept
    /\ \A r \in Runs : job[r] = ByRecovery(a) => pc[r] = "done"
    /\ kept' = kept \ {a}
    /\ UNCHANGED <<batch, lines, pc, snap, job, req, crashes>>

--------------------------------------------------------------------------------
(* The requests of the user. *)

\* POST .../parse reads the marker that the run is to preserve ...
AskReparse(q) ==
    /\ CallOf[q] = "reparse" /\ req[q] = Idle /\ status # "gone" /\ Unused # {}
    /\ Becomes(q, [kind |-> "reparse", attempt |-> marker])
    /\ UNCHANGED <<batch, lines, pc, snap, queue, crashes>>

\* ... and queues a job without an id: after an enqueue that is slow and lands
\* all the same, the worker and the request both run.
Reparse(q) ==
    /\ req[q].kind = "reparse"
    /\ \E S \in SUBSET Unused :
          /\ Cardinality(S) \in {1, 2}
          /\ pc' = [r \in Runs |-> IF r \in S THEN "queued" ELSE pc[r]]
          /\ job' = [r \in Runs |-> IF r \in S THEN ByUser(req[q].attempt) ELSE job[r]]
    /\ Becomes(q, Answered)
    /\ UNCHANGED <<batch, lines, snap, kept, crashes>>

\* PUT .../account writes the status that it read along with the account.
AskAssign(q) ==
    /\ CallOf[q] = "assign" /\ req[q] = Idle
    /\ status \notin {"reconciled", "gone"}
    /\ Becomes(q, [kind |-> "assign", status |-> status])
    /\ UNCHANGED <<batch, lines, pc, snap, queue, crashes>>

Assign(q) ==
    /\ req[q].kind = "assign"
    /\ SetStatus(req[q].status)
    /\ Becomes(q, Answered)
    /\ UNCHANGED <<lines, pc, snap, queue, crashes>>

\* finalizeReconcile, as far as the batch row goes: a compare-and-set.
Finalize ==
    /\ status \notin {"reconciled", "gone"} /\ closing
    /\ SetStatus("reconciled")
    /\ UNCHANGED <<lines, pc, snap, queue, req, crashes>>

\* deleteBatch: the lines and the row in one transaction.  It waits for rows
\* that a run has deleted.
DeleteBatch ==
    /\ status # "gone"
    /\ \A r \in Runs : pc[r] = "inserting" => snap[r] \cap lines = {}
    /\ status' = "gone" /\ lines' = {}
    /\ UNCHANGED <<marker, due, age, closing, pc, snap, queue, req, crashes>>

Recover(q) == ListBatches(q) \/ EnqueueRecovery(q) \/ MarkScheduled(q)

Next == \/ \E r \in Runs : Step(r) \/ Crash(r)
        \/ \E q \in Callers : Recover(q) \/ AskReparse(q) \/ Reparse(q) \/ AskAssign(q) \/ Assign(q)
        \/ \E a \in 1..MaxAttempts : ForgetJob(a)
        \/ TimePasses \/ Finalize \/ DeleteBatch

Spec == Init /\ [][Next]_vars

\* Workers run what is queued, requests that have begun go on, time passes, and
\* somebody with the edit role looks at the list of statements again and again:
\* the recovery has no clock of its own.
Fairness == /\ \A r \in Runs : WF_vars(Step(r))
            /\ \A q \in Callers : /\ WF_vars(Recover(q)) 
                               /\ WF_vars(Reparse(q)) /\ WF_vars(Assign(q))
            /\ WF_vars(TimePasses)
FairSpec == Spec /\ Fairness

--------------------------------------------------------------------------------
(* Properties. *)

\* A batch that was parsed has its lines: a failed or a concurrent replacement
\* never leaves it without (replaceLines deletes and inserts in one transaction).
ParsedHasLines == status \in {"parsed", "reconciled"} => lines # {}

\* Two users who look at the list at once, or one who looks twice, do not pay
\* for two extractions: an attempt has one job that is not finished.
OneRunPerAttempt ==
    \A r, s \in Runs :
        /\ job[r].auto /\ job[r] = job[s]
        /\ pc[r] \notin {"unused", "done"} /\ pc[s] \notin {"unused", "done"}
        => r = s

\* What makes the first inductive.  Until a run has put lines in, nobody takes the
\* batch for a parsed one: not the row, not a run on its way to say so, and not a
\* request that is to write a status back.
NobodySaysParsed ==
    /\ status \notin {"parsed", "reconciled"} /\ ~closing
    /\ \A r \in Runs : pc[r] # "replaced"
    /\ \A q \in Callers : req[q].kind = "assign" => req[q].status \notin {"parsed", "reconciled"}
LinesFirst == status = "gone" \/ lines # {} \/ NobodySaysParsed

\* And the second: the queue knows the job of an attempt until its run is done.
Unfinished(r) == pc[r] \notin {"unused", "done"}
JobsAreKept == \A r \in Runs : job[r].auto /\ Unfinished(r) => job[r].attempt \in kept

IngestInv == TypeOK /\ LinesFirst /\ JobsAreKept /\ OneRunPerAttempt

\* A batch is not left in 'parsing' by a worker that died or by a request that
\* wrote an old status back: it gets out, or its budget is spent.
NoStuckParsing ==
    status = "parsing" ~> status # "parsing" \/ marker = MaxAttempts

================================================================================
