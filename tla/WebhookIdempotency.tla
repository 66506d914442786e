--------------------------- MODULE WebhookIdempotency ---------------------------
(***************************************************************************)
(* Inbound-webhook idempotency: the claim row of ONE (book, endpoint, key) *)
(* and the requests that carry it.  Every statement of the code touches    *)
(* the row of its own key only, so keys do not interact.                   *)
(*                                                                         *)
(* A step is one SQL statement or one transaction boundary.  What a        *)
(* transaction writes is invisible until it commits, so the writes of the  *)
(* fenced transaction are one step with its COMMIT; the row lock that      *)
(* lockWebhookIdempotencyAttempt takes is held from the SELECT ... FOR     *)
(* UPDATE to that step, and every other writer of the row waits for it.    *)
(***************************************************************************)
EXTENDS Naturals, FiniteSets

CONSTANTS Workers,      \* requests (deliveries and retries) carrying the key
          NoWorker,     \* null: no request, no entry
          MaxAttempts,  \* WEBHOOK_MAX_ATTEMPTS
          MaxRearms     \* bound: operator re-arms explored

ASSUME WebhookAssumption ==
    /\ NoWorker \notin Workers
    /\ MaxAttempts \in Nat \ {0}
    /\ MaxRearms \in Nat

VARIABLES row,      \* the claim row; stale: claim_started_at is over 5 min old
          holder,   \* the request whose transaction holds the row FOR UPDATE
          entries,  \* ledger entries posted, named by the posting request
          pc,       \* where each request is
          attempt,  \* claimAttempt: the fence token it was given
          reply,    \* the HTTP answer it sent
          told,     \* the entry its success answer names
          rearms    \* operator re-arms so far (history, bounded)

vars == <<row, holder, entries, pc, attempt, reply, told, rearms>>

RowStates == {"absent", "processing", "failed", "failed_permanent", "completed"}
Pcs == {"idle", "refused", "claimed", "locked", "committed", "failing", "done"}
Replies == {"none", "created", "replayed", "in_flight", "terminal",
            "superseded", "not_found", "error"}

TypeOK ==
    /\ row \in [state : RowStates, attempts : 0..MaxAttempts, stale : BOOLEAN,
                result : Workers \cup {NoWorker}]
    /\ row.state = "absent" => row.attempts = 0
    /\ holder \in Workers \cup {NoWorker}
    /\ entries \in SUBSET Workers
    /\ pc \in [Workers -> Pcs]
    /\ attempt \in [Workers -> 0..MaxAttempts]
    /\ reply \in [Workers -> Replies]
    /\ told \in [Workers -> Workers \cup {NoWorker}]
    /\ rearms \in 0..MaxRearms

Init ==
    /\ row = [state |-> "absent", attempts |-> 0, stale |-> FALSE,
              result |-> NoWorker]
    /\ holder = NoWorker
    /\ entries = {}
    /\ pc = [w \in Workers |-> "idle"]
    /\ attempt = [w \in Workers |-> 0]
    /\ reply = [w \in Workers |-> "none"]
    /\ told = [w \in Workers |-> NoWorker]
    /\ rearms = 0

---------------------------------------------------------------------------------
(* The WHERE clauses. *)

\* Mutants: no retry budget; no recovery of a stale claim.
ClaimableUnbounded ==
    \/ row.state = "absent"
    \/ /\ row.result = NoWorker
       /\ \/ row.state \in {"failed", "failed_permanent"}
          \/ row.state = "processing" /\ row.stale
ClaimableNeverStale ==
    \/ row.state = "absent"
    \/ row.result = NoWorker /\ row.attempts < MaxAttempts /\ row.state = "failed"

\* ON CONFLICT DO UPDATE ... WHERE: what a new claim may take over.
Claimable ==
    \/ row.state = "absent"
    \/ /\ row.result = NoWorker
       /\ row.attempts < MaxAttempts
       /\ \/ row.state = "failed"
          \/ row.state = "processing" /\ row.stale

\* The fence of lock, complete and release.
Owns(w) == /\ row.result = NoWorker
           /\ row.state = "processing"
           /\ row.attempts = attempt[w]

Stalled == row.state = "processing" /\ row.attempts >= MaxAttempts /\ row.stale

RowFree == holder = NoWorker    \* a writer of the row need not wait

Answer(w, r, e) == /\ pc' = [pc EXCEPT ![w] = "done"]
                   /\ reply' = [reply EXCEPT ![w] = r]
                   /\ told' = [told EXCEPT ![w] = e]

---------------------------------------------------------------------------------
(* One request. *)

\* INSERT ... ON CONFLICT ... RETURNING attempts: the request takes the claim.
Claim(w) ==
    /\ pc[w] = "idle" /\ RowFree /\ Claimable
    /\ row' = [row EXCEPT !.state = "processing", !.attempts = @ + 1,
                          !.stale = FALSE]
    /\ attempt' = [attempt EXCEPT ![w] = row.attempts + 1]
    /\ pc' = [pc EXCEPT ![w] = "claimed"]
    /\ UNCHANGED <<holder, entries, reply, told, rearms>>

\* The same statement, returning no row.
ClaimRefused(w) ==
    /\ pc[w] = "idle" /\ RowFree /\ ~Claimable
    /\ pc' = [pc EXCEPT ![w] = "refused"]
    /\ UNCHANGED <<row, holder, entries, attempt, reply, told, rearms>>

\* The SELECT after a refusal is a statement of its own: it sees the row as it
\* is NOW, and does not wait for a lock.
AnswerRefused(w) ==
    /\ pc[w] = "refused"
    /\ IF row.result # NoWorker THEN Answer(w, "replayed", row.result)
       ELSE IF row.state = "failed_permanent" \/ Stalled
       THEN Answer(w, "terminal", NoWorker)
       ELSE Answer(w, "in_flight", NoWorker)
    /\ UNCHANGED <<row, holder, entries, attempt, rearms>>

\* BEGIN; SELECT ... FOR UPDATE with the fence: owned...
LockAttempt(w) ==
    /\ pc[w] = "claimed" /\ RowFree /\ Owns(w)
    /\ holder' = w
    /\ pc' = [pc EXCEPT ![w] = "locked"]
    /\ UNCHANGED <<row, entries, attempt, reply, told, rearms>>

\* ... or superseded: WebhookClaimSupersededError, rollback, 409.
LockSuperseded(w) ==
    /\ pc[w] = "claimed" /\ RowFree /\ ~Owns(w)
    /\ Answer(w, "superseded", NoWorker)
    /\ UNCHANGED <<row, holder, entries, attempt, rearms>>

\* Mutant: the ledger write commits before the claim is completed.
CommitEntryOnly(w) ==
    /\ pc[w] = "locked" /\ Owns(w)
    /\ entries' = entries \cup {w}
    /\ holder' = NoWorker
    /\ pc' = [pc EXCEPT ![w] = "committed"]
    /\ UNCHANGED <<row, attempt, reply, told, rearms>>

\* The ledger write, completeWebhookIdempotency and COMMIT.  The answer is sent
\* later; if the commit's acknowledgement is lost, the catch block runs instead.
CommitWrite(w) ==
    /\ pc[w] = "locked" /\ Owns(w)
    /\ row' = [row EXCEPT !.result = w, !.state = "completed"]
    /\ entries' = entries \cup {w}
    /\ holder' = NoWorker
    /\ \E ack \in {"committed", "failing"} : pc' = [pc EXCEPT ![w] = ack]
    /\ UNCHANGED <<attempt, reply, told, rearms>>

Created(w) ==
    /\ pc[w] = "committed"
    /\ Answer(w, "created", w)
    /\ UNCHANGED <<row, holder, entries, attempt, rearms>>

\* releaseWebhookIdempotency's UPDATE.
Released == [row EXCEPT !.state = IF row.attempts >= MaxAttempts
                                  THEN "failed_permanent" ELSE "failed"]

\* membership-payment, no such member: the claim is released in the
\* transaction, which commits and answers 404.
MemberNotFound(w) ==
    /\ pc[w] = "locked" /\ Owns(w)
    /\ row' = Released
    /\ holder' = NoWorker
    /\ Answer(w, "not_found", NoWorker)
    /\ UNCHANGED <<entries, attempt, rearms>>

\* A statement of the transaction fails, or it times out: rolled back.
WriteFails(w) ==
    /\ pc[w] \in {"claimed", "locked"}
    /\ holder' = IF holder = w THEN NoWorker ELSE holder
    /\ pc' = [pc EXCEPT ![w] = "failing"]
    /\ UNCHANGED <<row, entries, attempt, reply, told, rearms>>

\* The catch block: release the claim if it is still this attempt's, answer 500.
Release(w) ==
    /\ pc[w] = "failing" /\ RowFree
    /\ row' = IF Owns(w) THEN Released ELSE row
    /\ Answer(w, "error", NoWorker)
    /\ UNCHANGED <<holder, entries, attempt, rearms>>

\* release swallows its own database error, and a process may die anywhere:
\* the database rolls its transaction back and the row stays as committed.
Crash(w) ==
    /\ pc[w] \notin {"idle", "done"}
    /\ holder' = IF holder = w THEN NoWorker ELSE holder
    /\ Answer(w, "error", NoWorker)
    /\ UNCHANGED <<row, entries, attempt, rearms>>

---------------------------------------------------------------------------------
(* Time and the operator. *)

\* WEBHOOK_CLAIM_STALE_MINUTES pass.  The claimant may well be alive.
ClaimGoesStale ==
    /\ row.state = "processing" /\ ~row.stale
    /\ row' = [row EXCEPT !.stale = TRUE]
    /\ UNCHANGED <<holder, entries, pc, attempt, reply, told, rearms>>

\* rearmWebhookIdempotency.
Rearm ==
    /\ rearms < MaxRearms /\ RowFree
    /\ row.result = NoWorker
    /\ row.state = "failed_permanent" \/ Stalled
    /\ row' = [row EXCEPT !.state = "failed", !.attempts = 0, !.stale = FALSE]
    /\ rearms' = rearms + 1
    /\ UNCHANGED <<holder, entries, pc, attempt, reply, told>>

Step(w) ==
    \/ Claim(w) \/ ClaimRefused(w) \/ AnswerRefused(w)
    \/ LockAttempt(w) \/ LockSuperseded(w)
    \/ CommitWrite(w) \/ Created(w) \/ MemberNotFound(w)
    \/ WriteFails(w) \/ Release(w)

Next == \/ \E w \in Workers : Step(w) \/ Crash(w)
        \/ ClaimGoesStale
        \/ Rearm

Spec == Init /\ [][Next]_vars

\* A request that has begun keeps running or dies (its process's event loop
\* serves every ready continuation), and time passes.  Nothing obliges the
\* sender to retry or the operator to re-arm.
Fairness == /\ \A w \in Workers : WF_vars(pc[w] # "idle" /\ (Step(w) \/ Crash(w)))
            /\ WF_vars(ClaimGoesStale)

FairSpec == Spec /\ Fairness

---------------------------------------------------------------------------------
(* Properties. *)

\* The promise: at most one ledger entry per key, and a success reply names it.
Promise == INSTANCE AtMostOnce WITH Requests <- Workers, NoEntry <- NoWorker,
                                    posted <- entries, told <- told
AtMostOnceSpec == Promise!Spec

\* The stored result and the ledger agree: a key is completed exactly when its
\* entry is in the ledger, and the result is that entry.  A replay therefore
\* never reports an entry that was rolled back (the crash between the ledger
\* write and completeWebhookIdempotency).
ResultIsTheEntry ==
    /\ entries = (IF row.result = NoWorker THEN {} ELSE {row.result})
    /\ row.state = "completed" <=> row.result # NoWorker

\* The fence, once locked, cannot be lost before the commit: no claim, release
\* or re-arm slips between lockWebhookIdempotencyAttempt and complete.
FenceHolds == /\ \A w \in Workers : pc[w] = "locked" <=> holder = w
              /\ \A w \in Workers : pc[w] = "locked" => Owns(w)

\* What is told was committed: the part of the inductive invariant that the
\* two above lack.
ToldIsCommitted ==
    \A w \in Workers : /\ pc[w] = "committed" => w \in entries
                       /\ pc[w] # "done" => told[w] = NoWorker
                       /\ told[w] # NoWorker => told[w] \in entries

Consistent == TypeOK /\ ResultIsTheEntry /\ FenceHolds /\ ToldIsCommitted

\* A completed key is never claimed, released or re-armed again.
CompletedIsFinal == [][row.result # NoWorker => row' = row]_vars

NeedsAttention == row.state = "failed_permanent" \/ Stalled

\* The retry budget: a record on the operator's attention list hands out no
\* further attempt until it is re-armed.
BudgetIsBounded == [][NeedsAttention => attempt' = attempt]_vars

\* A crash does not wedge the key: a claim in progress ends up completed,
\* reclaimable by the next retry, or on the operator's attention list.
NoWedgedClaim ==
    row.state = "processing"
        ~> row.state = "completed" \/ Claimable \/ NeedsAttention
=================================================================================
