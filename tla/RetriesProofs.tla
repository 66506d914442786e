------------------------------- MODULE RetriesProofs -------------------------------
(***************************************************************************)
(* Proofs about what is asked for again, by a client that has no answer or *)
(* by a second user.  Of WebhookIdempotency, for any number of requests,   *)
(* attempts and re-arms: an operation runs once.  Of QuickAddQueue, for    *)
(* any number of pages and entries: what the user was told is saved or     *)
(* queued is not lost, nor are its tags.  Of ScheduledExec, for any number *)
(* of requests, occurrences and definitions: an occurrence is booked once, *)
(* as the template says, and balances.                                     *)
(*                                                                         *)
(* Neither property of the queue is inductive.  A page may delete an item  *)
(* from storage that another page is working on and a third has marked as  *)
(* failed; what makes this safe is what each page knows at its place in    *)
(* postQuickAdd (Known), which no step of another page can take back,      *)
(* because the ledger forgets nothing.                                     *)
(***************************************************************************)
EXTENDS WebhookIdempotency, QuickAddQueue, ScheduledExec, Sums

-----------------------------------------------------------------------------
(* Webhook idempotency *)

\* Every reachable state is well typed: in particular the attempt counter that
\* claimWebhookIdempotency increments and the operator resets stays within the
\* retry budget.
THEOREM Typing == Spec => []TypeOK
<1>. USE WebhookAssumption
<1>1. Init => TypeOK
  BY DEF Init, TypeOK, RowStates, Pcs, Replies
<1>2. TypeOK /\ [Next]_vars => TypeOK'
  <2>. SUFFICES ASSUME TypeOK, [Next]_vars
                PROVE  TypeOK'
    OBVIOUS
  <2>. USE DEF TypeOK, RowStates, Pcs, Replies
  <2>1. ASSUME NEW w \in Workers, Claim(w) PROVE TypeOK'
    <3>1. row.attempts + 1 \in 0..MaxAttempts
      BY <2>1 DEF Claim, Claimable
    <3>. QED  BY <2>1, <3>1 DEF Claim
  <2>2. ASSUME NEW w \in Workers, ClaimRefused(w) PROVE TypeOK'
    BY <2>2 DEF ClaimRefused
  <2>3. ASSUME NEW w \in Workers, AnswerRefused(w) PROVE TypeOK'
    BY <2>3 DEF AnswerRefused, Answer
  <2>4. ASSUME NEW w \in Workers, LockAttempt(w) PROVE TypeOK'
    BY <2>4 DEF LockAttempt
  <2>5. ASSUME NEW w \in Workers, LockSuperseded(w) PROVE TypeOK'
    BY <2>5 DEF LockSuperseded, Answer
  <2>6. ASSUME NEW w \in Workers, CommitWrite(w) PROVE TypeOK'
    <3>1. row' = [state |-> "completed", attempts |-> row.attempts,
                  stale |-> row.stale, result |-> w]
      BY <2>6 DEF CommitWrite
    <3>2. PICK ack \in {"committed", "failing"} : pc' = [pc EXCEPT ![w] = ack]
      BY <2>6 DEF CommitWrite
    <3>3. pc' \in [Workers -> Pcs]
      BY <3>2
    <3>4. entries' \subseteq Workers /\ holder' \in Workers \cup {NoWorker}
      BY <2>6 DEF CommitWrite
    <3>. QED  BY <2>6, <3>1, <3>3, <3>4 DEF CommitWrite
  <2>7. ASSUME NEW w \in Workers, Created(w) PROVE TypeOK'
    BY <2>7 DEF Created, Answer
  <2>8. ASSUME NEW w \in Workers, MemberNotFound(w) PROVE TypeOK'
    BY <2>8 DEF MemberNotFound, Answer, Released
  <2>9. ASSUME NEW w \in Workers, WriteFails(w) PROVE TypeOK'
    BY <2>9 DEF WriteFails
  <2>10. ASSUME NEW w \in Workers, Release(w) PROVE TypeOK'
    BY <2>10 DEF Release, Answer, Released
  <2>11. ASSUME NEW w \in Workers, Crash(w) PROVE TypeOK'
    BY <2>11 DEF Crash, Answer
  <2>12. CASE ClaimGoesStale
    BY <2>12 DEF ClaimGoesStale
  <2>13. CASE Rearm
    <3>1. rearms' \in 0..MaxRearms
      BY <2>13 DEF Rearm
    <3>2. row' = [state |-> "failed", attempts |-> 0, stale |-> FALSE,
                  result |-> row.result]
      BY <2>13 DEF Rearm
    <3>3. 0 \in 0..MaxAttempts /\ row.result \in Workers \cup {NoWorker}
      OBVIOUS
    <3>. QED  BY <2>13, <3>1, <3>2, <3>3 DEF Rearm
  <2>14. CASE UNCHANGED vars
    BY <2>14 DEF vars
  <2>. QED
    BY <2>1, <2>2, <2>3, <2>4, <2>5, <2>6, <2>7, <2>8, <2>9, <2>10, <2>11,
       <2>12, <2>13, <2>14 DEF Next, Step
<1>. QED  BY <1>1, <1>2, PTL DEF Spec

---------------------------------------------------------------------------------

\* The invariant of the fence: the request that holds the row lock owns the
\* attempt, the stored result is the one entry of the ledger, and whatever a
\* request was told is in the ledger.
THEOREM Consistency == Spec => []Consistent
<1>. USE WebhookAssumption
<1>1. Init => Consistent
  BY DEF Init, Consistent, TypeOK, ResultIsTheEntry, FenceHolds, ToldIsCommitted, RowStates, Pcs, Replies
<1>2. TypeOK /\ TypeOK' /\ Consistent /\ [Next]_vars => Consistent'
  <2>. SUFFICES ASSUME TypeOK, TypeOK', Consistent, [Next]_vars
                PROVE  Consistent'
    OBVIOUS
  <2>. USE DEF Consistent, ResultIsTheEntry, FenceHolds, ToldIsCommitted, TypeOK
  <2>1. ASSUME NEW w \in Workers, Claim(w) PROVE Consistent'
    BY <2>1 DEF Claim, Claimable, RowFree, Owns
  <2>2. ASSUME NEW w \in Workers, ClaimRefused(w) PROVE Consistent'
    BY <2>2 DEF ClaimRefused, RowFree, Owns
  <2>3. ASSUME NEW w \in Workers, AnswerRefused(w) PROVE Consistent'
    BY <2>3 DEF AnswerRefused, Answer, Owns
  <2>4. ASSUME NEW w \in Workers, LockAttempt(w) PROVE Consistent'
    BY <2>4 DEF LockAttempt, RowFree, Owns
  <2>5. ASSUME NEW w \in Workers, LockSuperseded(w) PROVE Consistent'
    BY <2>5 DEF LockSuperseded, Answer, Owns
  <2>6. ASSUME NEW w \in Workers, CommitWrite(w) PROVE Consistent'
    BY <2>6 DEF CommitWrite, Owns
  <2>7. ASSUME NEW w \in Workers, Created(w) PROVE Consistent'
    BY <2>7 DEF Created, Answer, Owns
  <2>8. ASSUME NEW w \in Workers, MemberNotFound(w) PROVE Consistent'
    BY <2>8 DEF MemberNotFound, Answer, Released, Owns
  <2>9. ASSUME NEW w \in Workers, WriteFails(w) PROVE Consistent'
    BY <2>9 DEF WriteFails, Owns
  <2>10. ASSUME NEW w \in Workers, Release(w) PROVE Consistent'
    BY <2>10 DEF Release, Answer, Released, RowFree, Owns
  <2>11. ASSUME NEW w \in Workers, Crash(w) PROVE Consistent'
    BY <2>11 DEF Crash, Answer, Owns
  <2>12. CASE ClaimGoesStale
    BY <2>12 DEF ClaimGoesStale, Owns
  <2>13. CASE Rearm
    BY <2>13 DEF Rearm, Stalled, RowFree, Owns
  <2>14. CASE UNCHANGED vars
    BY <2>14 DEF vars, Owns
  <2>. QED
    BY <2>1, <2>2, <2>3, <2>4, <2>5, <2>6, <2>7, <2>8, <2>9, <2>10, <2>11,
       <2>12, <2>13, <2>14 DEF Next, Step
<1>. QED  BY Typing, <1>1, <1>2, PTL DEF Spec

---------------------------------------------------------------------------------

\* The request protocol implements the promise: whatever the interleaving of
\* claims, stale recoveries, failures, crashes and re-arms, at most one entry
\* is posted under the key and every success reply names it.
THEOREM Implementation == Spec => AtMostOnceSpec
<1>1. Init => Promise!Init
  BY DEF Init, Promise!Init
<1>2. Consistent /\ [Next]_vars => [Promise!Next]_Promise!vars
  <2>. SUFFICES ASSUME Consistent, [Next]_vars
                PROVE  [Promise!Next]_Promise!vars
    OBVIOUS
  <2>. USE DEF Promise!vars, Promise!Next, Consistent, TypeOK
  <2>1. ASSUME NEW w \in Workers, CommitWrite(w) PROVE Promise!Post(w)
    BY <2>1 DEF CommitWrite, Owns, ResultIsTheEntry, Promise!Post
  <2>2. ASSUME NEW w \in Workers, Created(w) PROVE Promise!Tell(w)
    BY <2>2 DEF Created, Answer, ToldIsCommitted, Promise!Tell
  <2>3. ASSUME NEW w \in Workers, AnswerRefused(w)
        PROVE  Promise!Tell(w) \/ UNCHANGED Promise!vars
    BY <2>3 DEF AnswerRefused, Answer, ToldIsCommitted, ResultIsTheEntry,
                Promise!Tell
  <2>4. ASSUME NEW w \in Workers,
               \/ LockSuperseded(w) \/ MemberNotFound(w) \/ Release(w)
               \/ Crash(w)
        PROVE  UNCHANGED Promise!vars
    BY <2>4 DEF LockSuperseded, MemberNotFound, Release, Crash, Answer,
                ToldIsCommitted
  <2>5. ASSUME NEW w \in Workers,
               \/ Claim(w) \/ ClaimRefused(w) \/ LockAttempt(w)
               \/ WriteFails(w)
        PROVE  UNCHANGED Promise!vars
    BY <2>5 DEF Claim, ClaimRefused, LockAttempt, WriteFails
  <2>6. CASE ClaimGoesStale \/ Rearm \/ UNCHANGED vars
    BY <2>6 DEF ClaimGoesStale, Rearm, vars
  <2>. QED
    BY <2>1, <2>2, <2>3, <2>4, <2>5, <2>6 DEF Next, Step
<1>. QED
  BY Consistency, <1>1, <1>2, PTL DEF Spec, AtMostOnceSpec, Promise!Spec

---------------------------------------------------------------------------------

\* The stored result is the one entry in the ledger: a replay answers with a
\* transaction that exists and that is the only one of its key.
THEOREM Results == Spec => []ResultIsTheEntry
<1>1. Consistent => ResultIsTheEntry
  BY DEF Consistent
<1>. QED  BY <1>1, Consistency, PTL

\* The fence of a request whose transaction is running cannot be lost to another
\* claim, a release or a re-arm.
THEOREM Fence == Spec => []FenceHolds
<1>1. Consistent => FenceHolds
  BY DEF Consistent
<1>. QED  BY <1>1, Consistency, PTL

\* The row of a completed key never changes again: each statement that writes
\* the row asks, in its WHERE clause, for a row without a result.
THEOREM Finality == Spec => CompletedIsFinal
<1>1. Consistent /\ [Next]_vars => [row.result # NoWorker => row' = row]_vars
  <2>. SUFFICES ASSUME Consistent, [Next]_vars, row.result # NoWorker
                PROVE  row' = row
    OBVIOUS
  <2>. USE DEF Consistent, ResultIsTheEntry
  <2>1. ASSUME NEW w \in Workers, Claim(w) PROVE FALSE
    BY <2>1 DEF Claim, Claimable
  <2>2. ASSUME NEW w \in Workers, CommitWrite(w) \/ MemberNotFound(w) PROVE FALSE
    BY <2>2 DEF CommitWrite, MemberNotFound, Owns
  <2>3. ASSUME NEW w \in Workers, Release(w) PROVE row' = row
    BY <2>3 DEF Release, Owns
  <2>4. ASSUME NEW w \in Workers,
               \/ ClaimRefused(w) \/ AnswerRefused(w) \/ LockAttempt(w)
               \/ LockSuperseded(w) \/ Created(w) \/ WriteFails(w) \/ Crash(w)
        PROVE  row' = row
    BY <2>4 DEF ClaimRefused, AnswerRefused, LockAttempt, LockSuperseded, Created,
                WriteFails, Crash
  <2>5. ~ClaimGoesStale /\ ~Rearm
    BY DEF ClaimGoesStale, Rearm
  <2>6. CASE UNCHANGED vars
    BY <2>6 DEF vars
  <2>. QED  BY <2>1, <2>2, <2>3, <2>4, <2>5, <2>6 DEF Next, Step
<1>. QED  BY <1>1, Consistency, PTL DEF Spec, CompletedIsFinal

\* A record that is on the operator's attention list gives out no attempt: the
\* list and the claim's WHERE clause are written in two places and agree.
THEOREM Budget == Spec => BudgetIsBounded
<1>1. TypeOK /\ [Next]_vars => [NeedsAttention => attempt' = attempt]_vars
  <2>. SUFFICES ASSUME TypeOK, [Next]_vars, NeedsAttention
                PROVE  attempt' = attempt
    OBVIOUS
  <2>1. ASSUME NEW w \in Workers, Claim(w) PROVE FALSE
    <3>1. row.attempts \in Nat
      BY DEF TypeOK
    <3>. QED
      BY <2>1, <3>1, WebhookAssumption DEF Claim, Claimable, NeedsAttention, Stalled
  <2>2. ASSUME NEW w \in Workers, Step(w) \/ Crash(w), ~Claim(w)
        PROVE  attempt' = attempt
    BY <2>2 DEF Step, ClaimRefused, AnswerRefused, LockAttempt, LockSuperseded,
                CommitWrite, Created, MemberNotFound, WriteFails, Release, Crash
  <2>3. CASE ClaimGoesStale \/ Rearm \/ UNCHANGED vars
    BY <2>3 DEF ClaimGoesStale, Rearm, vars
  <2>. QED  BY <2>1, <2>2, <2>3 DEF Next
<1>. QED  BY <1>1, Typing, PTL DEF Spec, BudgetIsBounded
-----------------------------------------------------------------------------
(* The offline queue *)

Queued == {i \in Items : save[i] = "queued"}

\* Only an entry that was enqueued is ever listed, shown or retried.
Listed ==
    /\ \A p \in Pages : left[p] \subseteq Queued
    /\ shown \subseteq Queued /\ retrying \subseteq Queued
    /\ \A i \in Items : save[i] = "tagging" => i \in Tagged

\* Whoever is past the first request knows that the ledger has the entry, and
\* past the second that it has the tags.
Known ==
    /\ \A p \in Pages : at[p] \in {"tagging", "synced"} => cur[p] \in posted
    /\ \A p \in Pages : at[p] = "synced" /\ cur[p] \in Tagged => cur[p] \in tagged
    /\ \A i \in Items : save[i] = "tagging" => i \in posted

IInv == QueueTypeOK /\ Listed /\ Known /\ NothingIsLost /\ TagsFollow

LEMMA InitIInv == QueueInit => IInv
  BY QuickAddAssumption
     DEF QuickAddAssumption, QueueInit, IInv, QueueTypeOK, Listed, Known, NothingIsLost,
         TagsFollow, Queued, Stored, SaveStates, RunStates

LEMMA ListIInv == ASSUME IInv, NEW p \in Pages, List(p) PROVE IInv'
<1> USE QuickAddAssumption DEF QuickAddAssumption, IInv, QueueTypeOK, Stored, SaveStates,
        RunStates, List, At,
        server, user, run
<1>1. QueueTypeOK' BY DEF Listed, Queued
<1>2. Listed' BY DEF Listed, Queued
<1>3. Known' BY DEF Known, Listed, Queued
<1>4. NothingIsLost' BY DEF NothingIsLost, Known, Listed, Queued
<1>5. TagsFollow' BY DEF TagsFollow, Known, Listed, Queued
<1> QED BY <1>1, <1>2, <1>3, <1>4, <1>5

LEMMA RereadIInv == ASSUME IInv, NEW p \in Pages, Reread(p) PROVE IInv'
<1> USE QuickAddAssumption DEF QuickAddAssumption, IInv, QueueTypeOK, Stored, SaveStates,
        RunStates, Reread, At,
        server, user, run
<1>1. QueueTypeOK' BY DEF Listed, Queued
<1>2. Listed' BY DEF Listed, Queued
<1>3. Known' BY DEF Known, Listed, Queued
<1>4. NothingIsLost' BY DEF NothingIsLost, Known, Listed, Queued
<1>5. TagsFollow' BY DEF TagsFollow, Known, Listed, Queued
<1> QED BY <1>1, <1>2, <1>3, <1>4, <1>5

LEMMA FinishIInv == ASSUME IInv, NEW p \in Pages, Finish(p) PROVE IInv'
<1> USE QuickAddAssumption DEF QuickAddAssumption, IInv, QueueTypeOK, Stored, SaveStates,
        RunStates, Finish, At, Goto,
        server, user, run
<1>1. QueueTypeOK' BY DEF Listed, Queued
<1>2. Listed' BY DEF Listed, Queued
<1>3. Known' BY DEF Known, Listed, Queued
<1>4. NothingIsLost' BY DEF NothingIsLost, Known, Listed, Queued
<1>5. TagsFollow' BY DEF TagsFollow, Known, Listed, Queued
<1> QED BY <1>1, <1>2, <1>3, <1>4, <1>5

LEMMA GetToMarkIInv == ASSUME IInv, NEW p \in Pages, GetToMark(p) PROVE IInv'
<1> USE QuickAddAssumption DEF QuickAddAssumption, IInv, QueueTypeOK, Stored, SaveStates,
        RunStates, GetToMark, At, Goto,
        server, user, run
<1>1. QueueTypeOK' BY DEF Listed, Queued
<1>2. Listed' BY DEF Listed, Queued
<1>3. Known' BY DEF Known, Listed, Queued
<1>4. NothingIsLost' BY DEF NothingIsLost, Known, Listed, Queued
<1>5. TagsFollow' BY DEF TagsFollow, Known, Listed, Queued
<1> QED BY <1>1, <1>2, <1>3, <1>4, <1>5

LEMMA PutSyncingIInv == ASSUME IInv, NEW p \in Pages, PutSyncing(p) PROVE IInv'
<1> USE QuickAddAssumption DEF QuickAddAssumption, IInv, QueueTypeOK, Stored, SaveStates,
        RunStates, PutSyncing, At, Goto,
        server, user, run
<1>1. QueueTypeOK' BY DEF Listed, Queued
<1>2. Listed' BY DEF Listed, Queued
<1>3. Known' BY DEF Known, Listed, Queued
<1>4. NothingIsLost' BY DEF NothingIsLost, Known, Listed, Queued
<1>5. TagsFollow' BY DEF TagsFollow, Known, Listed, Queued
<1> QED BY <1>1, <1>2, <1>3, <1>4, <1>5

LEMMA SyncPostIInv == ASSUME IInv, NEW p \in Pages, SyncPost(p) PROVE IInv'
<1> USE QuickAddAssumption DEF QuickAddAssumption, IInv, QueueTypeOK, Stored, SaveStates,
        RunStates, SyncPost, At, Goto, Serves, GivesUp,
        server, user, run
<1>1. QueueTypeOK'
  <2>1. CASE GivesUp(cur[p]) /\ Goto(p, "failing") BY <2>1
  <2>2. CASE \E ok \in BOOLEAN :
               /\ Serves(cur[p], ok)
               /\ Goto(p, IF ~ok THEN "failing"
                          ELSE IF cur[p] \in Tagged THEN "tagging" ELSE "synced")
               /\ UNCHANGED <<tagged, wire>>
    <3>1. PICK s \in {"failing", "tagging", "synced"} :
            /\ at' = [at EXCEPT ![p] = s] /\ UNCHANGED <<left, cur, tagged, wire>>
            /\ s = "tagging" => cur[p] \in Tagged
            /\ posted' \in {posted, posted \cup {cur[p]}}
      BY <2>2
    <3> QED BY <3>1
  <2> QED BY <2>1, <2>2
<1>2. Listed' BY DEF Listed, Queued
<1>3. Known' BY DEF Known, Listed, Queued
<1>4. NothingIsLost' BY DEF NothingIsLost, Known, Listed, Queued
<1>5. TagsFollow' BY DEF TagsFollow, Known, Listed, Queued
<1> QED BY <1>1, <1>2, <1>3, <1>4, <1>5

LEMMA SyncTagsIInv == ASSUME IInv, NEW p \in Pages, SyncTags(p) PROVE IInv'
<1> USE QuickAddAssumption DEF QuickAddAssumption, IInv, QueueTypeOK, Stored, SaveStates,
        RunStates, SyncTags, At, Goto, Tags,
        server, user, run
<1>1. QueueTypeOK'
  <2>1. PICK s \in {"failing", "synced"} :
          /\ at' = [at EXCEPT ![p] = s] /\ UNCHANGED <<left, cur, posted, wire>>
          /\ tagged' \in {tagged, tagged \cup {cur[p]}}
    OBVIOUS
  <2>2. cur[p] \in Tagged OBVIOUS
  <2> QED BY <2>1, <2>2
<1>2. Listed' BY DEF Listed, Queued
<1>3. Known' BY DEF Known, Listed, Queued
<1>4. NothingIsLost' BY DEF NothingIsLost, Known, Listed, Queued
<1>5. TagsFollow' BY DEF TagsFollow, Known, Listed, Queued
<1> QED BY <1>1, <1>2, <1>3, <1>4, <1>5

LEMMA DropIInv == ASSUME IInv, NEW p \in Pages, Drop(p) PROVE IInv'
<1> USE QuickAddAssumption DEF QuickAddAssumption, IInv, QueueTypeOK, Stored, SaveStates,
        RunStates, Drop, At, Done,
        server, user, run
<1>1. QueueTypeOK' BY DEF Listed, Queued
<1>2. Listed' BY DEF Listed, Queued
<1>3. Known' BY DEF Known, Listed, Queued
<1>4. NothingIsLost' BY DEF NothingIsLost, Known, Listed, Queued
<1>5. TagsFollow' BY DEF TagsFollow, Known, Listed, Queued
<1> QED BY <1>1, <1>2, <1>3, <1>4, <1>5

LEMMA GetToFailIInv == ASSUME IInv, NEW p \in Pages, GetToFail(p) PROVE IInv'
<1> USE QuickAddAssumption DEF QuickAddAssumption, IInv, QueueTypeOK, Stored, SaveStates,
        RunStates, GetToFail, At, Goto, Done,
        server, user, run
<1>1. QueueTypeOK' BY DEF Listed, Queued
<1>2. Listed' BY DEF Listed, Queued
<1>3. Known' BY DEF Known, Listed, Queued
<1>4. NothingIsLost' BY DEF NothingIsLost, Known, Listed, Queued
<1>5. TagsFollow' BY DEF TagsFollow, Known, Listed, Queued
<1> QED BY <1>1, <1>2, <1>3, <1>4, <1>5

LEMMA PutFailedIInv == ASSUME IInv, NEW p \in Pages, PutFailed(p) PROVE IInv'
<1> USE QuickAddAssumption DEF QuickAddAssumption, IInv, QueueTypeOK, Stored, SaveStates,
        RunStates, PutFailed, At, Done,
        server, user, run
<1>1. QueueTypeOK' BY DEF Listed, Queued
<1>2. Listed' BY DEF Listed, Queued
<1>3. Known' BY DEF Known, Listed, Queued
<1>4. NothingIsLost' BY DEF NothingIsLost, Known, Listed, Queued
<1>5. TagsFollow' BY DEF TagsFollow, Known, Listed, Queued
<1> QED BY <1>1, <1>2, <1>3, <1>4, <1>5

LEMMA PageDiesIInv == ASSUME IInv, NEW p \in Pages, PageDies(p) PROVE IInv'
<1> USE QuickAddAssumption DEF QuickAddAssumption, IInv, QueueTypeOK, Stored, SaveStates,
        RunStates, PageDies, At,
        server, user, run
<1>1. QueueTypeOK'
  <2>1. \A q \in Pages : q # p => at'[q] = at[q] /\ left'[q] = left[q]
    OBVIOUS
  <2>2. at'[p] = "idle" /\ at' \in [Pages -> RunStates] /\ left' \in [Pages -> SUBSET Items]
    OBVIOUS
  <2>3. wire' \subseteq Items
    OBVIOUS
  <2>. QED BY <2>1, <2>2, <2>3
<1>2. Listed' BY DEF Listed, Queued
<1>3. Known' BY DEF Known, Listed, Queued
<1>4. NothingIsLost' BY DEF NothingIsLost, Known, Listed, Queued
<1>5. TagsFollow' BY DEF TagsFollow, Known, Listed, Queued
<1> QED BY <1>1, <1>2, <1>3, <1>4, <1>5

LEMMA CaptureIInv == ASSUME IInv, NEW i \in Items, Capture(i) PROVE IInv'
<1> USE QuickAddAssumption DEF QuickAddAssumption, IInv, QueueTypeOK, Stored, SaveStates,
        RunStates, Capture,
        server, user, run
<1>1. QueueTypeOK' BY DEF Listed, Queued
<1>2. Listed' BY DEF Listed, Queued
<1>3. Known' BY DEF Known, Listed, Queued
<1>4. NothingIsLost' BY DEF NothingIsLost, Known, Listed, Queued
<1>5. TagsFollow' BY DEF TagsFollow, Known, Listed, Queued
<1> QED BY <1>1, <1>2, <1>3, <1>4, <1>5

LEMMA SavePostIInv == ASSUME IInv, NEW i \in Items, SavePost(i) PROVE IInv'
<1> USE QuickAddAssumption DEF QuickAddAssumption, IInv, QueueTypeOK, Stored, SaveStates,
        RunStates, SavePost, AfterPost, Serves, GivesUp,
        server, user, run
<1>1. QueueTypeOK' BY DEF Listed, Queued
<1>2. Listed'
  <2>1. PICK st \in {"enqueuing", "tagging", "saved"} :
          save' = [save EXCEPT ![i] = st] /\ (st = "tagging" => i \in Tagged)
    OBVIOUS
  <2>2. i \notin Queued /\ Queued' = Queued
    BY <2>1 DEF Queued
  <2>. QED BY <2>1, <2>2 DEF Listed
<1>3. Known' BY DEF Known, Listed, Queued
<1>4. NothingIsLost' BY DEF NothingIsLost, Known, Listed, Queued
<1>5. TagsFollow' BY DEF TagsFollow, Known, Listed, Queued
<1> QED BY <1>1, <1>2, <1>3, <1>4, <1>5

LEMMA SaveTagsIInv == ASSUME IInv, NEW i \in Items, SaveTags(i) PROVE IInv'
<1> USE QuickAddAssumption DEF QuickAddAssumption, IInv, QueueTypeOK, Stored, SaveStates,
        RunStates, SaveTags, Tags,
        server, user, run
<1>1. QueueTypeOK' BY DEF Listed, Queued
<1>2. Listed' BY DEF Listed, Queued
<1>3. Known' BY DEF Known, Listed, Queued
<1>4. NothingIsLost' BY DEF NothingIsLost, Known, Listed, Queued
<1>5. TagsFollow' BY DEF TagsFollow, Known, Listed, Queued
<1> QED BY <1>1, <1>2, <1>3, <1>4, <1>5

LEMMA EnqueueIInv == ASSUME IInv, NEW i \in Items, Enqueue(i) PROVE IInv'
<1> USE QuickAddAssumption DEF QuickAddAssumption, IInv, QueueTypeOK, Stored, SaveStates,
        RunStates, Enqueue,
        server, user, run
<1>1. QueueTypeOK' BY DEF Listed, Queued
<1>2. Listed' BY DEF Listed, Queued
<1>3. Known' BY DEF Known, Listed, Queued
<1>4. NothingIsLost' BY DEF NothingIsLost, Known, Listed, Queued
<1>5. TagsFollow' BY DEF TagsFollow, Known, Listed, Queued
<1> QED BY <1>1, <1>2, <1>3, <1>4, <1>5

LEMMA SaveDiesIInv == ASSUME IInv, NEW i \in Items, SaveDies(i) PROVE IInv'
<1> USE QuickAddAssumption DEF QuickAddAssumption, IInv, QueueTypeOK, Stored, SaveStates,
        RunStates, SaveDies,
        server, user, run
<1>1. QueueTypeOK' BY DEF Listed, Queued
<1>2. Listed' BY DEF Listed, Queued
<1>3. Known' BY DEF Known, Listed, Queued
<1>4. NothingIsLost' BY DEF NothingIsLost, Known, Listed, Queued
<1>5. TagsFollow' BY DEF TagsFollow, Known, Listed, Queued
<1> QED BY <1>1, <1>2, <1>3, <1>4, <1>5

LEMMA LateIInv == ASSUME IInv, NEW i \in Items, Late(i) PROVE IInv'
<1> USE QuickAddAssumption DEF QuickAddAssumption, IInv, QueueTypeOK, Stored, SaveStates,
        RunStates, Late,
        server, user, run
<1>1. QueueTypeOK' BY DEF Listed, Queued
<1>2. Listed' BY DEF Listed, Queued
<1>3. Known' BY DEF Known, Listed, Queued
<1>4. NothingIsLost' BY DEF NothingIsLost, Known, Listed, Queued
<1>5. TagsFollow' BY DEF TagsFollow, Known, Listed, Queued
<1> QED BY <1>1, <1>2, <1>3, <1>4, <1>5

LEMMA RetryGetIInv == ASSUME IInv, NEW i \in Items, RetryGet(i) PROVE IInv'
<1> USE QuickAddAssumption DEF QuickAddAssumption, IInv, QueueTypeOK, Stored, SaveStates,
        RunStates, RetryGet,
        server, user, run
<1>1. QueueTypeOK' BY DEF Listed, Queued
<1>2. Listed' BY DEF Listed, Queued
<1>3. Known' BY DEF Known, Listed, Queued
<1>4. NothingIsLost' BY DEF NothingIsLost, Known, Listed, Queued
<1>5. TagsFollow' BY DEF TagsFollow, Known, Listed, Queued
<1> QED BY <1>1, <1>2, <1>3, <1>4, <1>5

LEMMA RetryPutIInv == ASSUME IInv, NEW i \in Items, RetryPut(i) PROVE IInv'
<1> USE QuickAddAssumption DEF QuickAddAssumption, IInv, QueueTypeOK, Stored, SaveStates,
        RunStates, RetryPut,
        server, user, run
<1>1. QueueTypeOK' BY DEF Listed, Queued
<1>2. Listed' BY DEF Listed, Queued
<1>3. Known' BY DEF Known, Listed, Queued
<1>4. NothingIsLost' BY DEF NothingIsLost, Known, Listed, Queued
<1>5. TagsFollow' BY DEF TagsFollow, Known, Listed, Queued
<1> QED BY <1>1, <1>2, <1>3, <1>4, <1>5

LEMMA RemoveIInv == ASSUME IInv, NEW i \in Items, Remove(i) PROVE IInv'
<1> USE QuickAddAssumption DEF QuickAddAssumption, IInv, QueueTypeOK, Stored, SaveStates,
        RunStates, Remove,
        server, user, run
<1>1. QueueTypeOK' BY DEF Listed, Queued
<1>2. Listed' BY DEF Listed, Queued
<1>3. Known' BY DEF Known, Listed, Queued
<1>4. NothingIsLost' BY DEF NothingIsLost, Known, Listed, Queued
<1>5. TagsFollow' BY DEF TagsFollow, Known, Listed, Queued
<1> QED BY <1>1, <1>2, <1>3, <1>4, <1>5

LEMMA StepIInv == IInv /\ [QueueNext]_queueVars => IInv'
<1> SUFFICES ASSUME IInv, [QueueNext]_queueVars PROVE IInv'
  OBVIOUS
<1>1. ASSUME NEW p \in Pages, Sync(p) PROVE IInv'
  BY <1>1, ListIInv, RereadIInv, FinishIInv, GetToMarkIInv, PutSyncingIInv, SyncPostIInv,
     SyncTagsIInv, DropIInv, GetToFailIInv, PutFailedIInv DEF Sync
<1>2. ASSUME NEW p \in Pages, PageDies(p) PROVE IInv'
  BY <1>2, PageDiesIInv
<1>3. ASSUME NEW i \in Items, Save(i) PROVE IInv'
  BY <1>3, SavePostIInv, SaveTagsIInv, EnqueueIInv DEF Save
<1>4. ASSUME NEW i \in Items, Capture(i) \/ SaveDies(i) \/ Late(i) PROVE IInv'
  BY <1>4, CaptureIInv, SaveDiesIInv, LateIInv
<1>5. ASSUME NEW i \in Items, RetryGet(i) \/ RetryPut(i) \/ Remove(i) PROVE IInv'
  BY <1>5, RetryGetIInv, RetryPutIInv, RemoveIInv
<1>6. CASE UNCHANGED queueVars
  BY <1>6 DEF IInv, QueueTypeOK, Listed, Known, NothingIsLost, TagsFollow, Queued, queueVars
<1> QED BY <1>1, <1>2, <1>3, <1>4, <1>5, <1>6 DEF QueueNext

LEMMA QueueInvariance == QueueSpec => []IInv
  BY InitIInv, StepIInv, PTL DEF QueueSpec

\* Type correctness; in particular only what was enqueued is ever in storage,
\* although setStatus puts back what it read in another transaction.
THEOREM QueueTyping == QueueSpec => []QueueTypeOK
  BY QueueInvariance, PTL DEF IInv

\* What handleSave said is saved or queued is in the queue or in the ledger,
\* until the user deletes it: runSync deletes only what postQuickAdd was
\* answered for, in whatever order the tabs, the lost answers and the page
\* deaths come.
THEOREM Kept == QueueSpec => []NothingIsLost
  BY QueueInvariance, PTL DEF IInv

\* ... and an entry captured with trip tags leaves the queue only with them.
THEOREM KeptWithTags == QueueSpec => []TagsFollow
  BY QueueInvariance, PTL DEF IInv

---------------------------------------------------------------------------------
(* Scheduled transactions.                                                   *)
(*                                                                           *)
(* Everything rests on the schedxactions row: whoever changes it, or the     *)
(* template, holds its lock when it commits (Holding).  So what a record or  *)
(* a skip has checked under the lock stays true (Checked), the children that *)
(* a record has read in several statements are the template still (Whole),   *)
(* and two edits delete different children (Disjoint).                       *)

Holding ==
    /\ \A r \in Requests : stmt[r] \in {"locked", "children", "splits", "row"} => rowLock = r
    /\ \A r \in Requests : stmt[r] = "emptied" /\ Kind[r] = "delete" => rowLock = r

Checked ==
    /\ \A t \in recorded \cup skipped : t.date <= sx.last
    /\ \A r \in Requests : stmt[r] \in {"locked", "children", "splits"} => Open(r)

Whole == \A r \in Requests : stmt[r] \in {"children", "splits"} => seen[r] = template

Disjoint ==
    /\ gone \in [Requests -> SUBSET template]
    /\ \A q, r \in Requests : q # r => gone[q] \cap gone[r] = {}
    /\ seen = [r \in Requests |-> seen[r]]

Finite == IsFiniteSet(recorded) /\ IsFiniteSet(skipped)

Amounted == IsFiniteSet(template) /\ \A c \in template : c.value \in Int

ScheduledInv == /\ ScheduledTypeOK /\ Holding /\ Checked /\ Whole /\ Disjoint
        /\ BookedOnce /\ Finite /\ Counted /\ Amounted /\ PostedBalances

---------------------------------------------------------------------------------
LEMMA BalancedDomain ==
  ASSUME NEW am PROVE DOMAIN BalancedNumerators(am) = DOMAIN am
<1> DEFINE nums == Rounded(am)
<1>1. DOMAIN nums = DOMAIN am
  BY DEF Rounded
<1>2. PICK c : BalancedNumerators(am) = [nums EXCEPT ![c] = nums[c] - SumFunction(nums)]
  BY DEF BalancedNumerators
<1> HIDE DEF nums
<1> QED BY <1>1, <1>2

\* Math.round moves an amount by half a cent at most.
LEMMA Rounding == \A a \in Int : Round(a) \in Int /\ Abs(10 * Round(a) - a) <= 5
  BY DEF Round, Abs

LEMMA RoundedType ==
  ASSUME NEW am, IsFiniteSet(DOMAIN am), \A c \in DOMAIN am : am[c] \in Int
  PROVE  /\ DOMAIN Rounded(am) = DOMAIN am
         /\ \A c \in DOMAIN am : Rounded(am)[c] \in Int /\ Rounded(am)[c] = Round(am[c])
         /\ SumFunction(Rounded(am)) = SumFunctionOnSet(Rounded(am), DOMAIN am)
         /\ SumFunction(Rounded(am)) \in Int
<1>1. /\ DOMAIN Rounded(am) = DOMAIN am
      /\ \A c \in DOMAIN am : Rounded(am)[c] \in Int /\ Rounded(am)[c] = Round(am[c])
  BY Rounding DEF Rounded
<1>2. SumFunction(Rounded(am)) = SumFunctionOnSet(Rounded(am), DOMAIN am)
  BY <1>1 DEF SumFunction
<1> QED BY <1>1, <1>2, SumType

LEMMA BalancedType ==
  ASSUME NEW am, IsFiniteSet(DOMAIN am), \A c \in DOMAIN am : am[c] \in Int
  PROVE  \A c \in DOMAIN am : BalancedNumerators(am)[c] \in Int
<1> DEFINE nums == Rounded(am)
<1>1. PICK c : BalancedNumerators(am) = [nums EXCEPT ![c] = nums[c] - SumFunction(nums)]
  BY DEF BalancedNumerators
<1>2. /\ DOMAIN nums = DOMAIN am /\ SumFunction(nums) \in Int
      /\ \A d \in DOMAIN am : nums[d] \in Int
  BY RoundedType
<1> HIDE DEF nums
<1> QED BY <1>1, <1>2

\* balanceSplitNumerators: a split that none exceeds exists and takes what
\* the rounding of all has left.
LEMMA Balancing ==
  ASSUME NEW am, IsFiniteSet(DOMAIN am), \A c \in DOMAIN am : am[c] \in Int,
         Balanceable(am)
  PROVE  /\ SumFunction(BalancedNumerators(am)) = 0
         /\ \E a \in DOMAIN am : \A c \in DOMAIN am :
              Abs(10 * BalancedNumerators(am)[c] - am[c])
                <= IF c = a THEN 5 * (Cardinality(DOMAIN am) + 2) ELSE 5
<1> DEFINE D == DOMAIN am
           nums == Rounded(am)
           T == SumFunction(nums)
           n == Cardinality(D)
           largest(c) == c \in D /\ \A d \in D : Abs(nums[d]) <= Abs(nums[c])
           a == CHOOSE c \in D : \A d \in D : Abs(nums[d]) <= Abs(nums[c])
           out == [nums EXCEPT ![a] = nums[a] - T]
<1>1. /\ DOMAIN nums = D /\ T \in Int /\ T = SumFunctionOnSet(nums, D)
      /\ \A c \in D : nums[c] \in Int /\ nums[c] = Round(am[c])
  BY RoundedType
<1>2. a \in D
  <2> DEFINE sizes == [c \in D |-> Abs(nums[c])]
  <2>1. \A c \in D : sizes[c] \in Int /\ sizes[c] = Abs(nums[c])
    BY <1>1 DEF Abs
  <2>2. D # {} /\ IsFiniteSet(D)
    BY DEF Balanceable
  <2>3. \E c \in D : \A d \in D : sizes[d] <= sizes[c]
    <3> HIDE DEF sizes, D
    <3> QED BY <2>1, <2>2, FiniteMax
  <2>4. \E c \in D : \A d \in D : Abs(nums[d]) <= Abs(nums[c])
    <3> HIDE DEF sizes, D, nums
    <3> QED BY <2>1, <2>3
  <2> QED BY <2>4, Zenon
<1>3. BalancedNumerators(am) = out
  BY <1>1 DEF BalancedNumerators
<1>4. Abs(T) <= (n + 1) \div 2 /\ n \in Nat /\ IsFiniteSet(D)
  BY FS_CardinalityType DEF Balanceable
<1>5. \A c \in D : am[c] \in Int
  OBVIOUS
<1> HIDE DEF D, nums, T, n, a
<1>6. /\ DOMAIN out = D /\ out[a] = nums[a] - T
      /\ \A c \in D \ {a} : out[c] = nums[c]
      /\ \A c \in D : out[c] \in Int
  BY <1>1, <1>2
<1> HIDE DEF out
<1>7. SumFunction(out) = 0
  <2>1. SumFunctionOnSet(nums, D) = nums[a] + SumFunctionOnSet(nums, D \ {a})
    BY <1>1, <1>2, <1>4, SumRemove
  <2>2. SumFunctionOnSet(out, D) = out[a] + SumFunctionOnSet(out, D \ {a})
    BY <1>2, <1>4, <1>6, SumRemove
  <2>3. IsFiniteSet(D \ {a})
    BY <1>4, FS_RemoveElement
  <2>4. SumFunctionOnSet(out, D \ {a}) = SumFunctionOnSet(nums, D \ {a})
    BY <1>6, <2>3, SumEqual
  <2>5. SumFunctionOnSet(nums, D \ {a}) \in Int
    BY <1>1, <2>3, SumType
  <2>6. SumFunction(out) = SumFunctionOnSet(out, D)
    BY <1>6 DEF SumFunction
  <2> QED BY <1>1, <1>2, <1>6, <2>1, <2>2, <2>4, <2>5, <2>6
<1>8. ASSUME NEW c \in D
      PROVE  Abs(10 * out[c] - am[c]) <= IF c = a THEN 5 * (n + 2) ELSE 5
  <2>1. Abs(10 * nums[c] - am[c]) <= 5
    BY <1>1, <1>5, Rounding
  <2>2. CASE c = a
    <3>1. out[c] = nums[c] - T
      BY <1>6, <2>2
    <3>2. nums[c] \in Int /\ am[c] \in Int /\ T \in Int
      BY <1>1, <1>5
    <3> QED BY <1>4, <2>1, <2>2, <3>1, <3>2 DEF Abs
  <2>3. CASE c # a
    BY <1>6, <2>1, <2>3
  <2> QED BY <2>2, <2>3
<1> QED BY <1>2, <1>3, <1>7, <1>8 DEF D, n

LEMMA ContentsDef == ASSUME NEW r, NEW c \in Contents(r) PROVE c.def = r
  BY DEF Contents, Children

LEMMA ChildrenType ==
  ASSUME NEW def, NEW am, IsFiniteSet(DOMAIN am), \A l \in DOMAIN am : am[l] \in Int
  PROVE  IsFiniteSet(Children(def, am)) /\ \A c \in Children(def, am) : c.value \in Int
<1>1. \A c \in Children(def, am) : c.value \in Int
  BY DEF Children
<1> DEFINE child == [l \in DOMAIN am |-> [def |-> def, leg |-> l, value |-> am[l]]]
           made == {child[l] : l \in DOMAIN am}
<1>2. child \in Surjection(DOMAIN am, made)
  BY DEF Surjection
<1>3. IsFiniteSet(made)
  <2> HIDE DEF made, child
  <2> QED BY <1>2, FS_Surjection
<1> QED BY <1>1, <1>3 DEF Children

LEMMA ContentsType ==
  ASSUME NEW r \in Requests
  PROVE  IsFiniteSet(Contents(r)) /\ \A c \in Contents(r) : c.value \in Int
<1> DEFINE nums == BalancedNumerators(Amounts[r])
           am == [l \in DOMAIN nums |-> 10 * nums[l]]
<1>1. IsFiniteSet(DOMAIN Amounts[r]) /\ \A l \in DOMAIN Amounts[r] : Amounts[r][l] \in Int
  BY ScheduledAssumption
<1>2. DOMAIN nums = DOMAIN Amounts[r] /\ \A l \in DOMAIN nums : nums[l] \in Int
  BY <1>1, BalancedDomain, BalancedType
<1> HIDE DEF nums
<1>3. IsFiniteSet(DOMAIN am) /\ \A l \in DOMAIN am : am[l] \in Int
  BY <1>1, <1>2
<1> HIDE DEF am
<1>4. IsFiniteSet(Children(r, am)) /\ \A c \in Children(r, am) : c.value \in Int
  BY <1>3, ChildrenType
<1> QED BY <1>4 DEF Contents, am, nums

LEMMA ScheduledStart == ScheduledInit => ScheduledInv
<1> SUFFICES ASSUME ScheduledInit PROVE ScheduledInv
  OBVIOUS
<1>1. PICK n \in Remaining :
        sx = [alive |-> TRUE, last |-> 0, num |-> n, rem |-> n, count |-> 0]
  BY DEF ScheduledInit
<1>2. ScheduledTypeOK
  BY <1>1, ScheduledAssumption DEF ScheduledInit, ScheduledTypeOK, Children
<1>3. Finite /\ Counted
  BY <1>1, FS_EmptySet, ScheduledAssumption DEF ScheduledInit, Finite, Counted
<1>4. Holding /\ Checked /\ Whole /\ Disjoint /\ BookedOnce
  BY DEF ScheduledInit, Holding, Checked, Whole, Disjoint, BookedOnce
<1>5. Amounted
  <2>1. PICK am \in Imported : template = Children(None, am)
    BY DEF ScheduledInit
  <2>2. IsFiniteSet(DOMAIN am) /\ \A l \in DOMAIN am : am[l] \in Int
    BY ScheduledAssumption
  <2> QED BY <2>1, <2>2, ChildrenType DEF Amounted
<1>6. PostedBalances
  BY DEF ScheduledInit, PostedBalances
<1> QED BY <1>2, <1>3, <1>4, <1>5, <1>6 DEF ScheduledInv

---------------------------------------------------------------------------------
(* What the steps have in common. *)

\* A step that leaves the row, the template and what is booked alone.
LEMMA QuietStep ==
  ASSUME ScheduledInv, UNCHANGED <<sx, template, booked>>
  PROVE  BookedOnce' /\ Finite' /\ Counted' /\ Amounted' /\ PostedBalances'
  BY DEF ScheduledInv, BookedOnce, Finite, Counted, Amounted, PostedBalances, booked

LEMMA RefuseIInv == ASSUME ScheduledInv, NEW r \in Requests, Refuse(r) PROVE ScheduledInv'
<1> USE ScheduledAssumption DEF Refuse, Unlock, GoOn, booked
<1>1. ScheduledTypeOK' BY DEF ScheduledInv, ScheduledTypeOK
<1>2. Holding' BY DEF ScheduledInv, ScheduledTypeOK, Holding
<1>3. Checked' BY DEF ScheduledInv, ScheduledTypeOK, Checked, Open, AlreadyProcessed
<1>4. Whole' BY DEF ScheduledInv, ScheduledTypeOK, Whole
<1>5. Disjoint' BY DEF ScheduledInv, ScheduledTypeOK, Disjoint
<1> QED BY <1>1, <1>2, <1>3, <1>4, <1>5, QuietStep DEF ScheduledInv

\* Booking an occurrence under the lock, by a transaction or by a skip.
LEMMA NewEntry ==
  ASSUME ScheduledInv, NEW r \in Requests, Open(r), NEW x, x.by = r, x.date = Date[r]
  PROVE  /\ x \notin recorded /\ x \notin skipped
         /\ \A t \in recorded \cup skipped : t.date < x.date
<1>1. sx.last \in Nat /\ Date[r] \in Nat \ {0} /\ sx.last < Date[r]
  BY ScheduledAssumption DEF ScheduledInv, ScheduledTypeOK, Open, AlreadyProcessed
<1>2. \A t \in recorded \cup skipped : t.date \in Nat /\ t.date <= sx.last
  BY ScheduledAssumption DEF ScheduledInv, ScheduledTypeOK, Checked
<1> QED BY <1>1, <1>2

\* Of the requests that have checked an occurrence only one is past the lock.
LEMMA OneHolder ==
  ASSUME ScheduledInv, NEW r \in Requests, rowLock = r
  PROVE  \A q \in Requests \ {r} : /\ stmt[q] \notin {"locked", "children", "splits", "row"}
                                   /\ stmt[q] = "emptied" => Kind[q] # "delete"
  BY DEF ScheduledInv, Holding

LEMMA SkipIInv == ASSUME ScheduledInv, NEW r \in Requests, Skip(r) PROVE ScheduledInv'
<1> DEFINE x == [by |-> r, date |-> Date[r]]
<1>1. Open(r) /\ rowLock = r
  BY DEF Skip, Standing, ScheduledInv, Checked, Holding
<1>2. /\ x \notin skipped
      /\ \A t \in recorded \cup skipped : t.date < x.date
  BY <1>1, NewEntry
<1>3. /\ skipped' = skipped \cup {x} /\ recorded' = recorded
      /\ sx' = [alive |-> sx.alive, last |-> Date[r], num |-> sx.num,
                rem |-> IF sx.rem = -1 THEN -1 ELSE sx.rem - 1, count |-> sx.count + 0]
      /\ UNCHANGED <<template, seen>> /\ Unlock(r) /\ GoOn(r, "done")
  BY DEF Skip, Advance
<1>4. sx.rem # 0 /\ Date[r] \in Nat
  BY <1>1, ScheduledAssumption DEF Open
<1>5. ScheduledTypeOK'
  BY <1>3, <1>4, ScheduledAssumption DEF ScheduledInv, ScheduledTypeOK, Unlock, GoOn
<1>6. Holding'
  BY <1>3 DEF ScheduledInv, ScheduledTypeOK, Holding, Unlock, GoOn
<1>7. Checked'
  <2>1. \A q \in Requests : stmt'[q] \notin {"locked", "children", "splits"}
    BY <1>1, <1>3, OneHolder DEF GoOn, ScheduledInv, ScheduledTypeOK
  <2>2. \A t \in recorded' \cup skipped' : t.date <= Date[r]
    BY <1>2, <1>3, <1>4, ScheduledAssumption DEF ScheduledInv, ScheduledTypeOK
  <2> QED BY <1>3, <2>1, <2>2 DEF Checked
<1>8. Whole' /\ Disjoint'
  BY <1>3 DEF ScheduledInv, ScheduledTypeOK, Whole, Disjoint, Unlock, GoOn
<1>9. BookedOnce'
  BY <1>2, <1>3, <1>4, ScheduledAssumption DEF ScheduledInv, ScheduledTypeOK, BookedOnce
<1>10. Finite' /\ Counted'
  <2>1. IsFiniteSet(recorded) /\ IsFiniteSet(skipped)
    BY DEF ScheduledInv, Finite
  <2>2. Cardinality(recorded) \in Nat /\ Cardinality(skipped) \in Nat
    BY <2>1, FS_CardinalityType
  <2>3. IsFiniteSet(skipped \cup {x}) /\ Cardinality(skipped \cup {x}) = Cardinality(skipped) + 1
    BY <1>2, <2>1, FS_AddElement
  <2>4. Cardinality(skipped') = Cardinality(skipped) + 1 /\ Cardinality(recorded') = Cardinality(recorded)
    BY <1>3, <2>3
  <2>5. sx'.count = sx.count + 0 /\ sx'.num = sx.num
        /\ sx'.rem = IF sx.rem = -1 THEN -1 ELSE sx.rem - 1
    BY <1>3
  <2>6. /\ sx.count \in Nat /\ sx.rem \in Nat \cup {-1} /\ sx.num \in Nat \cup {-1}
        /\ sx.rem = -1 <=> sx.num = -1
    BY ScheduledAssumption DEF ScheduledInv, ScheduledTypeOK
  <2>7. Counted'
    BY <2>2, <2>4, <2>5, <2>6 DEF ScheduledInv, Counted
  <2> QED BY <1>3, <2>1, <2>3, <2>7 DEF Finite
<1>11. Amounted' /\ PostedBalances'
  BY <1>3 DEF ScheduledInv, Amounted, PostedBalances
<1> QED BY <1>5, <1>6, <1>7, <1>8, <1>9, <1>10, <1>11 DEF ScheduledInv

LEMMA PostIInv == ASSUME ScheduledInv, NEW r \in Requests, Post(r) PROVE ScheduledInv'
<1>0. CASE Refuse(r) BY <1>0, RefuseIInv
<1> SUFFICES ASSUME ~Refuse(r) PROVE ScheduledInv'
  BY <1>0
<1> DEFINE x == [by |-> r, date |-> Date[r],
                 nums |-> BalancedNumerators([c \in seen[r] |-> c.value])]
<1>1. Open(r) /\ rowLock = r
  BY DEF Post, Standing, ScheduledInv, Checked, Holding
<1>2. /\ x \notin recorded
      /\ \A t \in recorded \cup skipped : t.date < x.date
  BY <1>1, NewEntry
<1>3. /\ recorded' = recorded \cup {x} /\ skipped' = skipped
      /\ sx' = [alive |-> sx.alive, last |-> Date[r], num |-> sx.num,
                rem |-> IF sx.rem = -1 THEN -1 ELSE sx.rem - 1, count |-> sx.count + 1]
      /\ UNCHANGED <<template, seen>> /\ Unlock(r) /\ GoOn(r, "done")
  BY DEF Post, Advance
<1>4. sx.rem # 0 /\ Date[r] \in Nat /\ x.by = r /\ x.date = Date[r]
  BY <1>1, ScheduledAssumption DEF Open
<1>11. /\ SumFunction(x.nums) = 0
       /\ \E a \in DOMAIN x.nums : \A c \in DOMAIN x.nums :
            Abs(10 * x.nums[c] - c.value)
              <= IF c = a THEN 5 * (Cardinality(DOMAIN x.nums) + 2) ELSE 5
  <2> DEFINE am == [c \in seen[r] |-> c.value]
  <2>1. seen[r] = template
    BY DEF Post, Standing, ScheduledInv, Whole
  <2>2. Balanceable(am) /\ x.nums = BalancedNumerators(am)
    BY DEF Post
  <2>3. DOMAIN am = template /\ \A c \in template : am[c] = c.value
    BY <2>1
  <2>4. IsFiniteSet(DOMAIN am) /\ \A c \in DOMAIN am : am[c] \in Int
    BY <2>3 DEF ScheduledInv, Amounted
  <2> HIDE DEF am, x
  <2>5. DOMAIN x.nums = DOMAIN am
    BY <2>2, BalancedDomain
  <2>6. /\ SumFunction(x.nums) = 0
        /\ \E a \in DOMAIN am : \A c \in DOMAIN am :
             Abs(10 * x.nums[c] - am[c])
               <= IF c = a THEN 5 * (Cardinality(DOMAIN am) + 2) ELSE 5
    BY <2>2, <2>4, Balancing
  <2> QED BY <2>3, <2>5, <2>6
<1> HIDE DEF x
<1>5. ScheduledTypeOK'
  BY <1>3, <1>4, ScheduledAssumption DEF ScheduledInv, ScheduledTypeOK, Unlock, GoOn
<1>6. Holding'
  BY <1>3 DEF ScheduledInv, ScheduledTypeOK, Holding, Unlock, GoOn
<1>7. Checked'
  <2>1. \A q \in Requests : stmt'[q] \notin {"locked", "children", "splits"}
    BY <1>1, <1>3, OneHolder DEF GoOn, ScheduledInv, ScheduledTypeOK
  <2>2. \A t \in recorded' \cup skipped' : t.date <= Date[r]
    BY <1>2, <1>3, <1>4, ScheduledAssumption DEF ScheduledInv, ScheduledTypeOK
  <2> QED BY <1>3, <2>1, <2>2 DEF Checked
<1>8. Whole' /\ Disjoint'
  BY <1>3 DEF ScheduledInv, ScheduledTypeOK, Whole, Disjoint, Unlock, GoOn
<1>9. BookedOnce'
  BY <1>2, <1>3, <1>4, ScheduledAssumption DEF ScheduledInv, ScheduledTypeOK, BookedOnce
<1>10. Finite' /\ Counted'
  <2>1. IsFiniteSet(recorded) /\ IsFiniteSet(skipped)
    BY DEF ScheduledInv, Finite
  <2>2. Cardinality(recorded) \in Nat /\ Cardinality(skipped) \in Nat
    BY <2>1, FS_CardinalityType
  <2>3. IsFiniteSet(recorded \cup {x}) /\ Cardinality(recorded \cup {x}) = Cardinality(recorded) + 1
    BY <1>2, <2>1, FS_AddElement
  <2>4. Cardinality(recorded') = Cardinality(recorded) + 1 /\ Cardinality(skipped') = Cardinality(skipped)
    BY <1>3, <2>3
  <2>5. sx'.count = sx.count + 1 /\ sx'.num = sx.num
        /\ sx'.rem = IF sx.rem = -1 THEN -1 ELSE sx.rem - 1
    BY <1>3
  <2>6. /\ sx.count \in Nat /\ sx.rem \in Nat \cup {-1} /\ sx.num \in Nat \cup {-1}
        /\ sx.rem = -1 <=> sx.num = -1
    BY ScheduledAssumption DEF ScheduledInv, ScheduledTypeOK
  <2>7. Counted'
    BY <2>2, <2>4, <2>5, <2>6 DEF ScheduledInv, Counted
  <2> QED BY <1>3, <2>1, <2>3, <2>7 DEF Finite
<1>12. Amounted'
  BY <1>3 DEF ScheduledInv, Amounted
<1>13. PostedBalances'
  <2> SUFFICES ASSUME NEW t \in recorded'
               PROVE  /\ SumFunction(t.nums) = 0
                      /\ \E a \in DOMAIN t.nums : \A c \in DOMAIN t.nums :
                           Abs(10 * t.nums[c] - c.value)
                             <= IF c = a THEN 5 * (Cardinality(DOMAIN t.nums) + 2) ELSE 5
    BY DEF PostedBalances
  <2>1. CASE t = x
    BY <1>11, <2>1, Zenon
  <2>2. CASE t \in recorded
    BY <2>2 DEF ScheduledInv, PostedBalances
  <2> QED BY <1>3, <2>1, <2>2
<1> QED BY <1>5, <1>6, <1>7, <1>8, <1>9, <1>10, <1>12, <1>13 DEF ScheduledInv

LEMMA LockOccurrenceIInv == ASSUME ScheduledInv, NEW r \in Requests, LockOccurrence(r) PROVE ScheduledInv'
<1>0. CASE Refuse(r) BY <1>0, RefuseIInv
<1> SUFFICES ASSUME ~Refuse(r) PROVE ScheduledInv'
  BY <1>0
<1> USE ScheduledAssumption DEF LockOccurrence, TakeRow, Standing, GoOn, booked
<1>1. ScheduledTypeOK' BY DEF ScheduledInv, ScheduledTypeOK, Disjoint
<1>2. Holding' BY DEF ScheduledInv, ScheduledTypeOK, Holding
<1>3. Checked' BY DEF ScheduledInv, ScheduledTypeOK, Checked, Open, AlreadyProcessed
<1>4. Whole' BY DEF ScheduledInv, ScheduledTypeOK, Whole, Disjoint
<1>5. Disjoint' BY DEF ScheduledInv, ScheduledTypeOK, Disjoint
<1>6. UNCHANGED <<sx, template, booked>> OBVIOUS
<1> QED BY <1>1, <1>2, <1>3, <1>4, <1>5, <1>6, QuietStep DEF ScheduledInv

LEMMA ReadChildrenIInv == ASSUME ScheduledInv, NEW r \in Requests, ReadChildren(r) PROVE ScheduledInv'
<1> USE ScheduledAssumption DEF ReadChildren, locks, Standing, GoOn, booked
<1>1. ScheduledTypeOK' BY DEF ScheduledInv, ScheduledTypeOK, Disjoint
<1>2. Holding' BY DEF ScheduledInv, ScheduledTypeOK, Holding
<1>3. Checked' BY DEF ScheduledInv, ScheduledTypeOK, Checked, Open, AlreadyProcessed
<1>4. Whole' BY DEF ScheduledInv, ScheduledTypeOK, Whole, Disjoint
<1>5. Disjoint' BY DEF ScheduledInv, ScheduledTypeOK, Disjoint
<1>6. UNCHANGED <<sx, template, booked>> OBVIOUS
<1> QED BY <1>1, <1>2, <1>3, <1>4, <1>5, <1>6, QuietStep DEF ScheduledInv

LEMMA ReadSplitsIInv == ASSUME ScheduledInv, NEW r \in Requests, ReadSplits(r) PROVE ScheduledInv'
<1> USE ScheduledAssumption DEF ReadSplits, locks, Standing, GoOn, booked
<1>1. ScheduledTypeOK' BY DEF ScheduledInv, ScheduledTypeOK, Disjoint
<1>2. Holding' BY DEF ScheduledInv, ScheduledTypeOK, Holding
<1>3. Checked' BY DEF ScheduledInv, ScheduledTypeOK, Checked, Open, AlreadyProcessed
<1>4. Whole' BY DEF ScheduledInv, ScheduledTypeOK, Whole, Disjoint
<1>5. Disjoint' BY DEF ScheduledInv, ScheduledTypeOK, Disjoint
<1>6. UNCHANGED <<sx, template, booked>> OBVIOUS
<1> QED BY <1>1, <1>2, <1>3, <1>4, <1>5, <1>6, QuietStep DEF ScheduledInv

LEMMA ReadTemplateIInv == ASSUME ScheduledInv, NEW r \in Requests, ReadTemplate(r) PROVE ScheduledInv'
<1>0. CASE Refuse(r) BY <1>0, RefuseIInv
<1> SUFFICES ASSUME ~Refuse(r) PROVE ScheduledInv'
  BY <1>0
<1> USE ScheduledAssumption DEF ReadTemplate, locks, Standing, GoOn, booked
<1>1. ScheduledTypeOK' BY DEF ScheduledInv, ScheduledTypeOK, Disjoint
<1>2. Holding' BY DEF ScheduledInv, ScheduledTypeOK, Holding
<1>3. Checked' BY DEF ScheduledInv, ScheduledTypeOK, Checked, Open, AlreadyProcessed
<1>4. Whole' BY DEF ScheduledInv, ScheduledTypeOK, Whole, Disjoint
<1>5. Disjoint' BY DEF ScheduledInv, ScheduledTypeOK, Disjoint
<1>6. UNCHANGED <<sx, template, booked>> OBVIOUS
<1> QED BY <1>1, <1>2, <1>3, <1>4, <1>5, <1>6, QuietStep DEF ScheduledInv

LEMMA DeleteChildrenIInv == ASSUME ScheduledInv, NEW r \in Requests, DeleteChildren(r) PROVE ScheduledInv'
<1> USE ScheduledAssumption DEF DeleteChildren, Standing, GoOn, booked
<1>1. ScheduledTypeOK' BY DEF ScheduledInv, ScheduledTypeOK, Disjoint
<1>2. Holding' BY DEF ScheduledInv, ScheduledTypeOK, Holding
<1>3. Checked' BY DEF ScheduledInv, ScheduledTypeOK, Checked, Open, AlreadyProcessed
<1>4. Whole' BY DEF ScheduledInv, ScheduledTypeOK, Whole, Disjoint
<1>5. Disjoint' BY DEF ScheduledInv, ScheduledTypeOK, Disjoint
<1>6. UNCHANGED <<sx, template, booked>> OBVIOUS
<1> QED BY <1>1, <1>2, <1>3, <1>4, <1>5, <1>6, QuietStep DEF ScheduledInv

LEMMA RenameRootIInv == ASSUME ScheduledInv, NEW r \in Requests, RenameRoot(r) PROVE ScheduledInv'
<1>0. CASE Refuse(r) BY <1>0, RefuseIInv
<1> SUFFICES ASSUME ~Refuse(r) PROVE ScheduledInv'
  BY <1>0
<1> USE ScheduledAssumption DEF RenameRoot, Standing, GoOn, booked
<1>1. ScheduledTypeOK' BY DEF ScheduledInv, ScheduledTypeOK, Disjoint
<1>2. Holding' BY DEF ScheduledInv, ScheduledTypeOK, Holding
<1>3. Checked' BY DEF ScheduledInv, ScheduledTypeOK, Checked, Open, AlreadyProcessed
<1>4. Whole' BY DEF ScheduledInv, ScheduledTypeOK, Whole, Disjoint
<1>5. Disjoint' BY DEF ScheduledInv, ScheduledTypeOK, Disjoint
<1>6. UNCHANGED <<sx, template, booked>> OBVIOUS
<1> QED BY <1>1, <1>2, <1>3, <1>4, <1>5, <1>6, QuietStep DEF ScheduledInv

LEMMA SaveRowIInv == ASSUME ScheduledInv, NEW r \in Requests, SaveRow(r) PROVE ScheduledInv'
<1> USE ScheduledAssumption DEF SaveRow, TakeRow, Standing, GoOn, booked
<1>1. ScheduledTypeOK' BY DEF ScheduledInv, ScheduledTypeOK, Disjoint
<1>2. Holding' BY DEF ScheduledInv, ScheduledTypeOK, Holding
<1>3. Checked' BY DEF ScheduledInv, ScheduledTypeOK, Checked, Open, AlreadyProcessed
<1>4. Whole' BY DEF ScheduledInv, ScheduledTypeOK, Whole, Disjoint
<1>5. Disjoint' BY DEF ScheduledInv, ScheduledTypeOK, Disjoint
<1>6. UNCHANGED <<sx, template, booked>> OBVIOUS
<1> QED BY <1>1, <1>2, <1>3, <1>4, <1>5, <1>6, QuietStep DEF ScheduledInv

LEMMA DeleteRowIInv == ASSUME ScheduledInv, NEW r \in Requests, DeleteRow(r) PROVE ScheduledInv'
<1>0. CASE Refuse(r) BY <1>0, RefuseIInv
<1> SUFFICES ASSUME ~Refuse(r) PROVE ScheduledInv'
  BY <1>0
<1> USE ScheduledAssumption DEF DeleteRow, TakeRow, Standing, GoOn, booked
<1>1. ScheduledTypeOK' BY DEF ScheduledInv, ScheduledTypeOK, Disjoint
<1>2. Holding' BY DEF ScheduledInv, ScheduledTypeOK, Holding
<1>3. Checked' BY DEF ScheduledInv, ScheduledTypeOK, Checked, Open, AlreadyProcessed
<1>4. Whole' BY DEF ScheduledInv, ScheduledTypeOK, Whole, Disjoint
<1>5. Disjoint' BY DEF ScheduledInv, ScheduledTypeOK, Disjoint
<1>6. UNCHANGED <<sx, template, booked>> OBVIOUS
<1> QED BY <1>1, <1>2, <1>3, <1>4, <1>5, <1>6, QuietStep DEF ScheduledInv

LEMMA CommitUpdateIInv == ASSUME ScheduledInv, NEW r \in Requests, CommitUpdate(r) PROVE ScheduledInv'
<1> USE ScheduledAssumption DEF CommitUpdate, Standing, GoOn, Unlock, booked
<1>1. rowLock = r
  BY DEF ScheduledInv, Holding
<1>2. \A q \in Requests : stmt'[q] \notin {"locked", "children", "splits"}
  BY <1>1, OneHolder DEF ScheduledInv, ScheduledTypeOK
<1>3. Disjoint'
  BY DEF ScheduledInv, ScheduledTypeOK, Disjoint
<1>4. ScheduledTypeOK'
  BY <1>3, ContentsDef DEF ScheduledInv, ScheduledTypeOK, Disjoint
<1>5. Holding'
  BY DEF ScheduledInv, ScheduledTypeOK, Holding
<1>6. Checked' /\ Whole'
  BY <1>2 DEF ScheduledInv, Checked, Whole
<1>7. BookedOnce' /\ Finite' /\ Counted' /\ PostedBalances'
  BY DEF ScheduledInv, BookedOnce, Finite, Counted, PostedBalances
<1>8. Amounted'
  <2>1. IsFiniteSet(template \ gone[r]) /\ IsFiniteSet(Contents(r))
    BY FS_Difference, ContentsType DEF ScheduledInv, Amounted
  <2>2. IsFiniteSet((template \ gone[r]) \cup Contents(r))
    BY <2>1, FS_Union
  <2> QED BY <2>2, ContentsType DEF ScheduledInv, Amounted
<1> QED BY <1>3, <1>4, <1>5, <1>6, <1>7, <1>8 DEF ScheduledInv

LEMMA CommitDeleteIInv == ASSUME ScheduledInv, NEW r \in Requests, CommitDelete(r) PROVE ScheduledInv'
<1> USE ScheduledAssumption DEF CommitDelete, Standing, GoOn, Unlock, booked
<1>1. rowLock = r
  BY DEF ScheduledInv, Holding
<1>2. \A q \in Requests : stmt'[q] \notin {"locked", "children", "splits"}
  BY <1>1, OneHolder DEF ScheduledInv, ScheduledTypeOK
<1>3. Disjoint'
  BY DEF ScheduledInv, ScheduledTypeOK, Disjoint
<1>4. sx' = [alive |-> FALSE, last |-> sx.last, num |-> sx.num, rem |-> sx.rem,
             count |-> sx.count]
  BY DEF ScheduledInv, ScheduledTypeOK
<1>5. ScheduledTypeOK'
  BY <1>3, <1>4 DEF ScheduledInv, ScheduledTypeOK, Disjoint
<1>6. Holding'
  BY DEF ScheduledInv, ScheduledTypeOK, Holding
<1>7. Checked' /\ Whole'
  BY <1>2, <1>4 DEF ScheduledInv, Checked, Whole
<1>8. BookedOnce' /\ Finite' /\ Counted' /\ PostedBalances'
  BY <1>4 DEF ScheduledInv, BookedOnce, Finite, Counted, PostedBalances
<1>9. Amounted'
  BY FS_Difference DEF ScheduledInv, Amounted
<1> QED BY <1>3, <1>5, <1>6, <1>7, <1>8, <1>9 DEF ScheduledInv

LEMMA AbortIInv == ASSUME ScheduledInv, NEW r \in Requests, Abort(r) PROVE ScheduledInv'
  BY RefuseIInv DEF Abort

LEMMA ScheduledStep == ScheduledInv /\ [ScheduledNext]_scheduledVars => ScheduledInv'
<1> SUFFICES ASSUME ScheduledInv, [ScheduledNext]_scheduledVars PROVE ScheduledInv'
  OBVIOUS
<1>1. ASSUME NEW r \in Requests, Occurrence(r) PROVE ScheduledInv'
  BY <1>1, LockOccurrenceIInv, SkipIInv, ReadChildrenIInv, ReadSplitsIInv, PostIInv
     DEF Occurrence
<1>2. ASSUME NEW r \in Requests, Edit(r) PROVE ScheduledInv'
  BY <1>2, ReadTemplateIInv, DeleteChildrenIInv, RenameRootIInv, SaveRowIInv,
     CommitUpdateIInv, DeleteRowIInv, CommitDeleteIInv DEF Edit
<1>3. ASSUME NEW r \in Requests, Abort(r) PROVE ScheduledInv'
  BY <1>3, AbortIInv
<1>4. CASE UNCHANGED scheduledVars
  BY <1>4 DEF scheduledVars, booked, ScheduledInv, ScheduledTypeOK, Holding, Checked, Whole, Disjoint, BookedOnce,
     Finite, Counted, Open, AlreadyProcessed, Amounted, PostedBalances
<1> QED BY <1>1, <1>2, <1>3, <1>4 DEF ScheduledNext

LEMMA Invariance == ScheduledSpec => []ScheduledInv
  BY ScheduledStart, ScheduledStep, PTL DEF ScheduledSpec

---------------------------------------------------------------------------------
\* Type correctness: rem_occur never falls below 0 unless it means no limit,
\* and what an edit deletes is in the template until it commits.
THEOREM ScheduledTyping == ScheduledSpec => []ScheduledTypeOK
  BY Invariance, PTL DEF ScheduledInv

\* alreadyProcessed, evaluated under FOR UPDATE: an occurrence is recorded or
\* skipped by one request at most.
THEOREM NoDoubleBooking == ScheduledSpec => []BookedOnce
  BY Invariance, PTL DEF ScheduledInv

\* rem_occur and instance_count are those of what was recorded and skipped.
THEOREM Counting == ScheduledSpec => []Counted
  BY Invariance, PTL DEF ScheduledInv

\* balanceSplitNumerators, with what executeOccurrence gives it: whatever the
\* template and however many its legs, a posted transaction sums to zero, each
\* split but one is its leg rounded to the cent, and that one is off by the
\* half cents of all.
THEOREM Balanced == ScheduledSpec => []PostedBalances
  BY Invariance, PTL DEF ScheduledInv

\* executeOccurrence reads the template in several statements, without locking
\* it; since an update writes the schedxactions row before it commits, what is
\* posted is the whole template nevertheless.
THEOREM WholeTemplate == ScheduledSpec => PostsTheTemplate
<1> DEFINE Posts == \A t \in recorded' \ recorded : DOMAIN t.nums = template
<1>1. ScheduledInv /\ [ScheduledNext]_scheduledVars => Posts
  <2> SUFFICES ASSUME ScheduledInv, [ScheduledNext]_scheduledVars PROVE Posts
    OBVIOUS
  <2>1. ASSUME NEW r \in Requests, Post(r) PROVE Posts
    <3>1. CASE Refuse(r) BY <3>1 DEF Refuse, booked
    <3>2. CASE ~Refuse(r)
      <4> DEFINE am == [c \in seen[r] |-> c.value]
      <4>1. seen[r] = template
        BY <2>1 DEF Post, Standing, ScheduledInv, Whole
      <4>2. DOMAIN BalancedNumerators(am) = template
        BY <4>1, BalancedDomain
      <4>3. recorded' = recorded \cup {[by |-> r, date |-> Date[r],
                                    nums |-> BalancedNumerators(am)]}
        BY <2>1, <3>2 DEF Post
      <4> HIDE DEF am
      <4> QED BY <4>2, <4>3
    <3> QED BY <3>1, <3>2
  <2>2. ASSUME NEW r \in Requests, Occurrence(r), ~Post(r) PROVE recorded' = recorded
    BY <2>2 DEF Occurrence, LockOccurrence, Skip, ReadChildren, ReadSplits, Refuse, booked
  <2>3. ASSUME NEW r \in Requests, Edit(r) \/ Abort(r) PROVE recorded' = recorded
    BY <2>3 DEF Edit, Abort, ReadTemplate, DeleteChildren, RenameRoot, SaveRow,
       CommitUpdate, DeleteRow, CommitDelete, Refuse, booked
  <2>4. CASE UNCHANGED scheduledVars BY <2>4 DEF scheduledVars, booked
  <2> QED BY <2>1, <2>2, <2>3, <2>4 DEF ScheduledNext
<1>2. Posts => [Posts]_scheduledVars
  OBVIOUS
<1> QED BY <1>1, Invariance, PTL DEF ScheduledSpec, PostsTheTemplate
-----------------------------------------------------------------------------
=================================================================================
