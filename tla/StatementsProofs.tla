------------------------------ MODULE StatementsProofs ------------------------------
(***************************************************************************)
(* Proofs about StatementIngest and StatementFinalize, for any number of   *)
(* executions, requests, statements and lines: a parsed statement has its  *)
(* lines, an attempt at recovery is one extraction, each added line is     *)
(* booked once, the matcher is exact, and a statement that ties out leaves *)
(* the account at its closing balance.                                     *)
(***************************************************************************)
EXTENDS StatementIngest, StatementFinalize, Sums

-----------------------------------------------------------------------------
(* Ingest and recovery of a statement *)

\* What a request remembers, by its kind.
LEMMA RequestIs ==
  ASSUME NEW x \in Requests
  PROVE  /\ x.kind \in {"recover", "recovering"} =>
              x.attempt \in 1..MaxAttempts /\ x = [kind |-> x.kind, attempt |-> x.attempt]
         /\ x.kind = "reparse" => x.attempt \in 0..MaxAttempts
         /\ x.kind = "assign" => x.status \in Statuses
BY DEF Requests, Idle, Answered, Attempts

\* The values that a request's memory is given.
LEMMA RequestMay ==
  /\ Idle \in Requests /\ Answered \in Requests
  /\ Idle.kind = "idle" /\ Answered.kind = "answered"
  /\ \A k \in {"recover", "recovering"}, a \in 1..MaxAttempts :
       [kind |-> k, attempt |-> a] \in Requests
  /\ \A a \in 0..MaxAttempts : [kind |-> "reparse", attempt |-> a] \in Requests
  /\ \A s \in Statuses : [kind |-> "assign", status |-> s] \in Requests
BY DEF Requests, Idle, Answered, Attempts

\* The data that a queued job is given.
LEMMA JobMay ==
  ASSUME NEW a \in 0..MaxAttempts
  PROVE  /\ ByUser(a) \in Jobs /\ ~ByUser(a).auto
         /\ ByRecovery(a) \in Jobs /\ ByRecovery(a).auto /\ ByRecovery(a).attempt = a
<1>1. [auto |-> FALSE, attempt |-> a] \in [auto : BOOLEAN, attempt : 0..MaxAttempts]
  BY Zenon
<1>2. [auto |-> TRUE, attempt |-> a] \in [auto : BOOLEAN, attempt : 0..MaxAttempts]
  BY Zenon
<1>. QED  BY <1>1, <1>2 DEF ByUser, ByRecovery, Jobs, Attempts

\* The batch row keeps its type, whatever is written to it.
LEMMA BatchTyped ==
  ASSUME TypeOK,
         \/ \E s \in Statuses : SetStatus(s)
         \/ \E s \in Statuses, a \in 0..MaxAttempts, known \in BOOLEAN :
              SetError(s, a, known)
         \/ UNCHANGED batch
  PROVE  /\ status' \in Statuses /\ marker' \in Attempts
         /\ due' \in BOOLEAN /\ age' \in 0..2 /\ closing' \in BOOLEAN
<1>. USE IngestAssumption DEF TypeOK, Attempts
<1>1. ASSUME NEW s \in Statuses, SetStatus(s)
      PROVE  /\ status' \in Statuses /\ marker' \in 0..MaxAttempts
             /\ due' \in BOOLEAN /\ age' \in 0..2 /\ closing' \in BOOLEAN
  BY <1>1 DEF SetStatus, batch
<1>2. ASSUME NEW s \in Statuses, NEW a \in 0..MaxAttempts, NEW known \in BOOLEAN,
             SetError(s, a, known)
      PROVE  /\ status' \in Statuses /\ marker' \in 0..MaxAttempts
             /\ due' \in BOOLEAN /\ age' \in 0..2 /\ closing' \in BOOLEAN
  <2>1. CASE status = "gone"
    BY <1>2, <2>1 DEF SetError, batch
  <2>2. CASE status # "gone"
    <3>1. due' = (a \in {0, MaxAttempts})
      BY <1>2, <2>2 DEF SetError
    <3>2. CASE a \in {0, MaxAttempts}
      BY <1>2, <2>2, <3>1, <3>2 DEF SetError
    <3>3. CASE a \notin {0, MaxAttempts}
      BY <1>2, <2>2, <3>1, <3>3 DEF SetError
    <3>. QED  BY <3>2, <3>3
  <2>. QED  BY <2>1, <2>2
<1>3. CASE UNCHANGED batch
  BY <1>3 DEF batch
<1>. QED  BY <1>1, <1>2, <1>3

\* A step of run r, as far as the invariant goes: its place, its snapshot, its lines
\* and the batch row change.
LEMMA RunSteps ==
  ASSUME IngestInv, NEW r \in Runs, Step(r)
  PROVE  IngestInv'
<1>. USE IngestAssumption DEF IngestInv
<1>0. UNCHANGED <<job, kept, req, crashes>>
  BY DEF Step, Load, StartParsing, BeginReplace, DeleteLines,
     InsertLines, SetParsed, Fails, RecordError, ReadOutcome,
     WriteMarker, queue
<1>1. /\ pc' \in [Runs -> Places] /\ pc[r] \notin {"unused", "done"}
      /\ \A s \in Runs \ {r} : pc'[s] = pc[s]
  BY DEF Step, Load, StartParsing, BeginReplace, DeleteLines,
     InsertLines, SetParsed, Fails, RecordError, ReadOutcome,
     WriteMarker, Goto, TypeOK, Places
<1>2. snap' \in [Runs -> SUBSET Runs] /\ lines' \subseteq Runs
  BY DEF Step, Load, StartParsing, BeginReplace, DeleteLines,
     InsertLines, SetParsed, Fails, RecordError, ReadOutcome,
     WriteMarker, TypeOK
<1>3. /\ status' \in Statuses /\ marker' \in Attempts
      /\ due' \in BOOLEAN /\ age' \in 0..2 /\ closing' \in BOOLEAN
  <2>1. {"parsing", "parsed", "error"} \subseteq Statuses /\ 0 \in 0..MaxAttempts
        /\ closing \in BOOLEAN /\ job[r].attempt \in 0..MaxAttempts
    BY DEF Statuses, TypeOK, Jobs, Attempts
  <2>2. \/ \E s \in Statuses : SetStatus(s)
        \/ \E s \in Statuses, a \in 0..MaxAttempts, known \in BOOLEAN :
             SetError(s, a, known)
        \/ UNCHANGED batch
    BY <2>1 DEF Step, Load, StartParsing, BeginReplace, DeleteLines,
     InsertLines, SetParsed, Fails, RecordError, ReadOutcome,
     WriteMarker
  <2>. QED  BY <2>2, BatchTyped
<1>4. TypeOK'
  BY <1>0, <1>1, <1>2, <1>3 DEF TypeOK
<1>5. JobsAreKept' /\ OneRunPerAttempt'
  BY <1>0, <1>1 DEF JobsAreKept, OneRunPerAttempt, Unfinished
<1>6. LinesFirst'
  <2>. USE DEF LinesFirst, NobodySaysParsed, TypeOK
  <2>1. CASE InsertLines(r)
    BY <2>1 DEF InsertLines
  <2>2. CASE SetParsed(r)
    BY <2>2 DEF SetParsed, SetError, Goto, batch
  <2>3. CASE Load(r) \/ BeginReplace(r) \/ DeleteLines(r) \/ Fails(r)
             \/ ReadOutcome(r)
    BY <1>0, <1>1, <2>3 DEF Load, BeginReplace, DeleteLines, Fails,
       ReadOutcome, Goto, batch
  <2>4. CASE StartParsing(r)
    BY <1>0, <2>4 DEF StartParsing, SetStatus, Goto, batch
  <2>5. CASE RecordError(r) \/ WriteMarker(r)
    BY <1>0, <2>5 DEF RecordError, WriteMarker, SetError, Goto, batch
  <2>. QED  BY <2>1, <2>2, <2>3, <2>4, <2>5 DEF Step
<1>. QED  BY <1>4, <1>5, <1>6

\* A process that dies leaves its job to another run, if to any.
LEMMA CrashSteps ==
  ASSUME IngestInv, NEW r \in Runs, Crash(r)
  PROVE  IngestInv'
<1>. USE IngestAssumption DEF IngestInv
<1>0. UNCHANGED <<status, marker, due, age, closing, lines, kept, req>>
      /\ crashes' \in 0..MaxCrashes /\ snap' \in [Runs -> SUBSET Runs]
      /\ pc[r] \notin {"unused", "queued", "done"}
  BY DEF Crash, batch, TypeOK
<1>1. CASE Goto(r, "done") /\ UNCHANGED job
  <2>1. pc' \in [Runs -> Places] /\ pc'[r] = "done" /\ \A s \in Runs \ {r} : pc'[s] = pc[s]
    BY <1>1 DEF Goto, TypeOK, Places
  <2>2. TypeOK'
    BY <1>0, <1>1, <2>1 DEF TypeOK
  <2>3. JobsAreKept' /\ OneRunPerAttempt'
    BY <1>0, <1>1, <2>1 DEF JobsAreKept, OneRunPerAttempt, Unfinished
  <2>4. LinesFirst'
    BY <1>0, <2>1 DEF LinesFirst, NobodySaysParsed
  <2>. QED  BY <2>2, <2>3, <2>4
<1>2. ASSUME NEW s \in Runs, pc[s] = "unused",
             pc' = [pc EXCEPT ![r] = "done", ![s] = "queued"], job' = [job EXCEPT ![s] = job[r]]
      PROVE  IngestInv'
  <2>1. /\ pc' \in [Runs -> Places] /\ pc'[r] = "done" /\ pc'[s] = "queued"
        /\ \A p \in Runs \ {r, s} : pc'[p] = pc[p]
        /\ job' \in [Runs -> Jobs] /\ job'[s] = job[r] /\ \A p \in Runs \ {s} : job'[p] = job[p]
    BY <1>0, <1>2 DEF TypeOK, Places
  <2>2. TypeOK'
    BY <1>0, <2>1 DEF TypeOK
  <2>3. JobsAreKept' /\ OneRunPerAttempt'
    BY <1>0, <2>1 DEF JobsAreKept, OneRunPerAttempt, Unfinished
  <2>4. LinesFirst'
    BY <1>0, <2>1 DEF LinesFirst, NobodySaysParsed
  <2>. QED  BY <2>2, <2>3, <2>4
<1>. QED  BY <1>1, <1>2 DEF Crash

\* A step of a request: the list that recovers, the re-parse, the assignment.
LEMMA RequestSteps ==
  ASSUME IngestInv, NEW q \in Callers,
         \/ Recover(q) \/ AskReparse(q) \/ Reparse(q)
         \/ AskAssign(q) \/ Assign(q)
  PROVE  IngestInv'
<1>. USE IngestAssumption DEF IngestInv
<1>0. req[q] \in Requests /\ 0 \in 0..MaxAttempts /\ marker \in 0..MaxAttempts
  BY DEF TypeOK, Attempts
\* The request remembers m, which is no assignment of a parsed batch unless the
\* batch is one.
<1>1. ASSUME NEW m \in Requests, Becomes(q, m),
             m.kind = "assign" => m.status = status /\ m.status # "reconciled"
      PROVE  /\ req' \in [Callers -> Requests]
             /\ NobodySaysParsed => \A p \in Callers : req'[p].kind = "assign" =>
                   req'[p].status \notin {"parsed", "reconciled"}
  BY <1>1 DEF Becomes, TypeOK, NobodySaysParsed
\* The runs and the queue stay as they are.
<1>2. ASSUME NEW m \in Requests, Becomes(q, m), m.kind # "assign",
             UNCHANGED <<lines, pc, snap, job, kept, crashes>>,
             \/ UNCHANGED batch
             \/ \E a \in 0..MaxAttempts : SetError("error", a, closing)
      PROVE  IngestInv'
  <2>1. "error" \in Statuses /\ closing \in BOOLEAN
    BY DEF TypeOK, Statuses
  <2>2. TypeOK'
    BY <1>1, <1>2, <2>1, BatchTyped DEF TypeOK
  <2>3. JobsAreKept' /\ OneRunPerAttempt'
    BY <1>2 DEF JobsAreKept, OneRunPerAttempt, Unfinished
  <2>4. LinesFirst'
    BY <1>1, <1>2 DEF LinesFirst, NobodySaysParsed, SetError, batch
  <2>. QED  BY <2>2, <2>3, <2>4
<1>3. CASE ListBatches(q)
  <2>1. NextAttempt \in 1..MaxAttempts
    BY <1>3 DEF ListBatches, NextAttempt, TypeOK, Attempts
  <2>2. [kind |-> "recover", attempt |-> NextAttempt] \in Requests
    BY <2>1, RequestMay
  <2>. QED  BY <1>2, <1>3, <2>2 DEF ListBatches, queue
<1>4. CASE EnqueueRecovery(q)
  <2>. DEFINE a == req[q].attempt
              m == [kind |-> "recovering", attempt |-> a]
  <2>1. a \in 1..MaxAttempts /\ req[q] = [kind |-> "recover", attempt |-> a]
    BY <1>0, <1>4, RequestIs DEF EnqueueRecovery
  <2>2. m \in Requests /\ m.kind # "assign"
    BY <2>1, RequestMay
  <2>3. [req[q] EXCEPT !.kind = "recovering"] = m
    BY <2>1
  <2>4. /\ Becomes(q, m) /\ kept' = kept \cup {a}
        /\ UNCHANGED <<status, marker, due, age, closing, lines, snap, crashes>>
    BY <1>4, <2>3 DEF EnqueueRecovery, batch
  <2>. HIDE DEF a, m
  <2>6. CASE UNCHANGED <<pc, job>>
    <3>1. TypeOK'
      BY <1>1, <2>1, <2>2, <2>4, <2>6 DEF TypeOK
    <3>2. JobsAreKept' /\ OneRunPerAttempt'
      BY <2>4, <2>6 DEF JobsAreKept, OneRunPerAttempt, Unfinished
    <3>3. LinesFirst'
      BY <1>1, <2>2, <2>4, <2>6 DEF LinesFirst, NobodySaysParsed
    <3>. QED  BY <3>1, <3>2, <3>3
  <2>7. ASSUME NEW r \in Runs, pc[r] = "unused", a \notin kept, Goto(r, "queued"),
               job' = [job EXCEPT ![r] = ByRecovery(a)]
        PROVE  IngestInv'
    <3>1. /\ pc' \in [Runs -> Places] /\ pc'[r] = "queued"
          /\ \A s \in Runs \ {r} : pc'[s] = pc[s]
      BY <2>7 DEF Goto, TypeOK, Places
    <3>2. /\ job' \in [Runs -> Jobs] /\ job'[r].attempt = a
          /\ \A s \in Runs \ {r} : job'[s] = job[s]
      BY <2>1, <2>7, JobMay DEF TypeOK
    <3>3. TypeOK'
      BY <1>1, <2>1, <2>2, <2>4, <3>1, <3>2 DEF TypeOK
    \* A run of this attempt that is not finished would have kept its job's id.
    <3>4. JobsAreKept' /\ OneRunPerAttempt'
      BY <2>4, <2>7, <3>1, <3>2 DEF JobsAreKept, OneRunPerAttempt, Unfinished
    <3>5. LinesFirst'
      BY <1>1, <2>2, <2>4, <3>1 DEF LinesFirst, NobodySaysParsed
    <3>. QED  BY <3>3, <3>4, <3>5
  <2>. QED  BY <1>4, <2>6, <2>7 DEF EnqueueRecovery, Unused, a
<1>5. CASE MarkScheduled(q)
  <2>1. req[q].attempt \in 1..MaxAttempts
    BY <1>0, <1>5, RequestIs DEF MarkScheduled
  <2>. QED  BY <1>2, <1>5, <2>1, RequestMay DEF MarkScheduled, queue
<1>6. CASE AskReparse(q)
  <2>1. [kind |-> "reparse", attempt |-> marker] \in Requests
    BY <1>0, RequestMay
  <2>. QED  BY <1>2, <1>6, <2>1 DEF AskReparse, queue
<1>7. CASE Reparse(q)
  <2>1. PICK S \in SUBSET Unused :
          /\ pc' = [r \in Runs |-> IF r \in S THEN "queued" ELSE pc[r]]
          /\ job' = [r \in Runs |-> IF r \in S THEN ByUser(req[q].attempt) ELSE job[r]]
    BY <1>7 DEF Reparse
  <2>2. /\ Becomes(q, Answered)
        /\ UNCHANGED <<status, marker, due, age, closing, lines, snap, kept, crashes>>
    BY <1>7 DEF Reparse, batch
  <2>3. ByUser(req[q].attempt) \in Jobs /\ ~ByUser(req[q].attempt).auto
    BY <1>0, <1>7, RequestIs, JobMay DEF Reparse
  <2>4. pc' \in [Runs -> Places] /\ job' \in [Runs -> Jobs]
    BY <2>1, <2>3 DEF TypeOK, Places
  <2>5. TypeOK'
    BY <1>1, <2>2, <2>4, RequestMay DEF TypeOK
  <2>6. JobsAreKept' /\ OneRunPerAttempt'
    BY <2>1, <2>2, <2>3 DEF JobsAreKept, OneRunPerAttempt, Unfinished
  <2>7. LinesFirst'
    BY <1>1, <2>1, <2>2, RequestMay DEF LinesFirst, NobodySaysParsed
  <2>. QED  BY <2>5, <2>6, <2>7
<1>8. CASE AskAssign(q)
  <2>. DEFINE m == [kind |-> "assign", status |-> status]
  <2>1. m \in Requests /\ m.kind = "assign" /\ m.status = status
    BY RequestMay DEF TypeOK
  <2>2. Becomes(q, m) /\ status # "reconciled"
        /\ UNCHANGED <<status, marker, due, age, closing, lines, pc, snap, job, kept, crashes>>
    BY <1>8 DEF AskAssign, batch, queue
  <2>. HIDE DEF m
  <2>3. TypeOK'
    BY <1>1, <2>1, <2>2 DEF TypeOK
  <2>4. JobsAreKept' /\ OneRunPerAttempt'
    BY <2>2 DEF JobsAreKept, OneRunPerAttempt, Unfinished
  <2>5. LinesFirst'
    BY <1>1, <2>1, <2>2 DEF LinesFirst, NobodySaysParsed
  <2>. QED  BY <2>3, <2>4, <2>5
<1>9. CASE Assign(q)
  <2>1. /\ Becomes(q, Answered) /\ SetStatus(req[q].status)
        /\ req[q].kind = "assign" /\ req[q].status \in Statuses
        /\ UNCHANGED <<lines, pc, snap, job, kept, crashes>>
    BY <1>0, <1>9, RequestIs DEF Assign, queue
  <2>2. TypeOK'
    BY <1>1, <2>1, BatchTyped, RequestMay DEF TypeOK
  <2>3. JobsAreKept' /\ OneRunPerAttempt'
    BY <2>1 DEF JobsAreKept, OneRunPerAttempt, Unfinished
  <2>4. LinesFirst'
    BY <1>1, <2>1, RequestMay
    DEF LinesFirst, NobodySaysParsed, SetStatus, batch
  <2>. QED  BY <2>2, <2>3, <2>4
<1>. QED  BY <1>3, <1>4, <1>5, <1>6, <1>7, <1>8, <1>9 DEF Recover

\* Time, the queue, a finalize and a deletion keep it, too.
LEMMA IngestStep == IngestInv /\ [Next]_vars => IngestInv'
<1>. SUFFICES ASSUME IngestInv, [Next]_vars PROVE IngestInv'
  OBVIOUS
<1>. USE IngestAssumption
<1>1. ASSUME NEW a \in 1..MaxAttempts, ForgetJob(a) PROVE IngestInv'
  <2>1. /\ kept' = kept \ {a} /\ \A r \in Runs : job[r] = ByRecovery(a) => pc[r] = "done"
        /\ UNCHANGED <<status, marker, due, age, closing, lines, pc, snap, job, req, crashes>>
    BY <1>1 DEF ForgetJob, batch
  <2>2. \A r \in Runs : job[r].auto /\ job[r].attempt = a => job[r] = ByRecovery(a)
    BY DEF IngestInv, TypeOK, Jobs, ByRecovery
  <2>. QED  BY <2>1, <2>2 DEF IngestInv, TypeOK, LinesFirst,
      NobodySaysParsed, JobsAreKept, OneRunPerAttempt, Unfinished
<1>2. CASE TimePasses
  <2>1. /\ age' \in 0..2 /\ due' \in BOOLEAN
        /\ UNCHANGED <<status, marker, closing, lines, pc, snap, job, kept, req, crashes>>
    <3>1. due' = due \/ due' = TRUE
      BY <1>2 DEF TimePasses
    <3>2. due' \in BOOLEAN
      BY <3>1 DEF IngestInv, TypeOK
    <3>3. age' \in 0..2
      BY <1>2 DEF TimePasses, IngestInv, TypeOK
    <3>. QED  BY <1>2, <3>2, <3>3 DEF TimePasses, queue
  <2>. QED  BY <2>1 DEF IngestInv, TypeOK, LinesFirst,
      NobodySaysParsed, JobsAreKept, OneRunPerAttempt, Unfinished
<1>3. CASE Finalize \/ DeleteBatch
  <2>1. UNCHANGED <<pc, snap, job, kept, req, crashes>>
    BY <1>3 DEF Finalize, DeleteBatch, queue
  <2>2. TypeOK'
    <3>1. {"reconciled", "gone"} \subseteq Statuses
      BY DEF Statuses
    <3>. QED  BY <1>3, <2>1, <3>1, BatchTyped DEF Finalize, DeleteBatch,
         IngestInv, TypeOK
  <2>3. LinesFirst'
    BY <1>3, <2>1 DEF Finalize, DeleteBatch, SetStatus, batch,
       IngestInv, LinesFirst, NobodySaysParsed
  <2>. QED  BY <2>1, <2>2, <2>3 DEF IngestInv, JobsAreKept,
       OneRunPerAttempt, Unfinished
<1>4. CASE UNCHANGED vars
  BY <1>4 DEF vars, batch, queue, IngestInv, TypeOK,
      LinesFirst, NobodySaysParsed, JobsAreKept, OneRunPerAttempt,
      Unfinished
<1>. QED  BY <1>1, <1>2, <1>3, <1>4, RunSteps, CrashSteps, RequestSteps DEF Next

\* A new batch has no lines, and nobody takes it for parsed.
LEMMA IngestStart == Init => IngestInv
<1>. SUFFICES ASSUME Init PROVE IngestInv
  OBVIOUS
<1>. USE IngestAssumption DEF Init
<1>1. ByUser(0) \in Jobs /\ ~ByUser(0).auto
  BY JobMay
<1>2. /\ pc \in [Runs -> {"queued", "unused"}] /\ job \in [Runs -> Jobs]
      /\ req \in [Callers -> Requests] /\ \A q \in Callers : req[q].kind = "idle"
      /\ \A r \in Runs : ~job[r].auto
  BY <1>1, RequestMay
<1>3. due \in BOOLEAN /\ closing \in BOOLEAN /\ ~closing
  OBVIOUS
<1>. QED  BY <1>2, <1>3 DEF IngestInv, TypeOK, LinesFirst,
     NobodySaysParsed, JobsAreKept, OneRunPerAttempt, Unfinished,
     Statuses, Attempts, Places

\* The inductive invariant of ingest: lines come before the status that says
\* so, and the queue keeps a recovery job until its run is done.
THEOREM IngestInvariant == Spec => []IngestInv
BY IngestStart, IngestStep, PTL DEF Spec

\* ingestStatementBatch: a batch that is shown as parsed, or can be reconciled,
\* has its lines, whatever dies, is retried or writes an old status back.
THEOREM LinesOfAParsedBatch == Spec => []ParsedHasLines
<1>1. IngestInv => ParsedHasLines
  BY DEF IngestInv, LinesFirst, NobodySaysParsed, ParsedHasLines
<1>. QED  BY <1>1, IngestInvariant, PTL

\* The job id names the batch and the attempt, so that the recoveries of one
\* attempt, however many requests ask for it, are one extraction.
THEOREM OneExtraction == Spec => []OneRunPerAttempt
<1>1. IngestInv => OneRunPerAttempt
  BY DEF IngestInv
<1>. QED  BY <1>1, IngestInvariant, PTL

-----------------------------------------------------------------------------
(* Finalize *)

\* The end of a request frees its locks and no others.
LEMMA ReleaseTells ==
  ASSUME BookedTyped, NEW q \in Reqs, Release(q)
  PROVE  /\ held' \in [Batches -> Reqs \cup {NoReq}]
         /\ \A b \in Batches : held[b] # q => held'[b] = held[b]
BY DEF BookedTyped, Release

\* What a request has read changes in one field.
LEMMA LinesTell ==
  ASSUME GotShaped, NEW q \in Reqs, NEW x, got' = [got EXCEPT ![q].lines = x]
  PROVE  /\ GotShaped' /\ got'[q].lines = x /\ got'[q].status = got[q].status
         /\ \A p \in Reqs \ {q} : got'[p] = got[p]
BY DEF GotShaped

\* The same of the candidates,
LEMMA AutoTells ==
  ASSUME GotShaped, NEW q \in Reqs, NEW x, got' = [got EXCEPT ![q].auto = x]
  PROVE  /\ GotShaped' /\ got'[q].lines = got[q].lines /\ got'[q].auto = x
         /\ got'[q].status = got[q].status /\ \A p \in Reqs \ {q} : got'[p] = got[p]
BY DEF GotShaped

\* and of the statusOf that an assignment will write back.
LEMMA StatusTells ==
  ASSUME GotShaped, NEW q \in Reqs, NEW x, got' = [got EXCEPT ![q].status = x]
  PROVE  /\ GotShaped' /\ got'[q].status = x
         /\ \A p \in Reqs \ {q} : got'[p] = got[p]
BY DEF GotShaped

\* A statement that an assignment has read stays one that may be opened again.
LEMMA OpenedStays ==
  ASSUME BookedTyped, [FinalizeNext]_finalizeVars
  PROVE  \A b : OpenedAgain(b) => OpenedAgain(b)'
<1>1. ASSUME NEW q \in Reqs, Handle(q) PROVE \A p \in Reqs : at[p] # "start" => at'[p] # "start"
  <2>1. \E place \in {"claimed", "read", "matched", "locked", "tied", "done"} : GoOn(q, place)
    BY <1>1 DEF Handle, Claim, ReadLines, ReadCandidates, LockRows, TieOut, Commit, Decide,
                ReadStatus, WriteStatus, Edit
  <2>. QED  BY <2>1 DEF GoOn, BookedTyped
<1>2. \A p \in Reqs : at[p] # "start" => at'[p] # "start"
  BY <1>1 DEF FinalizeNext, finalizeVars
<1>. QED  BY <1>2 DEF OpenedAgain

\* A step of any request keeps the invariant: the row lock of the batch is held
\* from the claim to the commit, and the claim refuses a reconciled batch.
LEMMA FinalizeStep == BooksOnce /\ [FinalizeNext]_finalizeVars => BooksOnce'
<1>. SUFFICES ASSUME BooksOnce, [FinalizeNext]_finalizeVars PROVE BooksOnce'
  OBVIOUS
<1>. USE FinalizeAssumption DEF GoOn, At, locks, data
<1>0. GotShaped /\ BookedTyped
  BY DEF BooksOnce
<1>m. \A b : OpenedAgain(b) => OpenedAgain(b)'
  BY <1>0, OpenedStays
<1>1. ASSUME NEW q \in Reqs, Claim(q) PROVE BooksOnce'
  <2>1. /\ Kind[q] = "finalize" /\ at[q] = "start" /\ held[Target[q]] = NoReq
        /\ \/ at' = [at EXCEPT ![q] = "done"] /\ held' = held
           \/ /\ statusOf[Target[q]] # "reconciled" /\ at' = [at EXCEPT ![q] = "claimed"]
              /\ held' = [held EXCEPT ![Target[q]] = q]
        /\ UNCHANGED <<statusOf, booked, got>>
    BY <1>1 DEF Claim
  <2>2. GotShaped'
    BY <1>0, <2>1 DEF GotShaped
  <2>3. BookedTyped'
    BY <1>0, <2>1 DEF BookedTyped
  <2>. QED  BY <1>m, <2>1, <2>2, <2>3 DEF BooksOnce, BookedTyped,
       ClaimsHold, Claims, NoneBookedYet, AddedOnce, Mine
<1>2. ASSUME NEW q \in Reqs, ReadLines(q) PROVE BooksOnce'
  <2>1. /\ got' = [got EXCEPT ![q].lines = [l \in Mine(q) |-> line[l]]]
        /\ Kind[q] = "finalize" /\ at[q] = "claimed" /\ at' = [at EXCEPT ![q] = "read"] /\ UNCHANGED <<statusOf, booked, held>>
    BY <1>2 DEF ReadLines
  <2>2. /\ GotShaped' /\ DOMAIN got'[q].lines = Mine(q)
        /\ \A p \in Reqs \ {q} : got'[p] = got[p]
    <3>. DEFINE x == [l \in Mine(q) |-> line[l]]
    <3>1. got' = [got EXCEPT ![q].lines = x] /\ DOMAIN x = Mine(q)
      BY <2>1
    <3>. HIDE DEF x
    <3>. QED  BY <1>0, <3>1, LinesTell
  <2>. QED  BY <1>m, <2>1, <2>2 DEF BooksOnce, BookedTyped, ClaimsHold, Claims,
       NoneBookedYet, AddedOnce, Mine
<1>3. ASSUME NEW q \in Reqs, ReadCandidates(q) PROVE BooksOnce'
  <2>1. /\ \E x : got' = [got EXCEPT ![q].auto = x]
        /\ at[q] = "read" /\ at' = [at EXCEPT ![q] = "matched"]
        /\ UNCHANGED <<statusOf, booked, held>>
    BY <1>3 DEF ReadCandidates
  <2>2. /\ GotShaped' /\ got'[q].lines = got[q].lines
        /\ \A p \in Reqs \ {q} : got'[p] = got[p]
    BY <1>0, <2>1, AutoTells
  <2>. QED  BY <1>m, <2>1, <2>2 DEF BooksOnce, BookedTyped, ClaimsHold, Claims,
       NoneBookedYet, AddedOnce, Mine
<1>4. ASSUME NEW q \in Reqs, LockRows(q) PROVE BooksOnce'
  BY <1>m, <1>4 DEF LockRows, BooksOnce, GotShaped, BookedTyped,
     ClaimsHold, Claims, NoneBookedYet, AddedOnce,
     Mine
<1>5. ASSUME NEW q \in Reqs, TieOut(q) PROVE BooksOnce'
  <2>1. CASE TiesOut(q)
    <3>1. /\ at[q] = "locked" /\ at' = [at EXCEPT ![q] = "tied"]
          /\ UNCHANGED <<statusOf, booked, held, got>>
      BY <1>5, <2>1 DEF TieOut
    <3>. QED  BY <1>m, <3>1 DEF GotShaped, BooksOnce, BookedTyped, ClaimsHold, Claims,
          NoneBookedYet, AddedOnce, Mine
  <2>2. CASE ~TiesOut(q)
    <3>1. /\ at' = [at EXCEPT ![q] = "done"] /\ Release(q)
          /\ UNCHANGED <<statusOf, booked, got>>
      BY <1>5, <2>2 DEF TieOut
    <3>2. /\ held' \in [Batches -> Reqs \cup {NoReq}]
          /\ \A b \in Batches : held[b] # q => held'[b] = held[b]
      BY <1>0, <3>1, ReleaseTells
    <3>. QED  BY <1>m, <3>1, <3>2 DEF GotShaped, BooksOnce, BookedTyped, ClaimsHold, Claims,
          NoneBookedYet, AddedOnce, Mine
  <2>. QED  BY <2>1, <2>2
<1>6. ASSUME NEW q \in Reqs, Commit(q) PROVE BooksOnce'
  <2>1. /\ Kind[q] = "finalize" /\ at[q] = "tied" /\ at' = [at EXCEPT ![q] = "done"] /\ Release(q)
        /\ booked' = [l \in Lines |-> booked[l] + IF l \in Added(q) THEN 1 ELSE 0]
        /\ statusOf' = [statusOf EXCEPT ![Target[q]] = "reconciled"] /\ got' = got
    BY <1>6 DEF Commit
  <2>2. /\ held' \in [Batches -> Reqs \cup {NoReq}]
        /\ \A b \in Batches : held[b] # q => held'[b] = held[b]
    BY <1>0, <2>1, ReleaseTells
  <2>3. GotShaped' /\ BookedTyped'
    <3>1. booked' \in [Lines -> Nat]
      BY <1>0, <2>1 DEF BookedTyped
    <3>2. BookedTyped'
      BY <1>0, <2>1, <2>2, <3>1 DEF BookedTyped
    <3>. QED  BY <1>0, <2>1, <3>2 DEF GotShaped
  \* What it adds is of its batch, which has booked nothing so far.
  <2>4. \A l \in Added(q) : /\ l \in Lines /\ Batch[l] = Target[q]
                            /\ OpenedAgain(Batch[l]) \/ booked[l] = 0
    <3>1. DOMAIN got[q].lines = Mine(q) /\ (OpenedAgain(Target[q]) \/ statusOf[Target[q]] = "parsed")
      BY <2>1 DEF BooksOnce, ClaimsHold, Claims
    <3>2. Added(q) \subseteq DOMAIN got[q].lines
      BY DEF Added
    <3>. QED  BY <1>m, <3>1, <3>2 DEF BooksOnce, NoneBookedYet, Mine
  <2>5. AddedOnce'
    BY <1>0, <1>m, <2>1, <2>4 DEF BooksOnce, AddedOnce, BookedTyped
  <2>6. NoneBookedYet'
    BY <1>0, <1>m, <2>1, <2>4 DEF BooksOnce, NoneBookedYet, BookedTyped
  <2>7. ClaimsHold'
    BY <1>0, <1>m, <2>1, <2>2 DEF BooksOnce, ClaimsHold, Claims, BookedTyped, Mine
  <2>. QED  BY <2>3, <2>5, <2>6, <2>7 DEF BooksOnce
<1>7. ASSUME NEW q \in Reqs, Decide(q) \/ Edit(q) PROVE BooksOnce'
  <2>1. /\ at[q] = "start" /\ at' = [at EXCEPT ![q] = "done"]
        /\ UNCHANGED <<statusOf, booked, held, got>>
    BY <1>7 DEF Decide, Edit
  <2>. QED  BY <1>m, <2>1 DEF BooksOnce, GotShaped, BookedTyped,
     ClaimsHold, Claims, NoneBookedYet, AddedOnce, Mine
<1>8. ASSUME NEW q \in Reqs, ReadStatus(q) PROVE BooksOnce'
  <2>1. /\ got' = [got EXCEPT ![q].status = statusOf[Target[q]]] /\ Kind[q] = "assign"
        /\ statusOf[Target[q]] # "reconciled" /\ at' = [at EXCEPT ![q] = "read"] /\ UNCHANGED <<statusOf, booked, held>>
    BY <1>8 DEF ReadStatus
  <2>2. GotShaped' /\ got'[q].status = statusOf[Target[q]]
        /\ \A p \in Reqs \ {q} : got'[p] = got[p]
    BY <1>0, <2>1, StatusTells
  <2>3. BookedTyped'
    BY <1>0, <2>1, <2>2 DEF BookedTyped
  <2>. QED  BY <1>m, <2>1, <2>2, <2>3 DEF BooksOnce, BookedTyped, ClaimsHold, Claims,
       NoneBookedYet, AddedOnce, Mine
<1>9. ASSUME NEW q \in Reqs, WriteStatus(q) PROVE BooksOnce'
  <2>1. /\ Kind[q] = "assign" /\ UNCHANGED <<booked, held, got>>
        /\ statusOf' = [statusOf EXCEPT ![Target[q]] = got[q].status]
        /\ at[q] = "read" /\ at' = [at EXCEPT ![q] = "done"]
    BY <1>9 DEF WriteStatus
  <2>2. got[q].status = "parsed"
    BY <1>0, <2>1 DEF BookedTyped
  <2>3. BookedTyped' /\ GotShaped'
    BY <1>0, <2>1, <2>2 DEF BookedTyped, GotShaped
  <2>4. OpenedAgain(Target[q])'
    BY <1>m, <2>1 DEF OpenedAgain
  <2>. QED  BY <1>m, <2>1, <2>3, <2>4 DEF BooksOnce, BookedTyped, ClaimsHold, Claims,
       NoneBookedYet, AddedOnce, Mine
<1>10. CASE UNCHANGED finalizeVars
  BY <1>m, <1>10 DEF finalizeVars, BooksOnce, GotShaped, BookedTyped,
     ClaimsHold, Claims, NoneBookedYet, AddedOnce, Mine
<1>. QED
  BY <1>1, <1>2, <1>3, <1>4, <1>5, <1>6, <1>7, <1>8, <1>9, <1>10 DEF FinalizeNext, Handle

\* No line has been booked when the requests start.
LEMMA FinalizeStart == FinalizeInit => BooksOnce
<1>. SUFFICES ASSUME FinalizeInit PROVE BooksOnce
  OBVIOUS
<1>. USE FinalizeAssumption DEF FinalizeInit
<1>1. GotShaped
  BY DEF GotShaped, Nothing
<1>2. BookedTyped
  BY DEF BookedTyped
<1>. QED  BY <1>1, <1>2 DEF BooksOnce, ClaimsHold, Claims, NoneBookedYet, AddedOnce

\* The inductive invariant of finalize: who has claimed a batch holds its row,
\* and an open batch has booked nothing.
THEOREM FinalizeInvariant == FinalizeSpec => []BooksOnce
BY FinalizeStart, FinalizeStep, PTL DEF FinalizeSpec

\* finalizeReconcile: however many requests finalize a statement, each of its added lines
\* is booked once, until an assignment has read a status that it will write back.
THEOREM AddedLines == FinalizeSpec => []AddedOnce
<1>1. BooksOnce => AddedOnce
  BY DEF BooksOnce, AddedOnce
<1>. QED  BY <1>1, FinalizeInvariant, PTL
-----------------------------------------------------------------------------
(* The matcher *)

SplitsTyped == split \in [Splits -> SplitRow]

\* Of some lines one is the latest,
LEMMA LatestIs ==
  ASSUME NEW P \in SUBSET Lines, P # {}
  PROVE  Latest(P) \in P
<1>. DEFINE R == {p \in P \X P : EarlierLine(p[2], p[1])}
<1>1. IsFiniteSet(P) /\ \A x \in P : x \in Nat /\ LineDate[x] \in Int
  BY FinalizeAssumption, FS_Subset
<1>2. \A x, y \in P : <<x, y>> \in R <=> EarlierLine(y, x)
  OBVIOUS
<1>3. \A x, y \in P : x # y => <<x, y>> \in R \/ <<y, x>> \in R
  <2>. HIDE DEF R
  <2>. QED  BY <1>1, <1>2 DEF EarlierLine
<1>4. \A x, y, z \in P : <<x, y>> \in R /\ <<y, z>> \in R => <<x, z>> \in R
  <2>. HIDE DEF R
  <2>. QED  BY <1>1, <1>2 DEF EarlierLine
<1>5. PICK x \in P : \A y \in P \ {x} : <<x, y>> \in R
  <2>. HIDE DEF R
  <2>. QED  BY <1>1, <1>3, <1>4, FiniteLeast
<1>6. \A y \in P \ {x} : EarlierLine(y, x)
  BY <1>2, <1>5
<1>. QED  BY <1>6 DEF Latest

\* and of the splits that fit a line one is closest.
LEMMA ClosestIs ==
  ASSUME SplitsTyped, NEW l \in Lines, NEW free \in SUBSET Splits, free # {}
  PROVE  Closest(l, free) \in free
<1>. DEFINE R == {p \in free \X free : Closer(l, p[1], p[2])}
<1>1. IsFiniteSet(free) /\ \A s \in free : s \in Nat /\ split[s].date \in Int /\ Distance(l, s) \in Int
  <2>1. IsFiniteSet(free)
    BY FinalizeAssumption, FS_Subset
  <2>2. LineDate[l] \in Int /\ \A s \in free : s \in Nat /\ split[s] \in SplitRow
    BY FinalizeAssumption DEF SplitsTyped
  <2>3. \A s \in free : split[s].date \in Int
    BY <2>2, FinalizeAssumption DEF SplitRow
  <2>. QED  BY <2>1, <2>2, <2>3 DEF Distance
<1>2. \A x, y \in free : <<x, y>> \in R <=> Closer(l, x, y)
  OBVIOUS
<1>3. \A x, y \in free : x # y => <<x, y>> \in R \/ <<y, x>> \in R
  <2>. HIDE DEF R
  <2>. QED  BY <1>1, <1>2 DEF Closer
<1>4. \A x, y, z \in free : <<x, y>> \in R /\ <<y, z>> \in R => <<x, z>> \in R
  <2>. HIDE DEF R
  <2>. QED  BY <1>1, <1>2 DEF Closer
<1>5. PICK x \in free : \A y \in free \ {x} : <<x, y>> \in R
  <2>. HIDE DEF R
  <2>. QED  BY <1>1, <1>3, <1>4, FiniteLeast
<1>6. \A y \in free \ {x} : Closer(l, x, y)
  BY <1>2, <1>5
<1>. QED  BY <1>6 DEF Closest

\* m gives the matches of each part of the lines L.
Matching(L, pool, m) ==
    m = [P \in SUBSET L |->
           IF P = {} THEN <<>> ELSE Take(pool, m[P \ {Latest(P)}], Latest(P))]

LEMMA MatchUnfolded ==
  ASSUME NEW L, NEW pool
  PROVE  Match(L, pool) = (CHOOSE m : Matching(L, pool, m))[L]
BY DEF Match, Matching

\* The recursion has one solution,
LEMMA MatchOnce ==
  ASSUME NEW L \in SUBSET Lines, NEW pool, NEW m, NEW n, Matching(L, pool, m), Matching(L, pool, n)
  PROVE  m = n
<1>. DEFINE S == {P \in SUBSET L : m[P] = n[P]}
<1>1. ASSUME NEW T \in SUBSET L PROVE T \in S
  <2>1. ASSUME NEW P \in SUBSET T, \A Q \in SUBSET P : Q # P => Q \in S
        PROVE  P \in S
    <3>1. CASE P = {}
      BY <3>1 DEF Matching
    <3>2. CASE P # {}
      <4>1. Latest(P) \in P
        BY <3>2, LatestIs
      <4>2. P \ {Latest(P)} \in S
        BY <2>1, <4>1
      <4>3. /\ m[P] = Take(pool, m[P \ {Latest(P)}], Latest(P))
            /\ n[P] = Take(pool, n[P \ {Latest(P)}], Latest(P))
        BY <3>2 DEF Matching
      <4>4. m[P \ {Latest(P)}] = n[P \ {Latest(P)}]
        BY <4>2
      <4>5. m[P] = n[P]
        BY <4>3, <4>4, Zenon
      <4>. QED  BY <4>5
    <3>. QED  BY <3>1, <3>2
  <2>2. IsFiniteSet(T)
    BY FinalizeAssumption, FS_Subset
  <2>. HIDE DEF S
  <2>. QED  BY <2>1, <2>2, FiniteInduction
<1>2. \A T \in SUBSET L : m[T] = n[T]
  BY <1>1
<1>. QED  BY <1>2, Zenon DEF Matching

\* and it has one at all.
LEMMA MatchStep ==
  ASSUME NEW L \in SUBSET Lines, NEW pool
  PROVE  Match(L, pool) =
           IF L = {} THEN <<>> ELSE Take(pool, Match(L \ {Latest(L)}, pool), Latest(L))
<1>. DEFINE V(P) == Match(P, pool)
            S == {P \in SUBSET L :
                    V(P) = IF P = {} THEN <<>> ELSE Take(pool, V(P \ {Latest(P)}), Latest(P))}
<1>1. ASSUME NEW A \in SUBSET L, \A B \in SUBSET A : B # A => B \in S
      PROVE  A \in S
  <2>. DEFINE m == [P \in SUBSET A |->
                      IF P = {} THEN <<>> ELSE Take(pool, V(P \ {Latest(P)}), Latest(P))]
  <2>. HIDE DEF V
  <2>1. \A B \in SUBSET A : B # A => m[B] = V(B)
    BY <1>1
  <2>2. \A P \in SUBSET A : P # {} => Latest(P) \in P
    BY LatestIs
  <2>3. \A P \in SUBSET A : P # {} => m[P \ {Latest(P)}] = V(P \ {Latest(P)})
    BY <2>1, <2>2
  <2>4. Matching(A, pool, m)
    BY <2>3, Zenon DEF Matching
  <2>5. m[A] = IF A = {} THEN <<>> ELSE Take(pool, V(A \ {Latest(A)}), Latest(A))
    BY Zenon
  <2>6. V(A) = m[A]
    <3>. HIDE DEF m
    <3>1. Matching(A, pool, CHOOSE n : Matching(A, pool, n))
      BY <2>4, Zenon
    <3>2. A \in SUBSET Lines
      OBVIOUS
    <3>3. (CHOOSE n : Matching(A, pool, n)) = m
      BY <2>4, <3>1, <3>2, MatchOnce
    <3>. QED  BY <3>3, MatchUnfolded, Zenon DEF V
  <2>. HIDE DEF m
  <2>. QED  BY <2>5, <2>6
<1>2. L \in S
  <2>1. IsFiniteSet(L)
    BY FinalizeAssumption, FS_Subset
  <2>. HIDE DEF S
  <2>. QED  BY <1>1, <2>1, FiniteInduction
<1>. QED  BY <1>2

\* found gives a split of the pool to some of lines L, each to one, and leaves no
\* line without while a split of the pool that fits it is free.
Exact(L, pool, found) ==
    /\ DOMAIN found \subseteq L
    /\ \A l \in DOMAIN found : found[l] \in pool /\ Compatible(l, found[l])
    /\ \A k, l \in DOMAIN found : found[k] = found[l] => k = l
    /\ \A l \in L \ DOMAIN found : \A s \in pool :
          Compatible(l, s) => \E k \in DOMAIN found : found[k] = s

LEMMA TakesExactly ==
  ASSUME SplitsTyped, NEW L \in SUBSET Lines, NEW pool \in SUBSET Splits, NEW found,
         Exact(L, pool, found), NEW l \in Lines \ L
  PROVE  Exact(L \cup {l}, pool, Take(pool, found, l))
<1>. DEFINE free == FreeFor(pool, found, l)
<1>1. CASE free = {}
  BY <1>1 DEF Take, FreeFor, Exact
<1>2. CASE free # {}
  <2>1. Closest(l, free) \in free
    BY <1>2, ClosestIs DEF FreeFor
  <2>2. PICK c : c = Closest(l, free)
    OBVIOUS
  <2>3. c \in pool /\ Compatible(l, c) /\ \A k \in DOMAIN found : found[k] # c
    BY <2>1, <2>2 DEF FreeFor
  <2>4. PICK new : new = Take(pool, found, l)
    OBVIOUS
  <2>5. new = [k \in DOMAIN found \cup {l} |-> IF k \in DOMAIN found THEN found[k] ELSE c]
    BY <1>2, <2>2, <2>4 DEF Take
  <2>6. l \notin DOMAIN found
    BY DEF Exact
  <2>7. /\ DOMAIN new = DOMAIN found \cup {l} /\ new[l] = c
        /\ \A k \in DOMAIN found : new[k] = found[k]
    BY <2>5, <2>6
  <2>8. Exact(L \cup {l}, pool, new)
    BY <2>3, <2>6, <2>7 DEF Exact
  <2>. QED  BY <2>4, <2>8
<1>. QED  BY <1>1, <1>2

LEMMA MatchFinds ==
  ASSUME SplitsTyped, NEW L \in SUBSET Lines, NEW pool \in SUBSET Splits
  PROVE  Exact(L, pool, Match(L, pool))
<1>. DEFINE S == {P \in SUBSET L : Exact(P, pool, Match(P, pool))}
<1>1. ASSUME NEW P \in SUBSET L, \A Q \in SUBSET P : Q # P => Q \in S
      PROVE  P \in S
  <2>1. CASE P = {}
    <3>1. Match(P, pool) = <<>>
      BY <2>1, MatchStep
    <3>2. DOMAIN Match(P, pool) = {}
      BY <3>1
    <3>. QED  BY <2>1, <3>2 DEF Exact
  <2>2. CASE P # {}
    <3>1. Latest(P) \in P
      BY <2>2, LatestIs
    <3>2. P \ {Latest(P)} \in S
      BY <1>1, <3>1
    <3>3. Match(P, pool) = Take(pool, Match(P \ {Latest(P)}, pool), Latest(P))
      BY <2>2, MatchStep
    <3>4. Exact((P \ {Latest(P)}) \cup {Latest(P)}, pool, Match(P, pool))
      <4>1. PICK l : l = Latest(P)
        OBVIOUS
      <4>2. PICK found : found = Match(P \ {l}, pool)
        OBVIOUS
      <4>3. Exact(P \ {l}, pool, found) /\ l \in Lines \ (P \ {l})
        BY <3>1, <3>2, <4>1, <4>2
      <4>4. Exact((P \ {l}) \cup {l}, pool, Take(pool, found, l))
        BY <4>3, TakesExactly
      <4>. QED  BY <3>3, <4>1, <4>2, <4>4
    <3>5. (P \ {Latest(P)}) \cup {Latest(P)} = P
      BY <3>1
    <3>6. Exact(P, pool, Match(P, pool))
      BY <3>4, <3>5, Zenon
    <3>. QED  BY <3>6
  <2>. QED  BY <2>1, <2>2
<1>2. L \in S
  <2>1. IsFiniteSet(L)
    BY FinalizeAssumption, FS_Subset
  <2>. HIDE DEF S
  <2>. QED  BY <1>1, <2>1, FiniteInduction
<1>. QED  BY <1>2
-----------------------------------------------------------------------------
(* What finalize has read *)

Finalizing(q, places) == Kind[q] = "finalize" /\ at[q] \in places

\* The rows and the memories of the finalizes have their types.
FinalizeTyped ==
    /\ SplitsTyped /\ line \in [Lines -> Line] /\ rows \in [Splits -> Reqs \cup {NoReq}]
    /\ \A q \in Reqs :
         /\ Finalizing(q, {"read", "matched", "locked", "tied"}) =>
              \A l \in Mine(q) : got[q].lines[l] \in Line
         /\ Finalizing(q, {"matched", "locked", "tied"}) =>
              \A l \in DOMAIN got[q].auto : l \in Lines /\ got[q].auto[l] \in Splits

\* What it has to read of a request is of the lines of its statement.
LEMMA ReadSets ==
  ASSUME BooksOnce, NEW q \in Reqs, Finalizing(q, {"read", "matched", "locked", "tied"})
  PROVE  /\ DOMAIN got[q].lines = Mine(q) /\ Mine(q) \subseteq Lines
         /\ Explicit(q) \subseteq Mine(q) /\ Added(q) \subseteq Mine(q)
         /\ Undecided(q) \subseteq Mine(q)
BY DEF BooksOnce, ClaimsHold, Claims, Finalizing, Explicit, Added, Undecided, Mine

\* So are the splits it goes by splits.
LEMMA MatchedAreSplits ==
  ASSUME BooksOnce, FinalizeTyped, NEW q \in Reqs
  PROVE  /\ Finalizing(q, {"read", "matched", "locked", "tied"}) => ExplicitSplits(q) \subseteq Splits
         /\ Finalizing(q, {"matched", "locked", "tied"}) => MatchedSplits(q) \subseteq Splits
<1>1. ASSUME Finalizing(q, {"read", "matched", "locked", "tied"}) PROVE ExplicitSplits(q) \subseteq Splits
  <2>1. \A l \in Explicit(q) : got[q].lines[l] \in Line /\ got[q].lines[l].split # NoSplit
    BY <1>1, ReadSets DEF FinalizeTyped, Explicit
  <2>. QED  BY <2>1 DEF ExplicitSplits, Line
<1>2. ASSUME Finalizing(q, {"matched", "locked", "tied"}) PROVE AutoSplits(q) \subseteq Splits
  BY <1>2 DEF FinalizeTyped, AutoSplits
<1>. QED  BY <1>1, <1>2 DEF MatchedSplits, Finalizing

\* The candidates are splits.
Pool(q) == getCandidateSplits(Target[q]) \ ExplicitSplits(q)

LEMMA PoolIs == \A q : Pool(q) \in SUBSET Splits
<1>. SUFFICES ASSUME NEW q PROVE Pool(q) \subseteq Splits
  OBVIOUS
<1>1. \A s \in getCandidateSplits(Target[q]) : s \in Live(Splits)
  BY Zenon DEF getCandidateSplits
<1>2. Live(Splits) \subseteq Splits
  BY DEF Live
<1>. QED  BY <1>1, <1>2, Zenon DEF Pool

\* The widened range holds whatever fits a line within the statement's own dates.
LEMMA PaddingSuffices ==
  ASSUME SplitsTyped, NEW l \in Lines, NEW s \in Splits, WithinStatement(l), Compatible(l, s)
  PROVE  InRange(Batch[l], s)
<1>1. LineDate[l] \in Int /\ split[s].date \in Int /\ Batch[l] \in Batches /\ Window \in Int
  <2>1. split[s].date \in Dates
    BY DEF SplitsTyped, SplitRow
  <2>2. split[s].date \in Int
    BY <2>1, FinalizeAssumption
  <2>3. LineDate[l] \in Int /\ Batch[l] \in Batches
    BY FinalizeAssumption
  <2>4. Window \in Int
    BY FinalizeAssumption
  <2>. QED  BY <2>2, <2>3, <2>4
<1>2. LineDate[l] - Window <= split[s].date /\ split[s].date <= LineDate[l] + Window
  BY <1>1 DEF Compatible, Distance
<1>3. ASSUME StartDate[Batch[l]] # Unstated PROVE StartDate[Batch[l]] - Window <= split[s].date
  <2>1. StartDate[Batch[l]] \in Int /\ StartDate[Batch[l]] <= LineDate[l]
    BY <1>1, <1>3, FinalizeAssumption DEF WithinStatement
  <2>. QED  BY <1>1, <1>2, <2>1
<1>4. ASSUME EndDate[Batch[l]] # Unstated PROVE split[s].date <= EndDate[Batch[l]] + Window
  <2>1. EndDate[Batch[l]] \in Int /\ LineDate[l] <= EndDate[Batch[l]]
    BY <1>1, <1>4, FinalizeAssumption DEF WithinStatement
  <2>. QED  BY <1>1, <1>2, <2>1
<1>. QED  BY <1>2, <1>3, <1>4 DEF InRange

LEMMA CandidatesTell ==
  ASSUME BooksOnce, FinalizeTyped, NEW q \in Reqs, ReadCandidates(q)
  PROVE  /\ Finalizing(q, {"read"}) /\ at' = [at EXCEPT ![q] = "matched"]
         /\ got'[q].lines = got[q].lines /\ \A p \in Reqs \ {q} : got'[p] = got[p]
         /\ Exact(Undecided(q), Pool(q), got'[q].auto) /\ Undecided(q) \subseteq Lines
         /\ UNCHANGED <<data, locks>>
<1>1. /\ got' = [got EXCEPT ![q].auto = Match(Undecided(q), Pool(q))]
      /\ Finalizing(q, {"read"}) /\ at' = [at EXCEPT ![q] = "matched"] /\ UNCHANGED <<data, locks>>
  BY DEF ReadCandidates, Finalizing, At, GoOn, Pool
<1>2. /\ got'[q].lines = got[q].lines /\ \A p \in Reqs \ {q} : got'[p] = got[p]
      /\ got'[q].auto = Match(Undecided(q), Pool(q))
  <2>1. PICK x : x = Match(Undecided(q), Pool(q))
    OBVIOUS
  <2>. QED  BY <1>1, <2>1, AutoTells DEF BooksOnce
<1>3. Undecided(q) \in SUBSET Lines
  BY <1>1, ReadSets DEF Finalizing
<1>4. Exact(Undecided(q), Pool(q), Match(Undecided(q), Pool(q)))
  BY <1>3, PoolIs, MatchFinds DEF FinalizeTyped
<1>. QED  BY <1>1, <1>2, <1>3, <1>4

\* An edit changes one split, which is not reconciled and whose row is free.
LEMMA EditTells ==
  ASSUME SplitsTyped, NEW q \in Reqs, Edit(q)
  PROVE  /\ \E s \in Splits : \E row \in SplitRow :
              /\ split[s].state = "n" /\ rows[s] = NoReq /\ row.state = "n"
              /\ split[s].live /\ split' = [split EXCEPT ![s] = row]
         /\ at' = [at EXCEPT ![q] = "done"] /\ at[q] = "start"
         /\ UNCHANGED <<line, statusOf, booked, held, rows, got>>
<1>1. PICK s \in Splits :
        /\ split[s].live /\ split[s].state = "n" /\ rows[s] = NoReq
        /\ \/ \E a \in Amounts : split' = [split EXCEPT ![s].amount = a]
           \/ split' = [split EXCEPT ![s].live = FALSE]
  BY DEF Edit, Live
<1>2. split[s] \in SplitRow
  BY <1>1 DEF SplitsTyped
<1>3. CASE split' = [split EXCEPT ![s].live = FALSE]
  <2>1. [split[s] EXCEPT !.live = FALSE] \in SplitRow /\ [split[s] EXCEPT !.live = FALSE].state = "n"
    BY <1>1, <1>2 DEF SplitRow
  <2>2. split' = [split EXCEPT ![s] = [split[s] EXCEPT !.live = FALSE]]
    BY <1>3
  <2>. QED  BY <1>1, <2>1, <2>2 DEF Edit, GoOn, At, locks
<1>4. ASSUME NEW a \in Amounts, split' = [split EXCEPT ![s].amount = a]
      PROVE  \E row \in SplitRow : row.state = "n" /\ split' = [split EXCEPT ![s] = row]
  <2>1. [split[s] EXCEPT !.amount = a] \in SplitRow /\ [split[s] EXCEPT !.amount = a].state = "n"
    BY <1>1, <1>2, <1>4 DEF SplitRow
  <2>2. split' = [split EXCEPT ![s] = [split[s] EXCEPT !.amount = a]]
    BY <1>4
  <2>. QED  BY <2>1, <2>2
<1>. QED  BY <1>1, <1>3, <1>4 DEF Edit, GoOn, At, locks

LEMMA FinalizeTypedStep == BooksOnce /\ FinalizeTyped /\ [FinalizeNext]_finalizeVars => FinalizeTyped'
<1>. SUFFICES ASSUME BooksOnce, FinalizeTyped, [FinalizeNext]_finalizeVars PROVE FinalizeTyped'
  OBVIOUS
<1>. USE FinalizeAssumption DEF At, locks, data
<1>0. GotShaped /\ BookedTyped /\ SplitsTyped
  BY DEF BooksOnce, FinalizeTyped
\* A request that goes no further than it has read.
<1>a. ASSUME NEW q \in Reqs, got' = got, SplitsTyped', line' \in [Lines -> Line],
             rows' \in [Splits -> Reqs \cup {NoReq}],
             \/ \E place \in {"claimed", "done"} : at' = [at EXCEPT ![q] = place]
             \/ at[q] = "matched" /\ at' = [at EXCEPT ![q] = "locked"]
             \/ at[q] = "locked" /\ at' = [at EXCEPT ![q] = "tied"]
      PROVE  FinalizeTyped'
  <2>1. ASSUME NEW p \in Reqs
        PROVE  /\ Finalizing(p, {"read", "matched", "locked", "tied"})'
                    => Finalizing(p, {"read", "matched", "locked", "tied"})
               /\ Finalizing(p, {"matched", "locked", "tied"})'
                    => Finalizing(p, {"matched", "locked", "tied"})
    BY <1>0, <1>a DEF Finalizing, BookedTyped
  <2>. QED  BY <1>a, <2>1 DEF FinalizeTyped, Mine
<1>b. ASSUME NEW q \in Reqs, Release(q) PROVE rows' \in [Splits -> Reqs \cup {NoReq}]
  BY <1>b DEF Release, FinalizeTyped
<1>1. ASSUME NEW q \in Reqs, Claim(q) PROVE FinalizeTyped'
  <2>1. /\ \E place \in {"claimed", "done"} : at' = [at EXCEPT ![q] = place]
        /\ UNCHANGED <<split, line, rows, got>>
    BY <1>1 DEF Claim, GoOn
  <2>. QED  BY <1>a, <2>1 DEF FinalizeTyped, SplitsTyped
<1>2. ASSUME NEW q \in Reqs, ReadLines(q) PROVE FinalizeTyped'
  <2>1. /\ got' = [got EXCEPT ![q].lines = [l \in Mine(q) |-> line[l]]]
        /\ at[q] = "claimed" /\ at' = [at EXCEPT ![q] = "read"] /\ UNCHANGED <<split, line, rows>>
    BY <1>2 DEF ReadLines, GoOn
  <2>2. /\ \A l \in Mine(q) : got'[q].lines[l] = line[l]
        /\ \A p \in Reqs \ {q} : got'[p] = got[p]
    <3>. DEFINE x == [l \in Mine(q) |-> line[l]]
    <3>1. got' = [got EXCEPT ![q].lines = x] /\ \A l \in Mine(q) : x[l] = line[l]
      BY <2>1
    <3>. HIDE DEF x
    <3>. QED  BY <1>0, <3>1, LinesTell, ZenonT(60)
  <2>. QED  BY <1>0, <2>1, <2>2 DEF FinalizeTyped, Finalizing, SplitsTyped, BookedTyped, Mine
<1>3. ASSUME NEW q \in Reqs, ReadCandidates(q) PROVE FinalizeTyped'
  <2>1. /\ Finalizing(q, {"read"}) /\ at' = [at EXCEPT ![q] = "matched"]
        /\ got'[q].lines = got[q].lines /\ \A p \in Reqs \ {q} : got'[p] = got[p]
        /\ \A l \in DOMAIN got'[q].auto : l \in Lines /\ got'[q].auto[l] \in Splits
        /\ UNCHANGED <<split, line, rows>>
    BY <1>3, CandidatesTell, PoolIs DEF Exact
  <2>. QED  BY <1>0, <2>1 DEF FinalizeTyped, Finalizing, SplitsTyped, BookedTyped, Mine
<1>4. ASSUME NEW q \in Reqs, LockRows(q) PROVE FinalizeTyped'
  <2>1. /\ at[q] = "matched" /\ at' = [at EXCEPT ![q] = "locked"]
        /\ UNCHANGED <<split, line, got>> /\ rows' \in [Splits -> Reqs \cup {NoReq}]
    BY <1>4 DEF LockRows, GoOn, FinalizeTyped
  <2>. QED  BY <1>a, <2>1 DEF FinalizeTyped, SplitsTyped
<1>5. ASSUME NEW q \in Reqs, TieOut(q) PROVE FinalizeTyped'
  <2>1. /\ UNCHANGED <<split, line, got>> /\ rows' \in [Splits -> Reqs \cup {NoReq}]
        /\ \/ at[q] = "locked" /\ at' = [at EXCEPT ![q] = "tied"]
           \/ at' = [at EXCEPT ![q] = "done"]
    BY <1>5, <1>b DEF TieOut, GoOn, FinalizeTyped
  <2>. QED  BY <1>a, <2>1 DEF FinalizeTyped, SplitsTyped
<1>6. ASSUME NEW q \in Reqs, Commit(q) PROVE FinalizeTyped'
  <2>1. Finalizing(q, {"tied"}) /\ at' = [at EXCEPT ![q] = "done"] /\ Release(q) /\ got' = got
    BY <1>6 DEF Commit, GoOn, Finalizing
  <2>2. /\ split' = [s \in Splits |-> IF s \in Live(MatchedSplits(q))
                                      THEN [split[s] EXCEPT !.state = "y"] ELSE split[s]]
        /\ line' = [l \in Lines |->
                     IF l \in DOMAIN got[q].auto
                     THEN [state |-> "matched", split |-> got[q].auto[l]]
                     ELSE IF l \in Added(q) THEN [line[l] EXCEPT !.state = "added"] ELSE line[l]]
    BY <1>6 DEF Commit
  <2>3. SplitsTyped'
    BY <1>0, <2>2 DEF SplitsTyped, SplitRow
  <2>4. \A l \in DOMAIN got[q].auto : got[q].auto[l] \in Splits
    BY <2>1 DEF FinalizeTyped, Finalizing
  <2>5. line' \in [Lines -> Line]
    BY <2>2, <2>4 DEF FinalizeTyped, Line, LineStates
  <2>. QED  BY <1>a, <1>b, <2>1, <2>3, <2>5
<1>7. ASSUME NEW q \in Reqs, Decide(q) \/ Edit(q) PROVE FinalizeTyped'
  <2>1. at' = [at EXCEPT ![q] = "done"] /\ UNCHANGED <<rows, got>>
    BY <1>7 DEF Decide, Edit, GoOn
  <2>2. SplitsTyped' /\ line' \in [Lines -> Line]
    <3>1. CASE Decide(q)
      BY <3>1 DEF Decide, FinalizeTyped, SplitsTyped, Live, Line, LineStates
    <3>2. CASE Edit(q)
      BY <1>0, <3>2, EditTells DEF FinalizeTyped, SplitsTyped
    <3>. QED  BY <1>7, <3>1, <3>2
  <2>. QED  BY <1>a, <2>1, <2>2 DEF FinalizeTyped
<1>8. ASSUME NEW q \in Reqs, ReadStatus(q) PROVE FinalizeTyped'
  <2>1. /\ Kind[q] = "assign" /\ UNCHANGED <<split, line, rows>> /\ at' = [at EXCEPT ![q] = "read"]
        /\ \E x : got' = [got EXCEPT ![q].status = x]
    BY <1>8 DEF ReadStatus, GoOn
  <2>2. \A p \in Reqs \ {q} : got'[p] = got[p]
    BY <1>0, <2>1, StatusTells
  <2>. QED  BY <1>0, <2>1, <2>2 DEF FinalizeTyped, Finalizing, SplitsTyped, BookedTyped, Mine
<1>9. ASSUME NEW q \in Reqs, WriteStatus(q) PROVE FinalizeTyped'
  <2>1. at' = [at EXCEPT ![q] = "done"] /\ UNCHANGED <<split, line, rows, got>>
    BY <1>9 DEF WriteStatus, GoOn
  <2>. QED  BY <1>a, <2>1 DEF FinalizeTyped, SplitsTyped
<1>10. CASE UNCHANGED finalizeVars
  BY <1>10 DEF finalizeVars, FinalizeTyped, Finalizing, SplitsTyped, Mine
<1>. QED
  BY <1>1, <1>2, <1>3, <1>4, <1>5, <1>6, <1>7, <1>8, <1>9, <1>10 DEF FinalizeNext, Handle

LEMMA FinalizeTypedStart == FinalizeInit => FinalizeTyped
<1>. SUFFICES ASSUME FinalizeInit PROVE FinalizeTyped
  OBVIOUS
<1>. QED  BY FinalizeAssumption DEF FinalizeInit, FinalizeTyped, SplitsTyped, Finalizing, Line, LineStates

\* Type correctness of finalize: whatever is matched is a split, whatever is locked is locked
\* by a request.
THEOREM FinalizeTyping == FinalizeSpec => []FinalizeTypeOK
<1>1. BooksOnce /\ FinalizeTyped => FinalizeTypeOK
  BY DEF BooksOnce, BookedTyped, FinalizeTyped, SplitsTyped, FinalizeTypeOK
<1>. QED  BY <1>1, FinalizeTypedStart, FinalizeTypedStep, FinalizeInvariant, PTL DEF FinalizeSpec

\* matchStatementLines (MatchesAreExact): whichever candidates there are and however many
\* lines, it gives a split to one line only, gives away no explicit match, and leaves no line
\* over that a free split of the range would fit, which the window widens enough for every free
\* split of the ledger that fits a line within the statement's own dates.
THEOREM MatcherIsExact == FinalizeSpec => MatchesAreExact
<1>1. BooksOnce /\ FinalizeTyped /\ [FinalizeNext]_finalizeVars => [FindsExactMatches]_finalizeVars
  <2>. SUFFICES ASSUME BooksOnce, FinalizeTyped, NEW q \in Reqs, ReadCandidates(q)
                PROVE  LET auto == got'[q].auto IN
                       /\ IsInjective(auto)
                       /\ \A l \in DOMAIN auto : /\ Compatible(l, auto[l])
                                                 /\ auto[l] \notin ExplicitSplits(q)
                       /\ \A l \in Undecided(q) \ DOMAIN auto :
                             \A s \in {t \in Live(Splits) : \/ WithinStatement(l)
                                                           \/ InRange(Target[q], t)} :
                                split[s].state = "n" /\ Compatible(l, s)
                                   => s \in ExplicitSplits(q) \cup Range(auto)
    BY DEF FindsExactMatches
  <2>1. PICK auto : auto = got'[q].auto
    OBVIOUS
  <2>2. Exact(Undecided(q), Pool(q), auto)
    BY <2>1, CandidatesTell
  <2>3. IsInjective(auto)
    BY <2>2 DEF Exact, IsInjective
  <2>4. \A l \in DOMAIN auto : Compatible(l, auto[l]) /\ auto[l] \notin ExplicitSplits(q)
    BY <2>2 DEF Exact, Pool
  <2>5. ASSUME NEW l \in Undecided(q) \ DOMAIN auto, NEW s \in Live(Splits),
               WithinStatement(l) \/ InRange(Target[q], s),
               split[s].state = "n", Compatible(l, s)
        PROVE  s \in ExplicitSplits(q) \cup Range(auto)
    <3>1. l \in Lines /\ Batch[l] = Target[q] /\ s \in Splits
      BY CandidatesTell, ReadSets DEF Finalizing, Live, Undecided, Mine
    <3>2. InRange(Target[q], s)
      BY <2>5, <3>1, PaddingSuffices DEF FinalizeTyped
    <3>. QED  BY <2>2, <2>5, <3>2 DEF Exact, Pool, getCandidateSplits, Range
  <2>. QED  BY <2>1, <2>3, <2>4, <2>5
<1>. QED  BY <1>1, FinalizeTypedStart, FinalizeTypedStep, FinalizeInvariant, PTL DEF FinalizeSpec, MatchesAreExact
-----------------------------------------------------------------------------
(* The tie-out *)

\* Only one statement of the account is being finalized, and it is not opened again.
OneStatement ==
    /\ \A q \in Reqs : Kind[q] # "assign"
    /\ \A p, q \in Reqs : Kind[p] = "finalize" /\ Kind[q] = "finalize" => Target[p] = Target[q]

\* What an open statement is matched with is not reconciled; what a finalize has matched is
\* neither, and from the locks on is in its hands, so that a sum that ties out still does at
\* the commit.
StillTies ==
    \A q \in Reqs : Kind[q] = "finalize" =>
      /\ statusOf[Target[q]] = "parsed" =>
           \A l \in Mine(q) : line[l].state = "matched" /\ line[l].split # NoSplit
                                => split[line[l].split].state = "n"
      /\ at[q] \in {"read", "matched", "locked", "tied"} =>
           \A s \in ExplicitSplits(q) : split[s].state = "n"
      /\ at[q] \in {"matched", "locked", "tied"} =>
           \A s \in AutoSplits(q) : split[s].state = "n"
      /\ at[q] \in {"locked", "tied"} => \A s \in Live(MatchedSplits(q)) : rows[s] = q
      /\ at[q] = "tied" => TiesOut(q)

\* One finalize at a time has claimed the statement.
LEMMA OneClaims ==
  ASSUME OneStatement, BooksOnce, NEW p \in Reqs, NEW q \in Reqs, Claims(p), Claims(q)
  PROVE  p = q /\ statusOf[Target[q]] = "parsed" /\ held[Target[q]] = q
<1>1. \A b : ~OpenedAgain(b)
  BY DEF OneStatement, OpenedAgain
<1>2. held[Target[p]] = p /\ held[Target[q]] = q /\ statusOf[Target[q]] = "parsed"
  BY <1>1 DEF BooksOnce, ClaimsHold
<1>. QED  BY <1>2 DEF OneStatement, Claims

Amount == [s \in Splits |-> split[s].amount]
Reconciled == {s \in Splits : split[s].live /\ split[s].state = "y"}
Worth == [l \in Lines |-> booked[l] * LineAmount[l]]

LEMMA AmountIs == ASSUME SplitsTyped PROVE Amount \in [Splits -> Int]
<1>1. \A s \in Splits : split[s].amount \in Int
  BY FinalizeAssumption DEF SplitsTyped, SplitRow
<1>. QED  BY <1>1 DEF Amount

LEMMA WorthIs == ASSUME BookedTyped PROVE Worth \in [Lines -> Int]
<1>1. \A l \in Lines : booked[l] \in Int /\ LineAmount[l] \in Int
  BY FinalizeAssumption DEF BookedTyped
<1>2. \A l \in Lines : booked[l] * LineAmount[l] \in Int
  BY <1>1
<1>. QED  BY <1>2 DEF Worth

\* The balance is the sum of the reconciled splits and of what the lines are worth.
LEMMA BalanceIs ==
  ASSUME SplitsTyped, BookedTyped
  PROVE  /\ Balance = SumFunctionOnSet(Amount, Reconciled) + SumFunctionOnSet(Worth, Lines)
         /\ SumFunctionOnSet(Amount, Reconciled) \in Int /\ SumFunctionOnSet(Worth, Lines) \in Int
<1>1. Balance = SumFunctionOnSet(Amount, Reconciled) + SumFunctionOnSet(Worth, Lines)
  BY Zenon DEF Balance, SumOf, Amount, Reconciled, Worth
<1>2. IsFiniteSet(Reconciled) /\ Reconciled \subseteq Splits /\ IsFiniteSet(Lines)
  <2>1. Reconciled \in SUBSET Splits
    BY DEF Reconciled
  <2>. QED  BY <2>1, FinalizeAssumption, FS_Subset
<1>3. /\ \A s \in Reconciled : Amount[s] \in Int
      /\ \A l \in Lines : Worth[l] \in Int
  BY <1>2, AmountIs, WorthIs
<1>. QED  BY <1>1, <1>2, <1>3, SumType

\* A change of splits that are not reconciled leaves the balance,
LEMMA BalanceKept ==
  ASSUME SplitsTyped, SplitsTyped', BookedTyped, BookedTyped', booked' = booked,
         \A s \in Splits : split'[s] # split[s] => split[s].state = "n" /\ split'[s].state = "n"
  PROVE  Balance' = Balance
<1>1. Reconciled' = Reconciled
  BY DEF Reconciled
<1>2. Worth' = Worth
  BY DEF Worth
<1>3. SumFunctionOnSet(Amount', Reconciled) = SumFunctionOnSet(Amount, Reconciled)
  <2>1. Reconciled \in SUBSET Splits /\ \A s \in Reconciled : Amount'[s] = Amount[s]
    BY DEF Reconciled, Amount
  <2>2. IsFiniteSet(Reconciled)
    BY <2>1, FinalizeAssumption, FS_Subset
  <2>. QED  BY <2>1, <2>2, SumEqual
<1>4. Balance' = SumFunctionOnSet(Amount', Reconciled') + SumFunctionOnSet(Worth', Lines)
  BY Zenon DEF Balance, SumOf, Amount, Reconciled, Worth
<1>. QED  BY <1>1, <1>2, <1>3, <1>4, BalanceIs, Zenon

\* and one that spares the matched splits leaves the tie-out.
LEMMA TieOutKept ==
  ASSUME SplitsTyped, SplitsTyped', NEW q \in Reqs, got' = got,
         MatchedSplits(q) \subseteq Splits, Balance' = Balance,
         \A s \in Splits : split'[s] # split[s] => s \notin Live(MatchedSplits(q)),
         \A s \in Splits : split'[s].live => split[s].live
  PROVE  /\ Live(MatchedSplits(q))' = Live(MatchedSplits(q))
         /\ TiesOut(q)' <=> TiesOut(q)
<1>1. MatchedSplits(q)' = MatchedSplits(q) /\ Added(q)' = Added(q)
  BY DEF MatchedSplits, ExplicitSplits, AutoSplits, Explicit, Added
<1>2. Live(MatchedSplits(q))' = Live(MatchedSplits(q))
  BY <1>1 DEF Live
<1>3. SumFunctionOnSet(Amount', Live(MatchedSplits(q))) = SumFunctionOnSet(Amount, Live(MatchedSplits(q)))
  <2>1. /\ Live(MatchedSplits(q)) \in SUBSET Splits
        /\ \A s \in Live(MatchedSplits(q)) : Amount'[s] = Amount[s]
    BY DEF Live, Amount
  <2>2. IsFiniteSet(Live(MatchedSplits(q)))
    BY <2>1, FinalizeAssumption, FS_Subset
  <2>. QED  BY <2>1, <2>2, SumEqual
<1>4. SumOf(Live(MatchedSplits(q)))' = SumOf(Live(MatchedSplits(q)))
  BY <1>2, <1>3, Zenon DEF SumOf, Amount
<1>5. EffectiveOpening(Target[q])' = EffectiveOpening(Target[q])
  BY DEF EffectiveOpening
<1>. QED  BY <1>1, <1>2, <1>4, <1>5, Zenon DEF TiesOut
\* Another's step leaves what a finalize has claimed, read and locked.
LEMMA OthersSpare ==
  ASSUME OneStatement, BooksOnce, BooksOnce', FinalizeTyped, FinalizeTyped',
         NEW p \in Reqs, Handle(p), NEW q \in Reqs, p # q, Claims(q)
  PROVE  /\ Decide(p) \/ Edit(p)
         /\ at'[q] = at[q] /\ UNCHANGED <<statusOf, booked, rows, got>>
         /\ \A s \in Splits : split'[s] # split[s] =>
               split[s].state = "n" /\ split'[s].state = "n" /\ rows[s] = NoReq
         /\ \A s \in Splits : split'[s].live => split[s].live
<1>1. held[Target[q]] = q /\ statusOf[Target[q]] = "parsed"
  BY OneClaims
<1>2. ~Claims(p)
  BY OneClaims
<1>3. Decide(p) \/ Edit(p)
  <2>1. ~Claim(p)
    BY <1>1, FinalizeAssumption DEF Claim, At, OneStatement, Claims
  <2>. QED  BY <1>2, <2>1 DEF Handle, Claims, At, OneStatement, ReadLines, ReadCandidates, LockRows,
         TieOut, Commit, ReadStatus, WriteStatus
<1>4. CASE Decide(p)
  <2>1. at' = [at EXCEPT ![p] = "done"] /\ UNCHANGED <<split, statusOf, booked, rows, got>>
    BY <1>4 DEF Decide, GoOn, locks
  <2>. QED  BY <1>3, <2>1 DEF BooksOnce, BookedTyped
<1>5. CASE Edit(p)
  <2>1. PICK s \in Splits, row \in SplitRow :
           /\ split[s].state = "n" /\ rows[s] = NoReq /\ row.state = "n"
           /\ split[s].live /\ split' = [split EXCEPT ![s] = row]
    BY <1>5, EditTells DEF FinalizeTyped
  <2>2. split'[s] = row /\ \A t \in Splits \ {s} : split'[t] = split[t]
    BY <2>1 DEF FinalizeTyped, SplitsTyped
  <2>3. at'[q] = at[q] /\ UNCHANGED <<statusOf, booked, rows, got>>
    BY <1>5, EditTells DEF FinalizeTyped, BooksOnce, BookedTyped
  <2>. QED  BY <1>3, <2>1, <2>2, <2>3
<1>. QED  BY <1>3, <1>4, <1>5

LEMMA StillTiesStart == FinalizeInit => StillTies
BY FinalizeAssumption DEF FinalizeInit, StillTies, Mine

\* What holds of a finalize for an open statement and its lines.
LinesOpen(q) ==
    statusOf[Target[q]] = "parsed" =>
      \A l \in Mine(q) : line[l].state = "matched" /\ line[l].split # NoSplit
                           => split[line[l].split].state = "n"

LEMMA LinesOpenStep ==
  ASSUME OneStatement, BooksOnce, FinalizeTyped, FinalizeTyped', [FinalizeNext]_finalizeVars,
         NEW q \in Reqs, Kind[q] = "finalize", LinesOpen(q)
  PROVE  LinesOpen(q)'
<1>. USE FinalizeAssumption DEF At, locks, data
<1>1. CASE UNCHANGED <<line, split, statusOf>>
  BY <1>1 DEF LinesOpen, Mine
<1>2. ASSUME NEW p \in Reqs, Commit(p) PROVE LinesOpen(q)'
  <2>1. statusOf'[Target[q]] = "reconciled"
    BY <1>2 DEF Commit, OneStatement, BooksOnce, BookedTyped
  <2>. QED  BY <2>1 DEF LinesOpen
<1>3. ASSUME NEW p \in Reqs, Decide(p) PROVE LinesOpen(q)'
  <2>1. split' = split /\ statusOf' = statusOf
    BY <1>3 DEF Decide
  <2>2. \A l \in Lines : line'[l] = line[l] \/ (line'[l].state = "matched" => split[line'[l].split].state = "n")
    BY <1>3 DEF Decide, FinalizeTyped, Live
  <2>. QED  BY <2>1, <2>2 DEF LinesOpen, Mine
<1>4. ASSUME NEW p \in Reqs, Edit(p) PROVE LinesOpen(q)'
  <2>1. PICK s \in Splits, row \in SplitRow :
           row.state = "n" /\ split' = [split EXCEPT ![s] = row]
    BY <1>4, EditTells DEF FinalizeTyped
  <2>2. UNCHANGED <<line, statusOf>>
    BY <1>4, EditTells DEF FinalizeTyped
  <2>3. \A t \in Splits : split[t].state = "n" => split'[t].state = "n"
    BY <2>1 DEF FinalizeTyped, SplitsTyped
  <2>4. \A l \in Mine(q) : line[l].split # NoSplit => line[l].split \in Splits
    BY DEF FinalizeTyped, Line, Mine
  <2>. QED  BY <2>2, <2>3, <2>4 DEF LinesOpen, Mine
<1>5. ASSUME NEW p \in Reqs, ReadStatus(p) \/ WriteStatus(p) PROVE FALSE
  BY <1>5 DEF ReadStatus, WriteStatus, OneStatement
<1>. QED  BY <1>1, <1>2, <1>3, <1>4, <1>5 DEF FinalizeNext, Handle, finalizeVars,
      Claim, ReadLines, ReadCandidates, LockRows, TieOut

\* What holds of a finalize that goes on.
MatchesOpen(q) ==
    /\ at[q] \in {"read", "matched", "locked", "tied"} =>
         \A s \in ExplicitSplits(q) : split[s].state = "n"
    /\ at[q] \in {"matched", "locked", "tied"} =>
         \A s \in AutoSplits(q) : split[s].state = "n"
    /\ at[q] \in {"locked", "tied"} => \A s \in Live(MatchedSplits(q)) : rows[s] = q
    /\ at[q] = "tied" => TiesOut(q)

LEMMA MatchesOpenBesides ==
  ASSUME OneStatement, BooksOnce, BooksOnce', FinalizeTyped, FinalizeTyped',
         NEW p \in Reqs, Handle(p), NEW q \in Reqs, Kind[q] = "finalize", p # q, MatchesOpen(q)
  PROVE  MatchesOpen(q)'
<1>. USE FinalizeAssumption
<1>1. CASE ~Claims(q)
  <2>1. at'[q] = at[q]
    <3>1. \E place : at' = [at EXCEPT ![p] = place]
      BY DEF Handle, Claim, ReadLines, ReadCandidates, LockRows, TieOut, Commit, Decide,
             ReadStatus, WriteStatus, Edit, GoOn
    <3>. QED  BY <3>1 DEF BooksOnce, BookedTyped
  <2>. QED  BY <1>1, <2>1 DEF Claims, MatchesOpen
<1>2. CASE Claims(q)
  <2>1. /\ at'[q] = at[q] /\ UNCHANGED <<statusOf, booked, rows, got>>
        /\ \A s \in Splits : split'[s] # split[s] =>
               split[s].state = "n" /\ split'[s].state = "n" /\ rows[s] = NoReq
        /\ \A s \in Splits : split'[s].live => split[s].live
    BY <1>2, OthersSpare
  <2>2. /\ ExplicitSplits(q)' = ExplicitSplits(q) /\ AutoSplits(q)' = AutoSplits(q)
    BY <2>1 DEF ExplicitSplits, AutoSplits, Explicit
  <2>3. \A s \in Splits : split[s].state = "n" => split'[s].state = "n"
    BY <2>1
  <2>4. /\ Finalizing(q, {"read", "matched", "locked", "tied"}) => ExplicitSplits(q) \subseteq Splits
        /\ Finalizing(q, {"matched", "locked", "tied"}) =>
              MatchedSplits(q) \subseteq Splits /\ AutoSplits(q) \subseteq Splits
    BY MatchedAreSplits DEF MatchedSplits
  <2>5. CASE at[q] \in {"locked", "tied"}
    <3>1. MatchedSplits(q) \subseteq Splits
      BY <2>4, <2>5 DEF Finalizing
    <3>2. Balance' = Balance
      BY <2>1, BalanceKept DEF FinalizeTyped, BooksOnce
    <3>3. \A s \in Splits : split'[s] # split[s] => s \notin Live(MatchedSplits(q))
      BY <2>1, <2>5 DEF MatchesOpen
    <3>4. /\ Live(MatchedSplits(q))' = Live(MatchedSplits(q))
          /\ TiesOut(q)' <=> TiesOut(q)
      BY <2>1, <3>1, <3>2, <3>3, TieOutKept DEF FinalizeTyped
    <3>5. \A s \in Live(MatchedSplits(q))' : rows'[s] = q
      BY <2>1, <2>5, <3>4, Zenon DEF MatchesOpen
    <3>6. at'[q] = "tied" => TiesOut(q)'
      BY <2>1, <3>4 DEF MatchesOpen
    <3>7. /\ \A s \in ExplicitSplits(q)' : split'[s].state = "n"
          /\ \A s \in AutoSplits(q)' : split'[s].state = "n"
      BY <2>2, <2>3, <2>4, <2>5 DEF MatchesOpen, Finalizing
    <3>. QED  BY <3>5, <3>6, <3>7 DEF MatchesOpen
  <2>6. CASE at[q] \notin {"locked", "tied"}
    <3>1. /\ at[q] \in {"read", "matched", "locked", "tied"} =>
                \A s \in ExplicitSplits(q)' : split'[s].state = "n"
          /\ at[q] \in {"matched", "locked", "tied"} =>
                \A s \in AutoSplits(q)' : split'[s].state = "n"
      BY <2>2, <2>3, <2>4 DEF MatchesOpen, Finalizing
    <3>. QED  BY <2>1, <2>6, <3>1 DEF MatchesOpen
  <2>. QED  BY <2>5, <2>6
<1>. QED  BY <1>1, <1>2

LEMMA MatchesOpenItself ==
  ASSUME OneStatement, BooksOnce, BooksOnce', FinalizeTyped, FinalizeTyped',
         NEW q \in Reqs, Handle(q), Kind[q] = "finalize", LinesOpen(q), MatchesOpen(q)
  PROVE  MatchesOpen(q)'
<1>. USE FinalizeAssumption DEF At, GoOn, locks, data
<1>0. BookedTyped /\ GotShaped
  BY DEF BooksOnce
<1>1. CASE Claim(q)
  <2>1. at'[q] \in {"claimed", "done"}
    BY <1>0, <1>1 DEF Claim, BookedTyped
  <2>. QED  BY <2>1 DEF MatchesOpen
<1>2. CASE ReadLines(q)
  <2>1. /\ got' = [got EXCEPT ![q].lines = [l \in Mine(q) |-> line[l]]]
        /\ at[q] = "claimed" /\ at'[q] = "read" /\ split' = split
    BY <1>0, <1>2 DEF ReadLines, BookedTyped
  <2>2. DOMAIN got'[q].lines = Mine(q) /\ \A l \in Mine(q) : got'[q].lines[l] = line[l]
    <3>. DEFINE x == [l \in Mine(q) |-> line[l]]
    <3>1. got' = [got EXCEPT ![q].lines = x] /\ DOMAIN x = Mine(q) /\ \A l \in Mine(q) : x[l] = line[l]
      BY <2>1
    <3>. HIDE DEF x
    <3>. QED  BY <1>0, <3>1, LinesTell, ZenonT(60)
  <2>3. statusOf[Target[q]] = "parsed"
    BY <2>1, OneClaims DEF Claims
  <2>4. \A s \in ExplicitSplits(q)' : split'[s].state = "n"
    <3>1. \A l \in Explicit(q)' : /\ l \in Mine(q) /\ got'[q].lines[l] = line[l]
                                  /\ line[l].state = "matched" /\ line[l].split # NoSplit
      BY <2>2 DEF Explicit
    <3>2. \A l \in Explicit(q)' : split'[got'[q].lines[l].split].state = "n"
      BY <2>1, <2>3, <3>1 DEF LinesOpen
    <3>. QED  BY <3>2 DEF ExplicitSplits
  <2>. QED  BY <2>1, <2>4 DEF MatchesOpen
<1>3. CASE ReadCandidates(q)
  <2>1. /\ at[q] = "read" /\ at'[q] = "matched" /\ got'[q].lines = got[q].lines
        /\ Exact(Undecided(q), Pool(q), got'[q].auto) /\ split' = split
    BY <1>0, <1>3, CandidatesTell DEF BookedTyped, Finalizing
  <2>2. ExplicitSplits(q)' = ExplicitSplits(q)
    BY <2>1 DEF ExplicitSplits, Explicit
  <2>3. \A s \in AutoSplits(q)' : s \in Pool(q)
    BY <2>1 DEF AutoSplits, Exact
  <2>4. \A s \in Pool(q) : split[s].state = "n"
    BY DEF Pool, getCandidateSplits, Live, FinalizeTyped, SplitsTyped, SplitRow
  <2>5. \A s \in ExplicitSplits(q)' : split'[s].state = "n"
    BY <2>1, <2>2 DEF MatchesOpen
  <2>6. \A s \in AutoSplits(q)' : split'[s].state = "n"
    BY <2>1, <2>3, <2>4
  <2>. QED  BY <2>1, <2>5, <2>6 DEF MatchesOpen
<1>4. CASE LockRows(q)
  <2>1. /\ at[q] = "matched" /\ at'[q] = "locked" /\ split' = split /\ got' = got
        /\ rows' = [s \in Splits |-> IF s \in Live(MatchedSplits(q)) THEN q ELSE rows[s]]
    BY <1>0, <1>4 DEF LockRows, BookedTyped
  <2>2. /\ ExplicitSplits(q)' = ExplicitSplits(q) /\ AutoSplits(q)' = AutoSplits(q)
        /\ Live(MatchedSplits(q))' = Live(MatchedSplits(q))
    BY <2>1 DEF MatchedSplits, ExplicitSplits, AutoSplits, Explicit, Live
  <2>3. Live(MatchedSplits(q)) \subseteq Splits
    BY <2>1, MatchedAreSplits DEF Finalizing, Live
  <2>4. \A s \in Live(MatchedSplits(q))' : rows'[s] = q
    BY <2>1, <2>2, <2>3
  <2>5. /\ \A s \in ExplicitSplits(q)' : split'[s].state = "n"
        /\ \A s \in AutoSplits(q)' : split'[s].state = "n"
    BY <2>1, <2>2 DEF MatchesOpen
  <2>. QED  BY <2>1, <2>4, <2>5 DEF MatchesOpen
<1>5. CASE TieOut(q)
  <2>1. at[q] = "locked" /\ got' = got /\ split' = split /\ booked' = booked
    BY <1>5 DEF TieOut
  <2>2. CASE TiesOut(q)
    <3>1. at'[q] = "tied" /\ rows' = rows
      BY <1>0, <1>5, <2>2 DEF TieOut, BookedTyped
    <3>2. /\ ExplicitSplits(q)' = ExplicitSplits(q) /\ AutoSplits(q)' = AutoSplits(q)
          /\ Live(MatchedSplits(q))' = Live(MatchedSplits(q)) /\ MatchedSplits(q) \subseteq Splits
      <4>1. MatchedSplits(q) \subseteq Splits
        BY <2>1, MatchedAreSplits DEF Finalizing
      <4>. QED  BY <2>1, <4>1 DEF MatchedSplits, ExplicitSplits, AutoSplits, Explicit, Live
    <3>3. Balance' = Balance
      BY <2>1, BalanceKept DEF FinalizeTyped, BooksOnce
    <3>4. TiesOut(q)'
      BY <2>1, <2>2, <3>2, <3>3, TieOutKept DEF FinalizeTyped
    <3>5. \A s \in Live(MatchedSplits(q))' : rows'[s] = q
      BY <2>1, <3>1, <3>2, Zenon DEF MatchesOpen
    <3>6. /\ \A s \in ExplicitSplits(q)' : split'[s].state = "n"
          /\ \A s \in AutoSplits(q)' : split'[s].state = "n"
      BY <2>1, <3>2 DEF MatchesOpen
    <3>. QED  BY <3>1, <3>4, <3>5, <3>6 DEF MatchesOpen
  <2>3. CASE ~TiesOut(q)
    <3>1. at'[q] = "done"
      BY <1>0, <1>5, <2>3 DEF TieOut, BookedTyped
    <3>. QED  BY <3>1 DEF MatchesOpen
  <2>. QED  BY <2>2, <2>3
<1>6. CASE Commit(q)
  <2>1. at'[q] = "done"
    BY <1>0, <1>6 DEF Commit, BookedTyped
  <2>. QED  BY <2>1 DEF MatchesOpen
<1>. QED  BY <1>1, <1>2, <1>3, <1>4, <1>5, <1>6 DEF Handle, Decide, ReadStatus, WriteStatus, Edit

LEMMA StillTiesStep ==
  OneStatement /\ BooksOnce /\ BooksOnce' /\ FinalizeTyped /\ FinalizeTyped' /\ StillTies
    /\ [FinalizeNext]_finalizeVars => StillTies'
<1>. SUFFICES ASSUME OneStatement, BooksOnce, BooksOnce', FinalizeTyped, FinalizeTyped', StillTies,
                     [FinalizeNext]_finalizeVars, NEW q \in Reqs, Kind[q] = "finalize"
              PROVE  LinesOpen(q)' /\ MatchesOpen(q)'
  BY DEF StillTies, LinesOpen, MatchesOpen
<1>1. LinesOpen(q) /\ MatchesOpen(q)
  BY DEF StillTies, LinesOpen, MatchesOpen
<1>2. LinesOpen(q)'
  BY <1>1, LinesOpenStep
<1>3. MatchesOpen(q)'
  <2>1. CASE UNCHANGED finalizeVars
    BY <1>1, <2>1 DEF finalizeVars, locks, data, MatchesOpen, TiesOut, MatchedSplits, ExplicitSplits, AutoSplits,
       Explicit, Added, Live, SumOf, EffectiveOpening, Balance
  <2>2. CASE FinalizeNext
    <3>1. PICK p \in Reqs : Handle(p)
      BY <2>2 DEF FinalizeNext
    <3>. QED  BY <1>1, <3>1, MatchesOpenItself, MatchesOpenBesides
  <2>. QED  BY <2>1, <2>2
<1>. QED  BY <1>2, <1>3

LEMMA WorthRaised ==
  ASSUME NEW f, NEW h, NEW A \in SUBSET Lines,
         \A l \in Lines : f[l] \in Int /\ LineAmount[l] \in Int,
         \A l \in Lines : h[l] = IF l \in A THEN f[l] + LineAmount[l] ELSE f[l]
  PROVE  SumFunctionOnSet(h, Lines) = SumFunctionOnSet(f, Lines) + SumFunctionOnSet(LineAmount, A)
<1>1. IsFiniteSet(Lines)
  BY FinalizeAssumption
<1>2. PICK g, S : g = LineAmount /\ S = Lines
  OBVIOUS
<1>3. /\ IsFiniteSet(S) /\ A \in SUBSET S
      /\ \A l \in S : f[l] \in Int /\ g[l] \in Int
      /\ \A l \in S : h[l] = IF l \in A THEN f[l] + g[l] ELSE f[l]
  BY <1>1, <1>2
<1>4. SumFunctionOnSet(h, S) = SumFunctionOnSet(f, S) + SumFunctionOnSet(g, A)
  BY <1>3, SumRaised
<1>. QED  BY <1>2, <1>4, Zenon

\* A commit moves the balance by what it reconciles and by what it adds.
LEMMA CommitMoves ==
  ASSUME BooksOnce, BookedTyped', FinalizeTyped, FinalizeTyped', NEW q \in Reqs, Commit(q),
         \A s \in MatchedSplits(q) : split[s].state = "n"
  PROVE  /\ Balance' = Balance + SumOf(Live(MatchedSplits(q))) + SumFunctionOnSet(LineAmount, Added(q))
         /\ SumOf(Live(MatchedSplits(q))) \in Int /\ SumFunctionOnSet(LineAmount, Added(q)) \in Int
<1>. DEFINE M == Live(MatchedSplits(q))
<1>. USE FinalizeAssumption
<1>0. SplitsTyped /\ BookedTyped /\ SplitsTyped'
  BY DEF FinalizeTyped, BooksOnce
<1>1. /\ booked' = [l \in Lines |-> booked[l] + IF l \in Added(q) THEN 1 ELSE 0]
      /\ split' = [s \in Splits |-> IF s \in M THEN [split[s] EXCEPT !.state = "y"] ELSE split[s]]
      /\ Finalizing(q, {"tied"})
  BY DEF Commit, Finalizing, At
<1>2. M \in SUBSET Splits /\ Added(q) \in SUBSET Lines /\ \A s \in M : split[s].state = "n" /\ split[s].live
  BY <1>1, MatchedAreSplits, ReadSets DEF Finalizing, Live
<1>3. Reconciled' = Reconciled \cup M
  <2>. HIDE DEF M
  <2>1. \A s \in Splits : (split'[s].live /\ split'[s].state = "y") <=>
                             (split[s].live /\ split[s].state = "y") \/ s \in M
    BY <1>0, <1>1, <1>2 DEF SplitsTyped, SplitRow
  <2>. QED  BY <1>2, <2>1 DEF Reconciled
<1>4. Amount' = Amount
  <2>. HIDE DEF M
  <2>1. \A s \in Splits : split'[s].amount = split[s].amount
    BY <1>0, <1>1 DEF SplitsTyped, SplitRow
  <2>. QED  BY <2>1 DEF Amount
<1>5. /\ IsFiniteSet(Reconciled) /\ IsFiniteSet(M) /\ IsFiniteSet(Added(q)) /\ Reconciled \cap M = {}
      /\ \A s \in Reconciled \cup M : Amount[s] \in Int
  <2>. HIDE DEF M
  <2>1. Reconciled \in SUBSET Splits /\ Reconciled \cap M = {}
    BY <1>2 DEF Reconciled
  <2>. QED  BY <1>0, <1>2, <2>1, FS_Subset, AmountIs
<1>6. SumFunctionOnSet(Amount', Reconciled') = SumFunctionOnSet(Amount, Reconciled) + SumFunctionOnSet(Amount, M)
  <2>. HIDE DEF M
  <2>1. SumFunctionOnSet(Amount, Reconciled \cup M) = SumFunctionOnSet(Amount, Reconciled) + SumFunctionOnSet(Amount, M)
    BY <1>5, SumUnion
  <2>. QED  BY <1>3, <1>4, <2>1, Zenon
<1>7. SumFunctionOnSet(Worth', Lines) = SumFunctionOnSet(Worth, Lines) + SumFunctionOnSet(LineAmount, Added(q))
  <2>1. \A l \in Lines : Worth[l] \in Int /\ LineAmount[l] \in Int
    BY <1>0, WorthIs
  <2>2. \A l \in Lines : Worth'[l] = IF l \in Added(q) THEN Worth[l] + LineAmount[l] ELSE Worth[l]
    <3>1. ASSUME NEW l \in Lines PROVE /\ booked[l] \in Nat /\ LineAmount[l] \in Int
                                       /\ Worth[l] = booked[l] * LineAmount[l]
                                       /\ Worth'[l] = booked'[l] * LineAmount[l]
                                       /\ booked'[l] = booked[l] + IF l \in Added(q) THEN 1 ELSE 0
      BY <1>0, <1>1 DEF Worth, BookedTyped
    <3>2. \A b \in Nat, a \in Int : (b + 1) * a = b * a + a /\ (b + 0) * a = b * a
      OBVIOUS
    <3>. QED  BY <3>1, <3>2
  <2>. QED  BY <1>2, <2>1, <2>2, WorthRaised
<1>8. /\ SumFunctionOnSet(Amount, M) \in Int /\ SumFunctionOnSet(LineAmount, Added(q)) \in Int
      /\ SumOf(M) = SumFunctionOnSet(Amount, M)
  <2>1. SumOf(M) = SumFunctionOnSet(Amount, M)
    BY Zenon DEF SumOf, Amount
  <2>2. \A l \in Added(q) : LineAmount[l] \in Int
    BY <1>2
  <2>. HIDE DEF M
  <2>. QED  BY <1>5, <2>1, <2>2, SumType
<1>9. Balance' = SumFunctionOnSet(Amount', Reconciled') + SumFunctionOnSet(Worth', Lines)
  BY Zenon DEF Balance, SumOf, Amount, Reconciled, Worth
<1>10. /\ Balance = SumFunctionOnSet(Amount, Reconciled) + SumFunctionOnSet(Worth, Lines)
       /\ SumFunctionOnSet(Amount, Reconciled) \in Int /\ SumFunctionOnSet(Worth, Lines) \in Int
  BY <1>0, BalanceIs
<1>. QED
  <2>. HIDE DEF M
  <2>1. Balance' = Balance + SumOf(M) + SumFunctionOnSet(LineAmount, Added(q))
    BY <1>6, <1>7, <1>8, <1>9, <1>10
  <2>2. SumOf(M) \in Int
    BY <1>8
  <2>. USE DEF M
  <2>. QED  BY <1>8, <2>1, <2>2

\* finalizeReconcile (FinalizeTiesOut): for any lines, candidates, edits and number of
\* requests, a finalize that ties out from the reconciled balance of the account arrives at
\* the statement's closing balance, as long as no other statement of the account is finalized
\* and none is opened again.
THEOREM TiedOut == ASSUME OneStatement PROVE FinalizeSpec => FinalizeTiesOut
<1>1. ASSUME BooksOnce, BooksOnce', FinalizeTyped, FinalizeTyped', StillTies,
             [FinalizeNext]_finalizeVars
      PROVE  [ArrivesAtClosing]_finalizeVars
  <2>. SUFFICES ASSUME NEW q \in Reqs, Commit(q), Balance = EffectiveOpening(Target[q])
                PROVE  Balance' = Closing[Target[q]]
    BY DEF ArrivesAtClosing
  <2>1. at[q] = "tied" /\ Kind[q] = "finalize"
    BY DEF Commit, At
  <2>2. TiesOut(q) /\ \A s \in MatchedSplits(q) : split[s].state = "n"
    BY <1>1, <2>1 DEF StillTies, MatchedSplits
  <2>3. /\ Balance' = Balance + SumOf(Live(MatchedSplits(q))) + SumFunctionOnSet(LineAmount, Added(q))
        /\ SumOf(Live(MatchedSplits(q))) \in Int /\ SumFunctionOnSet(LineAmount, Added(q)) \in Int
    BY <1>1, <2>2, CommitMoves DEF BooksOnce
  <2>4. Balance \in Int
    BY <1>1, BalanceIs DEF BooksOnce, FinalizeTyped
  <2>5. Closing[Target[q]] \in Int
    BY FinalizeAssumption
  <2>. QED  BY <2>2, <2>3, <2>4, <2>5 DEF TiesOut
<1>2. BooksOnce /\ FinalizeTyped /\ StillTies /\ [FinalizeNext]_finalizeVars
        => BooksOnce' /\ FinalizeTyped' /\ StillTies'
  BY FinalizeStep, FinalizeTypedStep, StillTiesStep
<1>. QED  BY <1>1, <1>2, FinalizeStart, FinalizeTypedStart, StillTiesStart, PTL DEF FinalizeSpec, FinalizeTiesOut
==============================================================================
