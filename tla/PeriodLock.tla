---------------------------- MODULE PeriodLock ----------------------------
(***************************************************************************)
(* The period lock across processes (src/src/lib/services/                  *)
(* period-lock.service.ts, book-settings.service.ts): the stored lock date, *)
(* the cache that each process keeps of it, the requests that ask before    *)
(* they write, and the administrator who moves it.  The routes that edit    *)
(* transactions ask a second time in their transaction and past the cache   *)
(* (Ledger's LockCheck); undo, payslips, invoices, packages, imports and    *)
(* executions ask through the cache and once.  Time is counted in ticks.    *)
(***************************************************************************)
EXTENDS Integers

CONSTANTS
    Procs, NoProc,  \* processes of the server: web, worker
    Writers, ProcOf,
    Bypassing,      \* the requests that ask with bypassCache
    DateOf,         \* the date that a request is about to write to
    MaxDate,        \* dates are 1..MaxDate, and 0 is "no lock date"
    TTL,            \* LOCK_CACHE_TTL_MS
    Slow,           \* ticks that an answer of the database may take
    MaxChanges, MaxRestarts

\* Assumed by the modules that use this one.
LockAssumption ==
    /\ ProcOf \in [Writers -> Procs] /\ NoProc \notin Procs
    /\ Bypassing \subseteq Writers
    /\ DateOf \in [Writers -> 1..MaxDate]
    /\ MaxDate \in Nat /\ TTL \in Nat \ {0} /\ Slow \in Nat
    /\ MaxChanges \in Nat /\ MaxRestarts \in Nat

VARIABLES
    stored,   \* gnucash_web_book_settings.lock_date
    cache,    \* lockCache of a process: a date and the ticks it is good for
    check,    \* a request: its place, the date it was answered, the age of that
              \* answer, and whether the lock must by now be known to it
    closing,  \* processes where setLockDate has committed and not yet returned
    setter,   \* the process that stored the date
    since,    \* ticks since then
    budget

lockVars == <<stored, cache, check, closing, setter, since, budget>>

\* By then every copy of an older date has expired.
Settling == TTL + Slow

Empty == [date |-> 0, left |-> 0]
NoCheck == [at |-> "idle", date |-> 0, age |-> 0, sure |-> FALSE]

LockTypeOK ==
    /\ stored \in 0..MaxDate
    /\ cache \in [Procs -> [date : 0..MaxDate, left : 0..TTL]]
    /\ check \in [Writers -> [at : {"idle", "asking", "passed"}, date : 0..MaxDate,
                              age : 0..Slow, sure : BOOLEAN]]
    /\ closing \subseteq Procs /\ setter \in Procs \cup {NoProc}
    /\ since \in 0..Settling
    /\ budget \in [changes : 0..MaxChanges, restarts : 0..MaxRestarts]

LockInit ==
    /\ stored = 0 /\ since = Settling /\ setter = NoProc /\ closing = {}
    /\ cache = [p \in Procs |-> Empty]
    /\ check = [r \in Writers |-> NoCheck]
    /\ budget = [changes |-> MaxChanges, restarts |-> MaxRestarts]

\* findLockedDate: the boundary day itself is locked.
Locked(r, date) == DateOf[r] <= date
Verdict(r, date, sure) ==
    IF Locked(r, date) THEN NoCheck ELSE [at |-> "passed", date |-> date, age |-> 0, sure |-> sure]

Sure(r) == r \in Bypassing \/ since = Settling

\* getCachedLockDate finds a live entry.
HitRenews(r) ==
    LET p == ProcOf[r]
    IN  /\ check[r].at = "idle" /\ r \notin Bypassing /\ cache[p].left > 0
        /\ check' = [check EXCEPT ![r] = Verdict(r, cache[p].date, Sure(r))]
        /\ cache' = [cache EXCEPT ![p].left = TTL]
        /\ UNCHANGED <<stored, closing, setter, since, budget>>
Hit(r) ==
    LET p == ProcOf[r]
    IN  /\ check[r].at = "idle" /\ r \notin Bypassing /\ cache[p].left > 0
        /\ check' = [check EXCEPT ![r] = Verdict(r, cache[p].date, Sure(r))]
        /\ UNCHANGED <<stored, cache, closing, setter, since, budget>>

\* It finds none, or does not look: the database is asked, and answers later.
Ask(r) ==
    /\ check[r].at = "idle" /\ (r \in Bypassing \/ cache[ProcOf[r]].left = 0)
    /\ check' = [check EXCEPT ![r] =
                   [at |-> "asking", date |-> stored, age |-> 0, sure |-> Sure(r)]]
    /\ UNCHANGED <<stored, cache, closing, setter, since, budget>>

\* The answer is cached, whoever asked and whatever has been dropped meanwhile.
Answer(r) ==
    /\ check[r].at = "asking"
    /\ cache' = [cache EXCEPT ![ProcOf[r]] = [date |-> check[r].date, left |-> TTL]]
    /\ check' = [check EXCEPT ![r] = Verdict(r, check[r].date, check[r].sure)]
    /\ UNCHANGED <<stored, closing, setter, since, budget>>

\* The request commits its write, or gives up.
Write(r) ==
    /\ check[r].at = "passed"
    /\ check' = [check EXCEPT ![r] = NoCheck]
    /\ UNCHANGED <<stored, cache, closing, setter, since, budget>>

\* setLockDate: the row, then the cache of its own process.
Store(p) ==
    /\ p \notin closing /\ budget.changes > 0
    /\ \E d \in (0..MaxDate) \ {stored} : stored' = d
    /\ closing' = closing \cup {p} /\ setter' = p /\ since' = 0
    /\ check' = [r \in Writers |-> [check[r] EXCEPT !.sure = FALSE]]
    /\ budget' = [budget EXCEPT !.changes = @ - 1]
    /\ UNCHANGED cache

Invalidate(p) ==
    /\ p \in closing
    /\ closing' = closing \ {p}
    /\ cache' = [cache EXCEPT ![p] = Empty]
    /\ UNCHANGED <<stored, check, setter, since, budget>>

Restart(p) ==
    /\ budget.restarts > 0 /\ budget' = [budget EXCEPT !.restarts = @ - 1]
    /\ cache' = [cache EXCEPT ![p] = Empty]
    /\ closing' = closing \ {p}
    /\ check' = [r \in Writers |-> IF ProcOf[r] = p THEN NoCheck ELSE check[r]]
    /\ UNCHANGED <<stored, setter, since>>

Tick ==
    /\ \A r \in Writers : check[r].at = "asking" => check[r].age < Slow
    /\ check' = [r \in Writers |-> IF check[r].at = "asking"
                                   THEN [check[r] EXCEPT !.age = @ + 1] ELSE check[r]]
    /\ cache' = [p \in Procs |-> [cache[p] EXCEPT !.left = IF @ = 0 THEN 0 ELSE @ - 1]]
    /\ since' = IF since = Settling THEN since ELSE since + 1
    /\ UNCHANGED <<stored, closing, setter, budget>>

LockNext ==
    \/ \E r \in Writers : Hit(r) \/ Ask(r) \/ Answer(r) \/ Write(r)
    \/ \E p \in Procs : Store(p) \/ Invalidate(p) \/ Restart(p)
    \/ Tick

LockSpec == LockInit /\ [][LockNext]_lockVars

---------------------------------------------------------------------------

PassedChecks == {r \in Writers : check[r].at = "passed" /\ check[r].sure}

\* A check past the cache that began after the date was stored never lets a
\* write into the closed period, whatever the caches hold.
BypassSeesTheLock == \A r \in PassedChecks \cap Bypassing : DateOf[r] > stored

\* A lock date takes hold: once the TTL and the slowest answer have passed since
\* it was stored, no process lets a write into the closed period, even one that
\* was never told, or whose reader put the old date back after the invalidation.
SettledLockHolds == \A r \in PassedChecks : DateOf[r] > stored

\* getCachedLockDate: whatever the caches hold, a check past them that began after
\* the date was stored never lets a write into the closed period, nor does any
\* check once the TTL and the slowest answer have passed since.
LockTakesHold == BypassSeesTheLock /\ SettledLockHolds

\* What makes it inductive.  An entry of a cache with another date than the stored
\* one, which may have come from an answer that was under way when that was
\* stored, expires before the settling time is over;
StaleEntriesExpire ==
    \A p \in Procs :
        cache[p].left > 0 => cache[p].date = stored \/ cache[p].left + since <= Settling

\* an answer under way with another date than the stored one was asked for before
\* that was stored, and nobody counts on it.
StaleAnswersAge ==
    \A r \in Writers :
        check[r].at = "asking" =>
            check[r].date = stored \/ (~check[r].sure /\ since <= check[r].age)

LockInv == LockTypeOK /\ StaleEntriesExpire /\ StaleAnswersAge /\ SettledLockHolds

===========================================================================
