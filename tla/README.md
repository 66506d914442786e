# A TLA+ verification of gnucash-web's concurrent core

gnucash-web is a Next.js application over a GnuCash database in PostgreSQL.
Several browsers, phones, background workers and webhook senders edit one book
at once, each through an HTTP handler that runs a handful of SQL statements.
This directory holds TLA+ modules of the parts where the order of those
statements decides whether the books stay right, TLC configurations that check
them on small instances, and TLAPS proofs for every value of the constants.

Run from this directory:

    tlc -workers 2 -config MCLedgerEdits.cfg MCLedger.tla
    tlapm LedgerProofs.tla

`PROJECT.json` names every run, every definition's source lines, every hazard
with the properties that watch it, and for each property a mutant of the code
that violates it (the operators marked "Mutant" in the modules).

## 1. Inventory

Paths are under `src/lib/` unless they start with `app/` (`src/app/`).

| Component | State it keeps | Operations | What is hard | What makes it correct |
|---|---|---|---|---|
| Inbound webhooks, idempotency (`webhook-idempotency.ts`, `app/api/webhooks/inbound/*`) | one claim row per (book, endpoint, key): state, attempts, claim time, result | claim, replay, fenced write and completion, release, operator re-arm | retries, claims that go stale under a live worker, crash between write and completion, lost commit acknowledgement | one ledger entry per key; a success names it; no key is stuck |
| Ledger editing (`app/api/transactions/*`, `app/api/splits/*`, `bulk-edit.ts`, `services/reconciled-split.service.ts`) | transactions with the version token `enter_date`, splits with reconcile states | create, save, delete, bulk edit, recategorize, move, reconcile toggles | reads before the transaction, row locks of several rows, guards against reconciled splits | no lost update; reconciled splits are frozen; no deadlock |
| Manual reconciliation (`reconcile.ts`) | reconcile states of an account's splits, the session's record | finalize, with or without an adjustment | an aggregate over unlocked rows, an advisory lock taken before row locks | the account ties out to the statement |
| Period lock (`services/period-lock.service.ts`, `services/book-settings.service.ts`) | lock date, a 1 s cache of it | check (cached and in the transaction), set | the date changes between check and commit; the boundary day | nothing in a closed period changes |
| Audit trail and undo (`services/audit.service.ts`) | append-only entries with before- and after-images | log, undo an UPDATE, DELETE or CREATE | two undos of one entry, rows deleted and re-inserted under one guid, old version tokens brought back | an entry is undone once; an undo discards nothing it does not know |
| Offline quick add (`quick-add-queue.ts`, `hooks/useQuickAddSync.ts`, `app/(main)/quick-add/page.tsx`) | an IndexedDB queue shared by tabs | capture, sync, retry, delete | lost answers, several tabs, a tab that dies, get-then-put | no captured entry is lost; all are posted in the end |
| Scheduled transactions (`services/scheduled-tx-execute.ts`, `services/scheduled-tx-create.ts`, `scheduled-transactions.ts`, `recurrence.ts`) | schedule row with counters, a template of accounts and splits | record, skip, edit, delete, create, enable | double recording, a template read in several statements while it is edited, rounding | an occurrence is booked once; the template is posted whole and balanced |
| Imported statements (`statement-reconcile-data.ts`, `statement-reconcile.ts`, `statement-ingest.ts`, `queue/statement-recovery.ts`) | statement batches, their lines, the extraction jobs | extract, recover, re-parse, assign, decide, finalize, delete | workers die and are redelivered; two lists recover one batch; candidates read before the locks | a parsed batch has its lines, an attempt one extraction; lines are booked once; the account arrives at the closing balance; no batch is stuck |
| Accounts and their locks (`services/account.service.ts`, `account-lock-order.ts`, `default-book.ts`, `book-lock.ts`) | the tree of accounts; advisory locks of books and sibling names, row locks | create, update, move, delete, graft a template | no unique index on names; three levels of locks; the book is resolved before the transaction | sibling names are distinct; the tree has no circle; lock waits have none |
| Invoices and payments (`business/invoice-engine.ts`, `business/invoice-totals.ts`) | documents, lots, payments, number counters | edit, delete, post, unpost, pay, number | requests that read before they lock, retried payments, two locks for one counter | the ledger has one standing posting per posted document; payments add up; numbers are distinct |
| Recurring invoices (`business/recurring-invoices.ts`) | definitions with `next_date` | run, edit | claim-first generation: deaths and failures after the claim; runs of several syncs | an occurrence once; a fault loses one at most; catch-up |
| Stripe webhook (`business/stripe-webhook.ts`) | one row per event | deliver, reclaim | repeats and overlaps, failure between payment and fee | the answer and the row say what is in the ledger; a paid event is booked at last |
| Inventory (`inventory-engine.ts`, `services/inventory.service.ts`) | movements, averages, FIFO layers | receive, ship, adjust, transfer, assemble, fulfil, return, receive from a bill | several item locks, layers rebuilt from a long history | no shelf below zero; layers hold the stock and its value |
| SimpleFIN sync (`services/simplefin-sync.service.ts`) | ids of bank rows on transactions, kept ids, cursors | sync, match, pair transfers, import | overlapping syncs, deaths, rows shown late, edits and deletions meanwhile | no row is recorded twice, forgotten or missed |
| Email ingest (`email-ingest.ts`) | messages and attachments taken in | poll, take in | duplicates | a document is taken in once |
| Plans, financial actions (`planning/*`, `domain-commands.ts`, `financial-actions/*`) | revisions | edit with optimistic concurrency | stale revisions | no lost update |
| Cache, events, jobs, authentication, permissions, reports, calculators, imports and exports, user interface | see `PROJECT.json` | | | |

How they meet: the webhooks, quick add, scheduled transactions, imports and
invoices all end in ledger rows; every guarded ledger writer takes its
transaction rows with `lockTransactionsForUpdate` (guid order, `FOR UPDATE`),
checks the period lock and the reconcile states, and bumps `enter_date`; saves,
deletes and undos append audit entries after they commit; the period lock is
one row that settings write and everybody reads.  Components share state
through PostgreSQL at READ COMMITTED only (quick add: through IndexedDB), so a
SQL statement, a storage operation or an HTTP answer is the unit of
interleaving everywhere.

## 2. Modules

| Module | Stands for | Extends / uses |
|---|---|---|
| `AtMostOnce` | what a webhook key promises: at most one entry, and successes name it | abstract specification |
| `WebhookIdempotency` | the claim row of one key and its requests | `INSTANCE AtMostOnce` |
| `Ledger` | one book, its ledger requests, finalize, lock date | |
| `AuditUndo` | the audit trail of one transaction and its undo | |
| `QuickAddQueue` | the quick-add pages, their queue and the server | |
| `ScheduledExec` | one schedule: record, skip, edit, delete | |
| `StatementIngest` | one uploaded statement: extraction jobs, recovery, requests | |
| `StatementFinalize` | decisions on lines, the matcher, finalize beside edits | |
| `AccountTree` | the accounts of the books: create, update, move, delete, graft | |
| `SimpleFinSync` | bank connections and one book they sync into | |
| `PeriodLock` | the lock date, the caches of the processes, checks | |
| `Invoices` | documents of one owner: edit, delete, post, unpost, pay | |
| `DocNumbers` | the counters of `nextDocumentNumber` and their frame | |
| `RecurringInvoices` | one definition, its runs and editors | |
| `StripeEvents` | one paid event and its deliveries | |
| `Inventory` | items, shelves, movements, FIFO layers, documents | |
| `MC...` | instances for TLC | the module of that name, or below |
| `MCRetries` | an entry sent again: a webhook's, a phone's | `WebhookIdempotency`, `QuickAddQueue` |
| `MCStatements` | a statement's ingest, or two statements' finalizes | `StatementIngest`, `StatementFinalize` |
| `MCDocuments` | the requests about invoices and stock of the next two | |
| `MCBusiness` | ten scenarios of the last six modules | all six |
| `MCProgress` | eight scenarios with fairness | `INSTANCE` of the last six but `PeriodLock`, and of `StatementIngest`, `SimpleFinSync`, `Ledger` |
| `Sums` | induction over finite sets, sums over them | used by the proofs |
| `RetriesProofs` | theorems of entries sent again, and of schedules | `WebhookIdempotency`, `QuickAddQueue`, `ScheduledExec` |
| `StatementsProofs` | theorems of statements | `StatementIngest`, `StatementFinalize` |
| `BusinessProofs` | theorems of documents, numbers, payments and the lock date | `PeriodLock`, `DocNumbers`, `RecurringInvoices`, `StripeEvents`; `INSTANCE` of `Invoices` |
| other `...Proofs` | theorems | the module of that name |

### WebhookIdempotency

`row` is the row of `gnucash_web_webhook_idempotency`; `stale` stands for "the
claim is over five minutes old" and is set by an action of its own
(`ClaimGoesStale`) whether the worker lives or not.  `attempt[w]` is the fence
token a request was given.  `Claim`, `ClaimRefused` and `AnswerRefused` are the
two statements of `claimWebhookIdempotency` (the second sees the row of *its*
moment), `LockAttempt` is the fenced `SELECT ... FOR UPDATE`, `CommitWrite` the
ledger write, the completion and COMMIT, `Release` the catch block, `Crash` a
process that dies anywhere, `Rearm` the operator.  Keys do not interact: each
statement touches the row of its key, so one key is the model.

### Ledger

`tx` and `split` are the rows, `rowLock` and `advLock` the locks, `lockDate`
the setting; `arg`, `seen`, `sums` are the request's own.  A request is
`Load...` (what the client or the handler reads first), `Begin`, one `LockRow`
per row, `Check` or `Reject`, and a commit: `Create`, `Put`, `Delete`,
`ReplaceDescriptions`, `Recategorize`, `Move`, `Toggle`, `Finalize`,
`FinalizeAdjusted`.  Writes are invisible until COMMIT, so they are one step
with it.  Reads under the row's lock cannot change before COMMIT, so they are
one step (`Check`).  What no lock covers - the lock date, the reconciled
balance, everything read before BEGIN - is read in its own step and used later.

Abstractions: the version token is a counter per row (see section 6); frozen
`f` and reconciled `y` are one state; the other leg of the double entry, memos,
lots and tags are left out; bulk `set.description`, which reads nothing, is left
out next to `descriptionReplace`.

### AuditUndo

One transaction, because entries, snapshots and undo speak of one.  The row has
incarnations (`inc`): an undo inserts the snapshot under the same guid, and a
`FOR UPDATE` that waited for the former row returns nothing (`LockNothing`).
`Aim` is the statement's snapshot, `Lock` its return.  `ReadAfter` is the
after-image that `PUT` reads after COMMIT, `LogAudit` the entry appended then,
`AuditLost` the error that `logAudit` swallows.

### QuickAddQueue

`queue` is IndexedDB, `posted` and `tagged` the server, `wire` the requests
nobody waits for any more (`Late` delivers or loses one).  `handleSave` is
`Capture`, `SavePost`, `SaveTags`, `Enqueue`; `runSync` is `List` to `Finish`;
`setStatus` is a get and a put (`GetToMark`/`PutSyncing`, `GetToFail`/
`PutFailed`, `RetryGet`/`RetryPut`), since another tab's storage operations come
between.  The server's answers are those of the route: a duplicate guid
answers 500 (`Serves`).

### ScheduledExec

`sx` is the schedule's row, `template` the children of the template account,
each standing for its account, slot and split.  Record reads the template in
statements of its own (`ReadChildren`, `ReadSplits`) and posts it with
`balanceSplitNumerators`.  An edit reads the children without a lock, deletes
them (`gone`, not committed), renames the root, updates the row, commits; a
deletion takes the row first.  Amounts are thousandths, posted amounts cents;
`Round` is `Math.round`.  Native-layout templates and currencies are abstracted.

### StatementIngest and StatementFinalize

`StatementIngest` is one row of `gnucash_web_statement_batches`, with the copies
of its lines that are committed (`lines`, each named by the run that inserted
it), the executions of `runStatementExtraction` (`pc`, `job`), the job ids BullMQ
still knows (`kept`) and the requests.  `replaceLines` is three steps, because
the `DELETE` of a READ COMMITTED transaction sees the rows of its own start
(`BeginReplace`), waits for whoever deletes them (`DeleteLines`) and commits
with the `INSERT` (`InsertLines`).  `Fails` is any error of storage, parser, AI
or database, `Crash` a worker that dies, with or without BullMQ's redelivery.
The attempts are those of the marker in the error field: `NextAttempt` decides,
`EnqueueRecovery` queues under the deterministic job id, `MarkScheduled` writes
the marker afterwards, as the code does.  `age` counts the thresholds (10 and 30
minutes) that have passed since `updated_at`.

`StatementFinalize` follows `finalizeReconcile` statement by statement: the
compare-and-set of the status (`Claim`), the lines, the candidates and the
matcher (`ReadCandidates`), the row locks, the tie-out, the commit.  `Match` is
`matchStatementLines` as a recursive function: lines in order, each taking the
closest compatible split.  A claim holds the batch row until the end, which is
what `held` is.  The matcher is offered the unreconciled splits dated within the
statement's dates, or its lines' where the file states none, widened by the window
(`getCandidateSplits`, `InRange`).  An assignment of the account reads the status (`ReadStatus`) and writes it
back (`WriteStatus`).  The suggestion of counterpart accounts is left out.

### AccountTree

`acct` is the rows, `book`, `name` and `row` the three levels of locks, `share`
the `FOR KEY SHARE` of the foreign key, `ForeignKey` whether the database has that
constraint.  Update and move are `Ask`, `Resolve` (the book of the account, read
before the transaction), `TryBook`, `LockRow`, `Validate`, `Claim`, `Write`; a
graft is `WaitBook`, `Promote` and, level by level, `ClaimKey`, `Insert`.
Abstracted: a level of a template is one step when nothing below it is there
yet; `assertReparentIsAcyclic` walks in one step, under the book lock; two names
never have one `hashtext`; `isAccountInActiveBook` reads the tree, not its cache.

### SimpleFinSync

`conns` holds the connections that are set up; `Connect` adds one, whenever the user
likes.  `meta` holds the two ids a transaction may carry, `kept` the ids that survive a
deletion, `cursor` the date up to which an account was synced.  A run takes the
connection's advisory lock (`Fetch`), loads the known ids (`Load`), and per
account and row skips, matches what the user entered (`FindManual`, `Link`),
pairs transfers (`FindTransfer`, `Pair`) or imports; searches and the
transactions that act on them are separate steps.  `Show` is the bank, which
shows a row up to `Late` days after its date.  Notifications, investment
holdings and the status column are left out.

### PeriodLock

`stored` is the setting, `cache[p]` a process's entry with the time it has left,
`check` the checks of those who are to write.  A check hits the cache, or asks the database (`Ask`) and
answers some time later (`Answer`), caching what it read whatever was
invalidated meanwhile.  The TTL is 2 ticks, the slowest answer 1.  The
check inside the transactions that edit the ledger is in `Ledger`.

### Invoices, DocNumbers, RecurringInvoices, StripeEvents

`Invoices`: `doc`, `lot`, `paid` are the documents of one owner, the lots they
were posted into and the amounts applied; `lock` the row locks.  What the code
reads before it locks (the draft check of an edit or a deletion, the rows a
payment will lock) is a step of its own.  FIFO and named payments, retries with
one guid and requests that are dropped are there.  One currency and one post
date; closed lots, tax and the reversal's date are left out, and nobody edits
postings in the ledger.

`DocNumbers`: the advisory lock of a book's counter, the frame of slots that
holds the counters, the row lock of the slot.  `findFirst` without `ORDER BY`
returns any frame.  `RecurringInvoices`: `next_date` as a day number, daily, so
that each occurrence is a day; the claim commits by itself before the document.  A save
stores any `next_date`, as the form allows; the history variables `skipped` and `setBack`
keep which days saves passed over and whether one put it back.  The cadence and
`auto_post`, which the form can change too, are fixed in an instance.
`StripeEvents`: `row` with `fresh` for "claimed within five minutes"; the payment
and the fee are statements of their own.  Two history variables say what has gone
beyond the code's timing: `hasty`, a delivery was made before an earlier one was
answered, or within five minutes of one that was lost; `slow`, one has worked for
five minutes.

These modules and `PeriodLock` are extended together, in `BusinessProofs` and (but for
`Invoices` and `Inventory`, which have several instances there) in `MCBusiness`, so that
what is checked and what is proved is one definition; where two of them have a thing of one kind, its name tells the module
(`LockInit`, `StripeInit`, `mishaps` beside `faults`).

### Inventory

A movement carries `worth`, its quantity times its unit cost, in smallest units;
averages are rounded down.  `buildFifoLayers` goes over all movements as the code does,
with one difference: an emptied layer keeps its place, so that a layer is known by its
number.  How an item is valued is a constant (`Fifo`): the code lets a user switch an
item's method (`services/inventory.service.ts:870`), and `ValueConserved` and
`LayersMatchStock` are about items whose method never changes.  A request (`job`) locks the items it needs in order (`lockItems`), inserts its
rows in one step under all of them (`Insert`, which leaves them in `draft`), and commits
(`CommitStock`).  Documents are checked in `Arrive`, before the locks, as in the code.  Ledger postings carry the
same worth and are left out; recipes and locations are constants.

## 3. Runs

A run that covers several questions of one kind explores one scenario after
another: a variable `scenario` is chosen at the start and never changes, and the
properties of each scenario are guarded by it.  In `MCLedger` a scenario is the
set of requests that are made (the others are `done` from the start); in
`MCRetries` it is the module that runs; in `MCAccountTree` the tree there is
first, the requests and whether there is a foreign key; in
`MCBusiness` it is the module that runs, while the others rest in an initial state,
or one of the instances of `Invoices` and `Inventory`, which share the variables `s1` to
`s7`; in `MCProgress` it is the instance of a module, and they share `s1` to `s12`.

Each cfg takes `CHECK_DEADLOCK FALSE` where all requests are answered in the
end and the system stops.

| Run (cfg) | Instance | Shows | States |
|---|---|---|---|
| `retries` (`MCRetries`) | a webhook key: 4 requests, budget 3, 1 re-arm; quick add: 3 tabs, 1 tagged entry | refinement of `AtMostOnce`, the result is the entry, budget, no stuck claim; nothing lost, tags follow, posted in the end | 223,117 |
| `ledger` (`MCLedgerEdits`) | three of save, move, toggle, delete over a reconciled split; lock date set twice under two of save, create, move; three of move, bulk toggle, replace, recategorize; a finalize, with adjustments, beside another, a move or a recategorize | no lost update, reconciled splits and closed periods kept, no cyclic wait, finalizes tie out | 987,000 |
| `undo` (`MCAuditUndo`) | create, save, 2 deletes, toggle, 2 undos | undone once, no lost update, reverts spare later edits | 1,228,085 |
| `scheduled` (`MCScheduledExec`) | 3 records, skip, 2 edits, delete; 1, 2 or unlimited left | booked once, whole balanced template | 1,943,835 |
| `statements` (`MCStatements`) | 3 executions, 2 lists, a re-parse, deaths; 2 finalizes, decision, edit (and assignment), 2 or 3 lines and splits, one perhaps reconciled already | lines there, one extraction per attempt, booked once, exact matches, ties out | 3,190,000 |
| `account_tree` (`MCAccountTree`) | creates, renames, moves below accounts, deletes, grafts, with and without the foreign key | distinct sibling names, no circle in the tree or in the waits | 242,000 |
| `simplefin` (`MCSimpleFinSync`) | 2 processes on one connection, a transfer and a purchase; or a second connection that shows the same rows is set up | one primary record; once, and never forgotten, until there is a second connection | 3,360,000 |
| `business` (`MCBusiness`) | ten scenarios, see the module | lock takes hold; postings, payments, occurrences, numbers, Stripe answers and stock add up | 1,362,000 |
| `progress` (`MCProgress`) | eight scenarios with fairness | requests end, what was missed is made good, no statement stuck in parsing | 405,000 |
| `ledger_tie_out` (`MCLedgerTieOut`) | a finalize and a toggle | section 5: the account does not tie out | |
| `account_tree_waits` (`MCAccountTreeWaits`) | a graft and a rename, with the foreign key | section 5: they wait for each other | |
| `account_tree_detach` (`MCAccountTreeDetach`) | two opposite moves and one to the top | section 5: two accounts below each other | |

Type invariants: `BusinessTypeOK` for the six modules of `MCBusiness`; those of
the other modules are theorems or parts of a proved invariant (of `Ledger` amounts
apart, of `StatementFinalize` what the requests have read).  `InvoicesAddUp` and
`StockAddsUp` join several promises of `Invoices` and of `Inventory`: each conjunct is a
named definition of that module and is guarded by the scenarios in which it holds.

### Why the bounds are enough

- *retries*, webhook: budget 3 is the smallest with a first, a middle and a last attempt;
  four requests exhaust it and leave one to be refused, replayed or re-armed.
- *ledger*: one transaction with two splits in two accounts, so that a writer may
  touch one split under another's feet, and one reconciled, so that guards bite;
  each hazard takes two writers and at most one more in between.  Two dates and
  "none" are all boundaries a date can be on, and two changes of the lock date a
  close and a reopening or a further close.  A cycle of waits needs two rows and
  two requests; of the bulk requests any two kinds meet.
- *ledger*, finalizes: two statements of one account and two unborn transactions,
  one for each adjustment.
- *undo*: two contents and the reconcile flag tell a snapshot from a later edit;
  two deletes and two undos let one entry become applicable twice.  Requests
  that call one handler are symmetric (`SYMMETRY`); all properties of that run
  are safety properties.  The theorems hold for any number of each.
- *retries*, quick add: a run treats its items one after another and items share nothing,
  so one item shows what happens to an item; the third tab is there for a put
  between another's get and put while a third posts.
- *scheduled*: imported templates that balance, that round to a cent too much
  and that do not balance; two occurrences, `rem_occur` of 1, 2 and unlimited.
- *statements*: three executions are the first, one recovery or redelivery, and
  one more; two attempts are a first and a last.  Two equal lines and a third,
  and splits within and outside the window, make the order of matching matter.  One
  statement states when it ends but not when it starts, so its range is of both kinds;
  the other has a line dated after its end, which a split outside the range would fit.
- *account_tree*: two books, two names; a cycle of the tree needs two moves, a
  duplicate name two requests, a cycle of waits a graft and one more.  In this run
  nobody moves to the top and grafts run without the foreign key: the rest are the
  two runs that end in a counterexample.
- *simplefin*: a transfer has two rows and needs two accounts; the third row is
  alone.  Two deaths or two failures on one row repeat what one does.
- *business*: each scenario has the two actors that a race needs, and a third
  where the code has three kinds of step to put between (Stripe, payments).  A
  bound of each counter is named in the cfg or at the instance (`MaxFaults`,
  `MaxDeaths`, `MaxMishaps`, `MaxEdits`, `LastDay`, `MaxRequests`).  The theorems of
  the lock date, the deliveries, the occurrences and the numbers hold for all values
  of them.
- *progress*: six days are more than the lookback and the lateness together; one
  recovery attempt is enough to see a statement leave `parsing` by it.

### Fairness

- `WebhookIdempotency!FairSpec`: a request that has begun continues or dies, and
  time passes.  Nobody is obliged to retry or to re-arm.
- `QuickAddQueue!QueueFairSpec`: each tab is left open at last (`LeftOpen`; tabs may
  die any number of times before), its run proceeds and starts again (mount,
  `online` event), and a server asked again and again for an entry it does not
  have takes it and answers in the end (strong fairness of `Taken`).  Without
  the last, an offline phone posts nothing, as it should not.
- `ProgressFairness`: a run has one scenario, so what is fair in several is
  stated once.  Finalizes, invoices, numbers and stock: a begun request's statements
  are served and free locks granted; the queue for a row lock is not assumed fair,
  each request runs once, and no user is obliged to submit.  Recurring invoices:
  bank syncs begin runs again and again, begun runs go on, days pass.  Stripe:
  deliveries are repeated until one is answered 200, go on, and five minutes pass (what
  is promised is promised of the behaviours that are neither slow nor hasty).  Statements:
  workers run what is queued, requests go on, time passes, and somebody lists the
  statements again and again, since the recovery has no clock of its own.  Bank
  sync: its timer starts runs again and again, runs go on, the bank shows its
  rows, days pass; a run ends the next day at the latest.

## 4. Theorems

Proved by TLAPS for all values of the constants, under the assumption each module
names (`WebhookAssumption`, `LedgerAssumption` and so on; TLC evaluates all of them
on the instances).  They give the constants their types, and beyond that:

- `Ledger`: the initial book's live splits have live parents, and a book has
  finitely many rows (`FiniteAssumption`; the same of the lines and splits of
  `StatementFinalize` and of the documents, lots and payments of `Invoices`);
- `AccountTree`: guids are new, the tree at the start is one (no circle, parents
  live, the root at the top), a move names its new parent;
- `DocNumbers`: there may be a frame at all (`Frames` is not empty); `Invoices`:
  the documents posted at the start have lots of their own.

Some theorems have a hypothesis, because without it the code does not keep the
promise (section 5): until a second connection is set up (`FeedOnceAlone`,
`KnownStaysAlone`), until an assignment of a statement's account has read the status
that it writes back (`AddedOnce`), until there is a second frame, or for one kind
(`NumbersAreUnique`), until a delivery was hasty, or slow (parts of
`StripeAnswersTruly`), until a save puts `next_date` back (once per occurrence, in
`EachOccurrenceOnce`), for lines within the statement's own dates or splits within the
widened ones (the last part of `MatchesAreExact`), only finalizes reconcile (`TiesOut`), one statement is
finalized (`FinalizeTiesOut`), nobody posts a document (`NeverOverpaid` of `Invoices`), requests come one at a time
(`DocumentsAddUp`), no foreign key (`NoWaitCycle` of `AccountTree`), nobody moves to the
top or deletes (`TreeIsAcyclic`).  Each hypothesis is one of the constants or
part of the property, holds in a scenario of a run, and where it is dropped a run or
the text of section 5 has the counterexample.

**`RetriesProofs`.** The webhook: `Typing`; `Consistency`, the inductive invariant
`Consistent`; `Implementation`, that every step is a step of `AtMostOnce` or a
stutter; from the same invariant `Results` (`ResultIsTheEntry`), `Fence` (`FenceHolds`),
`Finality` (`CompletedIsFinal`) and `Budget` (`BudgetIsBounded`).  The invariant
says that the ledger has an entry exactly when the row has its result, that a request past `LockAttempt` holds the row and owns the
attempt, and that what is told was committed.  The middle part carries the
argument: with it, `CommitWrite` meets a row without result, hence an empty
ledger.

The queue: `QueueTyping`, `Kept`, `KeptWithTags`.  The invariant links a run's place to
the server: a tab that is about to drop an item has seen it posted and its tags set.  A
tab may act on any stale idea of the queue, and still only `Drop` and the user remove.

Schedules: `ScheduledTyping`, `NoDoubleBooking` (`BookedOnce`), `Counting`, `WholeTemplate`
(`PostsTheTemplate`) and `Balanced` (`PostedBalances`).  The invariant says who holds
the row, that nothing booked is later than `last_occur`, and that the template cannot
change while a record holds the row: an edit commits its children only with the row in
its hands, and a deletion too.  That is why reading the template in several statements
under no lock of its own is still right.  A posted transaction balances because
`balanceSplitNumerators` puts what the roundings left on one split (`Balancing`, of sums
over any template that sums to zero).

**`Sums`.** The library's induction theorems take a predicate, which no prover here can
instantiate.  `LeastSubset` goes around that: of some subsets of a finite set one
contains no other (the library's `WFMin`), so induction over a *set* of sets
(`FiniteInduction`, `ElementInduction`) is first-order.  From it follow that the
recursion of `SumFunctionOnSet` has one solution (`SumsUpOnce`, `SumStep`), how a sum
changes with an element, a function or a union, sums by parts, and induction up to a
number (`UpTo`).

**`LedgerProofs`.** `Typing` (of `Shape`) and `AmountTyping` (of all of `TypeOK`);
`Invariance` of `Inv`; `Isolated`; `LostUpdates`; `Reconciled`.
`Isolation`, the part of `Inv` beyond types, is needed because the properties
speak of one step and their reasons lie further back: a transaction past its
locks holds every live row it named (`RowsHeld`), the splits it names are under
those rows (`NamedRowsExist`), so nothing it has checked can change
(`ChecksHold`); and every writer bumps the token, so an equal token means equal
content (`TokenIsSound`).  `CommitTouches` is the lemma under all of it: what a
commit changes lies in transactions whose rows the request holds or that were
unborn, and their token grows.
`LockOrder` says that row locks are taken in guid order:
the one fact that excludes cyclic waits for rows.  `NoDeadlock` (`NoWaitCycle`),
for any set of requests: whoever waits for the advisory lock of an account waits
for a request in its transaction (`AdvisoryHeld`), which in a circle waits for a
row; along the circle the rows waited for grow, by `LocksInOrder`, and of finitely
many rows one is the last.  `ClosedPeriods`, from
`DatesChecked`: between check and commit the rows are locked and the least lock
date since BEGIN only falls.  `TiedOut` (`TiesOut`), while only finalizes reconcile
(`FinalizesAlone`): from its aggregate to its commit a finalize has the account's
advisory lock, so the balance it read is still the account's (`Reckoned`), and what it
adds are the splits it has locked.  Without the hypothesis a toggle moves the balance
in between, as the run `ledger_tie_out` shows.

**`AuditUndoProofs`.** `Typing`, `OneUndo`, `Tokens`, `LostUpdates`, `RevertsSpare`.  Tokens are
the subtle part, since undo writes old ones back.  The argument is that every
step only copies images there are, or adds one with a fresh token (`Grows`), so
two images with one token stay equal (`ContentKept`); a save that matches tokens
therefore replaces what was loaded although the row may have been edited,
reverted, deleted and restored in between.  `RevertsSpare` needs more (`RInv`): that
what a request wrote and what it replaced carry tokens of a row that existed (`Stamped`), and
that a revert past its check which has the row locked finds the entry's after-image in
it (`Reverts`).  It is of entries whose after-image is their own request's; section 5 has
the others.

**`AccountTreeProofs`.** `Typing` and `Siblings` (`UniqueSiblings`), with and
without the foreign key.  No index forbids two children of one name, so the proof
is that the locks do: `SiblingInv` says that a request which has locked an
account's row knows what is in it (`RowIsFrozen`), that the name it has claimed is
free until it writes (`ClaimIsFree`), and that a new guid is nobody's before its
commit (`FreshIsFree`).

`Waits` (`NoWaitCycle`, without the foreign key): `LockInv` says of each place in a
handler which locks it may hold, and none beyond that.  Every wait goes down a level:
a graft waits for the book before it has anything, then come row waits (their holders
never wait for the book or a row), then waits of creates and moves for a name, then
those of a graft.  A graft that waits for a name has the book (moves and creates with
a name wait for nothing, and no second graft has one), so its wait ends.  The foreign
key adds a wait for a row by a request that holds names, and the argument, like the
property, fails.

`Tree` (`TreeIsAcyclic`, when nobody deletes an account or moves one to the top): in
`TreeInv` the walk of `resolveBook` ends at the root for every account, so that moves
hold one lock (`GoesByItsLock`) and what `assertReparentIsAcyclic` found holds until
the write.  Reachability is defined by sets closed upward, which first-order provers
can handle: a set closed above one tree is closed, or is closed with one account more,
above the next (`SameTree`, `GrownTree`, `HungTree`).

**`SimpleFinSyncProofs`.** `Typing`, and `Primaries` (`PrimaryOnce`): a row
is the primary row of one transaction at most, for any number of connections and
without the unique index, since each write of a primary id looks for it in the
transaction.  `FeedsOnce` (`FeedOnceAlone`) and `KnownStays` (`KnownStaysAlone`), until a second
connection is set up, from `FeedInvariant`: only connections that are set up run
(`ConnectedRuns`), and while there is one (`Alone`) `FeedInv` holds: the advisory lock makes its runs take turns (`LockAgrees`), a run knows of
row it has left to do whether it is recorded (`KnowsItsRows`), and no two columns of
meta rows, those of deleted transactions included, hold one id (`RecordedOnce`).  The
property counts the holders of a row; the invariant says which two are never both.

**`StatementsProofs`.** `LinesOfAParsedBatch` (`ParsedHasLines`) and `OneExtraction`
(`OneRunPerAttempt`) from `IngestInv`: lines are committed before any status that
speaks of them, also by a request that writes back the status it read (`LinesFirst`),
and the queue knows the job of an attempt until its run is done (`JobsAreKept`).
`AddedLines` (`AddedOnce`) from `BooksOnce`: who has claimed a batch holds its row
(`ClaimsHold`), and an open batch has booked nothing, until an assignment has read its
status (`OpenedAgain`).

`MatcherIsExact` (`MatchesAreExact`) is an induction over the lines: that the recursion
of `Match` has one solution (`MatchOnce`, `MatchStep`), that of lines one is the latest
and of splits one is closest (`FiniteLeast`, since both orders are total), and that each
line taken keeps the matches exact (`TakesExactly`); and that the widened range holds
all that fits a line within the statement's own dates (`PaddingSuffices`).  `TiedOut` (`FinalizeTiesOut`),
while one statement of the account is finalized and none opened again (`OneStatement`):
what is matched is not reconciled yet and, from the locks on, in the finalize's hands
(`StillTies`), so the sum that tied out still does when it is committed, and the balance
grows by just that (`CommitMoves`).  `FinalizeTyping` is the type.

**`BusinessProofs`.** Each argument is about a claim, and the invariant says who has it
between the check and the write.

- `StripeAnswers` (`StripeAnswersTruly`), from `StripeInv`: a delivery's place tells
  what it has booked (`PlacesTell`); until there is a payment its claim, fresh while no
  worker is slow, gives the event to one (`OneUnpaid`); and while none is hasty, one is
  at work at a time and finds no fresh claim before it (`OneAtATime`).
- `RecurringPromise` (`EachOccurrenceOnce`), from `RecurringInv`: until a save puts
  `next_date` back, it is past whatever is claimed or made (`ClaimsAreOwn`); always, the
  occurrences that it has left behind without a document, a claim or a report, but for
  those that a save passed over, are at most the faults there were
  (`EachMishapLosesOne`, a count of a finite set).
- `LockPromise` (`LockTakesHold`), from `LockInv`: there is no claim, and
  the argument is about age: what a cache or an answer under way holds differs from the
  stored date for less than TTL plus slowest answer (`StaleEntriesExpire`,
  `StaleAnswersAge`).
- `NumbersPromise` (`NumbersAreUnique`), from `NumbersInv`: a request with a number not
  yet stored is alone with its kind (`InTurn`), by the advisory lock for the first
  number and by the row lock for the others, as long as there is one frame; of one
  kind the advisory lock sees to that (`OneFrame`).
- `PostingsAgree` (`LedgerAgrees`, a part of what `InvoicesAddUp` checks), from
  `PostingsInv`: who is to post or unpost a document holds its row as it was when it
  was locked (`Held`).
- `PaymentsAddUp` (`AppliedInFull`, another part), from `PaymentsInv`: an allocation is
  made and accepted in one read of the open documents, and adds up to the payment
  (`Allocated`).  That is a matter of sums: shares handed out in the order of the
  documents come to the amount, if enough is due (`SumHandedOut`), and summing the shares
  lot by lot gives the same (`SumByParts`; a posted document has a lot of its own,
  `OwnLots`).
- `PaymentsNeverExceed` (`NeverOverpaid`, the last part), from `DuesInv`: a payer about to
  write has locked every posted document, of which there is one (`Affordable`), so
  it is alone (`PayerAlone`) and what it has read is still due; a document about to
  be reversed is unpaid since its row was locked (`UnpaidReversed`).  The hypothesis is that nobody
  posts (`NoPosts`): a payer has the rows locked that it found at its start (`Listed`).
- `InvoicesTyping` (`TypeOK`): a payment of nothing is never in the ledger, and row
  locks are let go at the end (`Holders`).
- `ShelvesAddUp` (`NeverBelowZero`, `LayersMatchStock`, `ValueConserved` and the type:
  what `StockAddsUp` checks of shelves), from `StockInv`: the log keeps every item in
  order, and so does the log with the rows that a transaction has inserted and not yet
  committed.  Those rows are of items whose rows it holds, and nobody else's are, so what
  others commit leaves the log, as far as such an item goes, the same (`Agree`): sums and
  layers go by the movements of one item only.  Within a transaction it is an induction
  over the lines of the request (`LinesProgress`): a shelf has lost no more than the
  lines written so far want of it (so `Demand` leaves enough for the others), each row adds its units to the layers or takes them from the
  oldest, and since the layers cover them (`LayersMatchStock` is needed for
  `ValueConserved`), at their cost.
- `DocumentsAddUp` (`FulfilledWithinInvoice`, `ReturnedWithinFulfilled`,
  `ReceivedWithinBill`), from `DocumentsInv` and the same induction over lines.  The hypothesis
  is that requests come one at a time (`OneJobAtATime`): their check is made before the
  locks, and two at once go beyond (section 5).

Model-checked only, and why:

- `TiesOut` while toggles run beside a finalize: false, as `ledger_tie_out` shows.
  `FinalizeTiesOut` beside an assignment that opens the statement again: the run shows it
  for positive amounts; with negative ones what is counted twice may cancel.
- `BusinessTypeOK`, `InvoicesAddUp` and `StockAddsUp` as they stand, since they join the
  scenarios of one instance, `MCBusiness`.  All they are made of is proved: the types in
  the theorems of the six modules, the rest in `PostingsAgree`, `PaymentsAddUp`,
  `PaymentsNeverExceed`, `ShelvesAddUp` and `DocumentsAddUp`.
- `NoWaitCycle` of `AccountTree` with the foreign key: false in general; the run shows
  it for creates, renames, moves and deletions by three requests.
- `EventuallyPosted`, `RequestsEnd`, `WorkIsMadeGood`, `NoStuckParsing`, `NoWedgedClaim`
  are liveness, which is outside the prover.

## 5. Where code and documentation disagree

Three runs end in a counterexample.

`ledger_tie_out`: finalize sums the reconciled splits without locking them; a toggle
that commits before it does leaves the account off the statement (`reconcile.ts:359`,
against "validation and the write are atomic", :247).  With finalizes alone the sum is safe, by the advisory lock:
`TiesOut` holds in `ledger`.

`account_tree_waits`: a graft inserts below an account it did not insert while it
holds sibling names, and the foreign key makes that a wait for the account's row; a
rename that has the row and waits for one of those names closes a circle, which
PostgreSQL ends with an error (`default-book.ts:374`, against "it must not take a row
lock on any account it did not itself INSERT", :297).  Four requests of other kinds
close one too: two creates, a rename and a deletion, with the foreign key.

`account_tree_detach`: an account that is moved to the top leaves its book for the walk
that resolves the lock, and its own guid is locked from then on.  Of two opposite
moves one holds the one lock and one the other, and each passes
`assertReparentIsAcyclic` before the other commits (`services/account.service.ts:771`,
against "Serializing all reparents per book", :222).  The foreign key saves two
neighbours, whose rows would be waited for in a circle, and not two accounts with one
in between.  A deletion can detach a subtree likewise, when a fourth request moves an
account below the deleted one.  `TreeIsAcyclic` of the run `account_tree` and the
theorem `Tree` are of what remains.

Seen while modelling, in the models as in the code, without a run:

- a release left over from before an operator re-arm can fail the claim of a
  newer worker, since attempts restart at 0 (`webhook-idempotency.ts:314`); no
  entry is posted twice, the sender must retry;
- a lock date set between a request's check and its commit does not stop the
  request (`period-lock.service.ts:129`), so `ClosedPeriodIsKept` speaks of a
  period that was closed throughout the request's transaction;
- bulk replace and bulk recategorize plan from rows loaded before their locks
  (`app/api/transactions/bulk/route.ts:355`, `bulk-edit.ts:43`);
- the after-image of a save is read after its commit and may hold a later edit,
  which the undo then discards (`app/api/transactions/[guid]/route.ts:418`):
  `RevertSparesLaterEdits` is stated for entries that hold their own image;
- an undo that finds no row to lock goes on (`audit.service.ts:423`), and may
  delete what a reconcile has just committed;
- recording a later occurrence of a schedule makes the earlier ones "already
  recorded or skipped" (`scheduled-tx-execute.ts:92`);
- the adjustment of a finalize is posted into a locked period (`reconcile.ts:402`,
  against `services/period-lock.service.ts:4`);
- a duplicate guid answers 500 with a body the quick-add queue does not recognize,
  so an entry whose answer was lost stays queued for ever (`quick-add-queue.ts:160`,
  against :8);
- two edits of one schedule that overlap leave both sets of splits in the template
  (`services/scheduled-tx-create.ts:280`);
- two extractions of one statement that overlap leave two copies of its lines:
  one transaction is not enough for the second `DELETE` to see the first `INSERT`
  (`services/statement.service.ts:550`, against :523);
- a worker that dies between the error and the marker forgets the attempts used
  (`statement-ingest.ts:199`, against `queue/statement-recovery.ts:58`);
- an account assignment writes back the status it read before a finalize; the
  statement can be finalized again and its added lines are booked twice
  (`app/api/statements/[id]/account/route.ts:70`): `AddedOnce` speaks of the time before;
- two statements of one account that are finalized at once may reconcile the same
  split (`statement-reconcile-data.ts:630`): `FinalizeTiesOut` is of one batch;
- a child created while its parent is deleted loses its place in the tree
  (`services/account.service.ts:708`);
- of two SimpleFIN connections that match the two sides of one entered transfer at
  once, the second link replaces the first (`services/simplefin-sync.service.ts:1330`),
  a row may be linked to a transaction that was edited meanwhile (:1326), and the
  second leg of a transfer moves no split (:1415); the lock date is read once per
  run (:720).  `FeedOnceAlone` and `KnownStaysAlone` speak of the time
  before there is a second one;
- a reader that asked before the lock date was stored puts the old date back into a
  cache that was just invalidated (`services/period-lock.service.ts:95`), for one
  TTL: `LockTakesHold` allows for it;
- a document posted between the query of the rows to lock and the query of the open
  documents can be overpaid (`business/invoice-engine.ts:1818`); an edit or a
  deletion goes by the `post_txn` it read without a lock (:1078, :1143);
- a line dated outside the statement's own dates may be left over, and booked again
  if it is then added, though a split within the window fits it: such splits are not
  candidates (`statement-reconcile-data.ts:175`);
- saving a recurring definition writes the `next_date` of a stale form back over a
  claim, and its occurrence is generated again; a later date typed, which nothing checks,
  passes occurrences without a document or a word (`business/recurring-invoices.ts:433`),
  so `EachOccurrenceOnce` speaks of the others; a death after the claim skips one
  without a word (:544);
- the first invoice and the first bill of a book, created at once, each make a frame
  for the counters, and a number may be given twice (`business/invoice-engine.ts:637`);
- a Stripe delivery repeated within five minutes is answered 200 as a duplicate,
  though the first one died or fails later (`business/stripe-webhook.ts:239`);
- fulfilments, returns and receipts are checked against their documents before the
  item locks, so two at once go beyond (`inventory-engine.ts:1677`, :1761, :2027).

`PROJECT.json` lists the hazards its properties watch.  Others of this code that no
property covers: bulk replace and recategorize plan from stale rows
(`app/api/transactions/bulk/route.ts:355`, `bulk-edit.ts:43`); `logAudit` swallows
its errors (`services/audit.service.ts:87`); tokens have millisecond precision
(`app/api/transactions/[guid]/route.ts:55`); a tab that dies over an item leaves it
marked syncing (`quick-add-queue.ts:267`); a marker written after its job was queued
can overwrite the job's success (`queue/statement-recovery.ts:91`); the queue ignores
a recovery whose id it still knows (`queue/queues.ts:108`); an edit and a deletion of
a schedule, or an edit and a deletion of an invoice, take their locks in opposite
orders (`services/scheduled-tx-create.ts:393`, `business/invoice-engine.ts:1151`);
`assembleBom` reads the recipe before the locks (`inventory-engine.ts:1326`).

## 6. Assumptions and what is not modelled

- PostgreSQL at READ COMMITTED: a statement sees what was committed when it
  began; `FOR UPDATE` waits, and re-reads the row it waited for.
- Version tokens are fresh at each write.  The code compares `enter_date` in
  milliseconds; two writes of one row in one millisecond would collide.
- Authorization precedes every modelled request; requests name rows of the book.
- `PROJECT.json` lists every component with its status.  Left out for want of
  state: reports, calculators, pages, which are most of the repository.  Left out
  as a library's business: BullMQ, Redis, OIDC.  Left out as sequential data
  algorithms: lots, funding rules, recurrence, parsing of imports.

## 7. Plan

What would come next, in this order:

1. `BookLock`: the session-scoped whole-book lock of imports, restores and scrubs
   beside the transaction-scoped one of `AccountTree`; abstract specification: a
   readers-writer lock; theorem: exclusion.
2. An abstract `SerialLedger` (each request one atomic step) implemented by the
   save and delete part of `Ledger`, by refinement.
3. Theorems: payments of `Invoices` (no document is paid twice under one guid);
   `NoWaitCycle` of `AccountTree` with the foreign key for renames and moves.
4. Email ingest, domain commands with their optimistic revisions, packages.
5. `Inventory` with the ledger postings it makes, composed with `Invoices`.
