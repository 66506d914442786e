--------------------------- MODULE SimpleFinSync ---------------------------
(***************************************************************************)
(* The SimpleFIN bank sync (src/src/lib/services/simplefin-sync.service.ts). *)
(* A run holds its connection's advisory lock, fetches the rows that the   *)
(* bank shows in a window behind the accounts' cursors, and takes them one  *)
(* by one: already known, in a closed period, the record of a transaction   *)
(* the user entered, the other leg of a transfer, or new.  Each row commits *)
(* on its own, so a run may die anywhere; users edit the ledger and move    *)
(* the lock date meanwhile, and another connection of the book may run at   *)
(* the same time.                                                           *)
(*                                                                         *)
(* The database has no unique index on the feed ids (db-init leaves it out  *)
(* of a book with old duplicates).  Days stand for dates, amounts are not 0 *)
(* (a row of 0 is skipped by every run), accounts are in one currency.      *)
(***************************************************************************)
EXTENDS Integers, FiniteSets

CONSTANTS
    Conns, Runs,      \* connections that users set up, and processes that run syncs
    ConnOf,           \* the connection that a run syncs
    Accounts,
    Mapped,           \* the accounts that a connection feeds
    Guesses,          \* the accounts that guessCategory may answer
    Feeds,            \* rows of the bank, named by their SimpleFIN id
    AccountOf, AmountOf, DayOf,
    OfferedBy,        \* the connections that show a row
    Txns,             \* guids of transactions
    Entered,          \* what is in the ledger before: guid -> [day, legs, meta]
    NoRun, NoFeed, NoTxn, NoAccount,
    Window,           \* getSimpleFinMatchWindowDays
    Overlap,          \* SYNC_OVERLAP_DAYS
    Lookback,         \* MAX_RETRY_LOOKBACK_DAYS
    Late,             \* days after its date that the bank may first show a row
    MaxDay, MaxFailures, MaxEdits, MaxDeaths, LockDates

Never == -1           \* last_sync_at IS NULL
Days == 0..MaxDay

ASSUME SyncAssumption ==
    /\ ConnOf \in [Runs -> Conns]
    /\ MaxDay \in Nat /\ NoFeed \notin Feeds
    /\ Mapped \in [Conns -> SUBSET Accounts]
    /\ Guesses \subseteq Accounts
    /\ AccountOf \in [Feeds -> Accounts] /\ DayOf \in [Feeds -> Days]
    /\ \A f \in Feeds : AmountOf[f] \in Int \ {0} /\ Guesses \ {AccountOf[f]} # {}
    /\ OfferedBy \in [Feeds -> SUBSET Conns]
    /\ DOMAIN Entered \subseteq Txns
    /\ \A t \in DOMAIN Entered : /\ Entered[t].meta \in BOOLEAN /\ Entered[t].day \in Days
                                 /\ Entered[t].legs \in [Accounts -> Int]
    /\ NoRun \notin Runs /\ Lookback \in Nat
    /\ LockDates \subseteq Days

VARIABLES
    ledger,   \* transactions with their splits, as amounts by account
    meta,     \* gnucash_web_transaction_meta of a transaction: its feed ids
    kept,     \* the meta rows whose transaction is deleted
    cursor,   \* last_sync_at of a connection's mapping to an account
    lock,     \* who holds a connection's advisory lock
    run,      \* what a run has read and where it stands
    lockDate, \* the book's period lock, 0 for none
    now, shown,
    conns,    \* gnucash_web_simplefin_connections of the book
    budget    \* what may still go wrong: failures, deaths, edits

data == <<ledger, meta, kept>>
vars == <<data, cursor, lock, run, lockDate, now, shown, conns, budget>>

NoMeta == [there |-> FALSE, one |-> NoFeed, two |-> NoFeed]
Off == [at |-> "off", todo |-> {}, open |-> {}, acct |-> NoAccount, known |-> {},
        feed |-> NoFeed, txn |-> NoTxn, meta |-> FALSE, failed |-> {}, floor |-> 0, began |-> 0]
Flat == [a \in Accounts |-> 0]

\* The columns of meta rows that hold a feed id.
Holders(f) == {<<"meta", t, "one">> : t \in {u \in Txns : meta[u].one = f}}
              \cup {<<"meta", t, "two">> : t \in {u \in Txns : meta[u].two = f}}
              \cup {<<"kept", k, "one">> : k \in {j \in kept : j.one = f}}
              \cup {<<"kept", k, "two">> : k \in {j \in kept : j.two = f}}
Known(f) == Holders(f) # {}
Live(t) == ledger[t].status = "live"

Ids == Feeds \cup {NoFeed}
MetaRow == [there : BOOLEAN, one : Ids, two : Ids]
RunRecord ==
    [at : {"off", "fetched", "accounts", "rows", "linking", "pairs", "pairing", "importing"},
     todo : SUBSET Feeds, open : SUBSET Accounts, acct : Accounts \cup {NoAccount},
     known : SUBSET Ids, feed : Ids, txn : Txns \cup {NoTxn},
     meta : BOOLEAN, failed : SUBSET Ids, floor : Days, began : Days]

Shape ==
    /\ meta \in [Txns -> MetaRow]
    /\ kept \subseteq [of : Txns, one : Feeds, two : Ids]
    /\ run \in [Runs -> RunRecord]
    /\ lockDate \in Days /\ now \in Days /\ shown \subseteq Feeds /\ conns \subseteq Conns

\* A lock is held by the run that works, and a second leg follows a first.
TypeOK ==
    /\ Shape
    /\ \A t \in Txns : /\ ledger[t].status \in {"free", "live", "deleted"}
                       /\ ledger[t].day \in Days
                       /\ ledger[t].legs \in [Accounts -> Int]
                       /\ ~meta[t].there => meta[t] = NoMeta
                       /\ meta[t].two # NoFeed => meta[t].one # NoFeed
    /\ cursor \in [Conns -> [Accounts -> Days \cup {Never}]]
    /\ lock \in [Conns -> Runs \cup {NoRun}]
    /\ \A r \in Runs : (run[r].at # "off") = (lock[ConnOf[r]] = r)

Init ==
    /\ ledger = [t \in Txns |->
         IF t \in DOMAIN Entered
         THEN [status |-> "live", day |-> Entered[t].day, legs |-> Entered[t].legs]
         ELSE [status |-> "free", day |-> 0, legs |-> Flat]]
    /\ meta = [t \in Txns |-> [NoMeta EXCEPT !.there = t \in DOMAIN Entered /\ Entered[t].meta]]
    /\ kept = {}
    /\ cursor = [c \in Conns |-> [a \in Accounts |-> Never]]
    /\ lock = [c \in Conns |-> NoRun]
    /\ run = [r \in Runs |-> Off]
    /\ lockDate = 0 /\ now = 0 /\ shown = {}
    /\ conns \in SUBSET Conns
    /\ budget = [failures |-> MaxFailures, deaths |-> MaxDeaths, edits |-> MaxEdits]

---------------------------------------------------------------------------
(* The run *)

\* computeSyncStart: the oldest cursor less the overlap; 90 days back, here
\* everything, as soon as one account has never been synced.
SyncStart(c) ==
    IF \E a \in Mapped[c] : cursor[c][a] = Never THEN 0
    ELSE CHOOSE d \in -Overlap..MaxDay :
           /\ \E a \in Mapped[c] : d = cursor[c][a] - Overlap
           /\ \A a \in Mapped[c] : d <= cursor[c][a] - Overlap

\* computeSafeSyncCursor.
SafeCursor(r) ==
    LET days == {DayOf[f] : f \in {g \in run[r].failed : AccountOf[g] = run[r].acct}}
        floor == now - Lookback
    IN  IF days = {} THEN now
        ELSE LET oldest == CHOOSE d \in days : \A e \in days : d <= e
             IN  IF oldest > floor THEN oldest ELSE floor

\* pg_try_advisory_lock, and the rows the bank answers with.
Fetch(r) ==
    LET c == ConnOf[r]
        rows == {f \in shown : /\ c \in OfferedBy[f] /\ AccountOf[f] \in Mapped[c]
                               /\ DayOf[f] >= SyncStart(c)}
    IN  /\ run[r].at = "off" /\ c \in conns /\ lock[c] = NoRun
        /\ lock' = [lock EXCEPT ![c] = r]
        /\ run' = [run EXCEPT ![r] = [Off EXCEPT !.at = "fetched", !.todo = rows, !.began = now,
                                                 !.open = {AccountOf[f] : f \in rows}]]
        /\ UNCHANGED <<data, cursor, lockDate, now, shown, conns, budget>>

LoadPrimary(r) ==
    /\ run[r].at = "fetched"
    /\ run' = [run EXCEPT ![r].at = "accounts", ![r].floor = lockDate,
                          ![r].known = {f \in run[r].todo : \E t \in Txns : meta[t].one = f}]
    /\ UNCHANGED <<data, cursor, lock, lockDate, now, shown, conns, budget>>
\* getCachedLockDate and loadExistingSimpleFinIds, once for the whole run.
Load(r) ==
    /\ run[r].at = "fetched"
    /\ run' = [run EXCEPT ![r].at = "accounts", ![r].floor = lockDate,
                          ![r].known = {f \in run[r].todo : Known(f)}]
    /\ UNCHANGED <<data, cursor, lock, lockDate, now, shown, conns, budget>>

BeginAccount(r) ==
    /\ run[r].at = "accounts"
    /\ \E a \in run[r].open :
         run' = [run EXCEPT ![r].at = "rows", ![r].acct = a, ![r].open = run[r].open \ {a}]
    /\ UNCHANGED <<data, cursor, lock, lockDate, now, shown, conns, budget>>

Rows(r) == {f \in run[r].todo : AccountOf[f] = run[r].acct}

\* What is left of a run when row f is dealt with; f is known to it from now on.
Past(r, f) == [run[r] EXCEPT !.at = "rows", !.todo = run[r].todo \ {f}, !.feed = NoFeed,
                             !.txn = NoTxn, !.meta = FALSE, !.known = run[r].known \cup {f}]
\* An error outside the import: the account's other rows are left, its cursor stays.
Abandoned(r) == [run[r] EXCEPT !.at = "accounts", !.todo = run[r].todo \ Rows(r), !.feed = NoFeed,
                               !.txn = NoTxn, !.meta = FALSE, !.acct = NoAccount]

Skip(r) ==
    /\ run[r].at = "rows"
    /\ \E f \in Rows(r) :
         /\ f \in run[r].known \/ DayOf[f] <= run[r].floor
         /\ run' = [run EXCEPT ![r].todo = run[r].todo \ {f}]
    /\ UNCHANGED <<data, cursor, lock, lockDate, now, shown, conns, budget>>

Gap(f, t) == IF DayOf[f] < ledger[t].day THEN ledger[t].day - DayOf[f] ELSE DayOf[f] - ledger[t].day

\* selectManualReconciliationMatch over the query of findAndLinkManualMatch.
Nearest(f, S) == {t \in S : \A u \in S : Gap(f, t) <= Gap(f, u)}
ManualMatches(f) ==
    Nearest(f, {t \in Txns : /\ Live(t) /\ ledger[t].legs[AccountOf[f]] = AmountOf[f]
                             /\ Gap(f, t) <= Window /\ meta[t].one = NoFeed})

FindManual(r) ==
    /\ run[r].at = "rows"
    /\ \E f \in Rows(r) :
         /\ f \notin run[r].known /\ DayOf[f] > run[r].floor
         /\ \/ \E t \in ManualMatches(f) :
                 run' = [run EXCEPT ![r].at = "linking", ![r].feed = f, ![r].txn = t,
                                    ![r].meta = meta[t].there]
            \/ /\ ManualMatches(f) = {}
               /\ run' = [run EXCEPT ![r].at = "pairs", ![r].feed = f]
    /\ UNCHANGED <<data, cursor, lock, lockDate, now, shown, conns, budget>>

\* claimSimpleFinTransactionId: under the id's own lock, held to the commit.
ClaimedUnread(f) == FALSE
Claimed(f) == \/ \E t \in Txns : meta[t].one = f
              \/ \E k \in kept : k.one = f

\* The transaction of findAndLinkManualMatch.  The UPDATE names the transaction
\* only; the INSERT fails on a row that somebody has made since.
Link(r) ==
    LET f == run[r].feed  t == run[r].txn
    IN  /\ run[r].at = "linking"
        /\ \/ /\ Claimed(f)
              /\ run' = [run EXCEPT ![r].at = "pairs", ![r].txn = NoTxn, ![r].meta = FALSE]
              /\ UNCHANGED meta
           \/ /\ ~Claimed(f) /\ run[r].meta
              /\ meta' = IF meta[t].there THEN [meta EXCEPT ![t].one = f] ELSE meta
              /\ run' = [run EXCEPT ![r] = Past(r, f)]
           \/ /\ ~Claimed(f) /\ ~run[r].meta /\ ~meta[t].there
              /\ meta' = [meta EXCEPT ![t] = [there |-> TRUE, one |-> f, two |-> NoFeed]]
              /\ run' = [run EXCEPT ![r] = Past(r, f)]
           \/ /\ ~Claimed(f) /\ ~run[r].meta /\ meta[t].there
              /\ run' = [run EXCEPT ![r] = Abandoned(r)]
              /\ UNCHANGED meta
        /\ UNCHANGED <<ledger, kept, cursor, lock, lockDate, now, shown, conns, budget>>

\* The query of findAndLinkTransferDedupMatch.
TransferMatches(c, f) ==
    Nearest(f, {t \in Txns :
      /\ Live(t) /\ \E a \in Mapped[c] \ {AccountOf[f]} : ledger[t].legs[a] = -AmountOf[f]
      /\ meta[t].one \notin {NoFeed, f} /\ meta[t].two = NoFeed
      /\ Gap(f, t) <= Window
      /\ Cardinality({a \in Accounts : ledger[t].legs[a] # 0}) = 2})

FindTransfer(r) ==
    LET f == run[r].feed  S == TransferMatches(ConnOf[r], f)
    IN  /\ run[r].at = "pairs"
        /\ \/ \E t \in S : run' = [run EXCEPT ![r].at = "pairing", ![r].txn = t]
           \/ S = {} /\ run' = [run EXCEPT ![r].at = "importing"]
        /\ UNCHANGED <<data, cursor, lock, lockDate, now, shown, conns, budget>>

\* Its transaction: an UPDATE by guid that fails when the row has gone.
Pair(r) ==
    LET f == run[r].feed  t == run[r].txn
    IN  /\ run[r].at = "pairing"
        /\ \/ /\ meta[t].there
              /\ meta' = [meta EXCEPT ![t].two = f]
              /\ run' = [run EXCEPT ![r] = Past(r, f)]
           \/ /\ ~meta[t].there
              /\ run' = [run EXCEPT ![r] = Abandoned(r)]
              /\ UNCHANGED meta
        /\ UNCHANGED <<ledger, kept, cursor, lock, lockDate, now, shown, conns, budget>>

\* importTransaction.
Import(r) ==
    LET f == run[r].feed  a == AccountOf[f]
    IN  /\ run[r].at = "importing" /\ ~Claimed(f)
        /\ \E t \in Txns, g \in Guesses \ {a} :
             /\ ledger[t].status = "free"
             /\ ledger' = [ledger EXCEPT ![t] =
                  [status |-> "live", day |-> DayOf[f],
                   legs |-> [Flat EXCEPT ![a] = AmountOf[f], ![g] = -AmountOf[f]]]]
             /\ meta' = [meta EXCEPT ![t] = [there |-> TRUE, one |-> f, two |-> NoFeed]]
        /\ run' = [run EXCEPT ![r] = Past(r, f)]
        /\ UNCHANGED <<kept, cursor, lock, lockDate, now, shown, conns, budget>>

ImportSkipped(r) ==
    /\ run[r].at = "importing" /\ Claimed(run[r].feed)
    /\ run' = [run EXCEPT ![r] = Past(r, run[r].feed)]
    /\ UNCHANGED <<data, cursor, lock, lockDate, now, shown, conns, budget>>

\* The transaction rolls back; the row is not known and pins the cursor.
ImportFails(r) ==
    LET f == run[r].feed
    IN  /\ run[r].at = "importing" /\ budget.failures > 0
        /\ run' = [run EXCEPT ![r] = [Past(r, f) EXCEPT !.known = run[r].known,
                                                        !.failed = run[r].failed \cup {f}]]
        /\ budget' = [budget EXCEPT !.failures = @ - 1]
        /\ UNCHANGED <<data, cursor, lock, lockDate, now, shown, conns>>

EndAccount(r) ==
    /\ run[r].at = "rows" /\ Rows(r) = {}
    /\ cursor' = [cursor EXCEPT ![ConnOf[r]][run[r].acct] = SafeCursor(r)]
    /\ run' = [run EXCEPT ![r].at = "accounts", ![r].acct = NoAccount]
    /\ UNCHANGED <<data, lock, lockDate, now, shown, conns, budget>>

Release(r) == /\ lock' = [lock EXCEPT ![ConnOf[r]] = NoRun]
              /\ run' = [run EXCEPT ![r] = Off]
              /\ UNCHANGED <<data, cursor, lockDate, now, shown, conns>>

Finish(r) == run[r].at = "accounts" /\ run[r].open = {} /\ Release(r) /\ UNCHANGED budget

\* The process dies and with its session the advisory lock.
Die(r) == /\ run[r].at # "off" /\ budget.deaths > 0
          /\ Release(r) /\ budget' = [budget EXCEPT !.deaths = @ - 1]

Work(r) == \/ Load(r) \/ BeginAccount(r) \/ Skip(r) \/ FindManual(r) \/ Link(r)
           \/ FindTransfer(r) \/ Pair(r) \/ Import(r) \/ ImportSkipped(r)
           \/ EndAccount(r) \/ Finish(r)

---------------------------------------------------------------------------
(* The user, the bank and time *)

Spend == budget.edits > 0 /\ budget' = [budget EXCEPT !.edits = @ - 1]

\* PUT: the meta row is left alone.  The user corrects the amounts.
Edit(t) ==
    /\ Spend /\ Live(t)
    /\ ledger' = [ledger EXCEPT ![t].legs = [a \in Accounts |-> 2 * @[a]]]
    /\ UNCHANGED <<meta, kept, cursor, lock, run, lockDate, now, shown, conns>>

DeleteForgets(t) ==
    /\ Spend /\ Live(t)
    /\ ledger' = [ledger EXCEPT ![t].status = "deleted"]
    /\ meta' = [meta EXCEPT ![t] = NoMeta]
    /\ UNCHANGED <<kept, cursor, lock, run, lockDate, now, shown, conns>>
\* DELETE: a meta row with a feed id stays, without its transaction.
Delete(t) ==
    /\ Spend /\ Live(t)
    /\ ledger' = [ledger EXCEPT ![t].status = "deleted"]
    /\ kept' = IF meta[t].one = NoFeed THEN kept
               ELSE kept \cup {[of |-> t, one |-> meta[t].one, two |-> meta[t].two]}
    /\ meta' = [meta EXCEPT ![t] = NoMeta]
    /\ UNCHANGED <<cursor, lock, run, lockDate, now, shown, conns>>

SetLockDate ==
    /\ \E d \in LockDates : d > lockDate /\ lockDate' = d
    /\ UNCHANGED <<data, cursor, lock, run, now, shown, conns, budget>>

\* POST /api/simplefin/connect: a user has at most one connection to the book.
Connect(c) ==
    /\ c \notin conns
    /\ conns' = conns \cup {c}
    /\ UNCHANGED <<data, cursor, lock, run, lockDate, now, shown, budget>>

\* The bank shows a row, at most Late days after its date.
Show(f) ==
    /\ f \notin shown /\ DayOf[f] <= now
    /\ shown' = shown \cup {f}
    /\ UNCHANGED <<data, cursor, lock, run, lockDate, now, conns, budget>>

\* A run ends on the day after it began at the latest.
Tick ==
    /\ now < MaxDay
    /\ \A f \in Feeds : DayOf[f] + Late <= now => f \in shown
    /\ \A r \in Runs : run[r].at # "off" => run[r].began = now
    /\ now' = now + 1
    /\ UNCHANGED <<data, cursor, lock, run, lockDate, shown, conns, budget>>

Next == \/ \E r \in Runs : Fetch(r) \/ Work(r) \/ ImportFails(r) \/ Die(r)
        \/ \E t \in Txns : Edit(t) \/ Delete(t)
        \/ \E c \in Conns : Connect(c)
        \/ \E f \in Feeds : Show(f)
        \/ SetLockDate \/ Tick

\* A timer starts a run again and again, a run that has begun goes on, the bank
\* shows its rows and days pass.
Fairness == /\ \A r \in Runs : SF_vars(Fetch(r)) /\ WF_vars(Work(r))
            /\ \A f \in Feeds : WF_vars(Show(f))
            /\ SF_vars(Tick)

Spec == Init /\ [][Next]_vars /\ Fairness

---------------------------------------------------------------------------
(* Properties *)

\* A feed id is the primary id of one meta row, whoever imports or links it, on
\* a database without the unique index (the claim re-reads under its lock).
PrimaryOnce ==
    /\ \A t, u \in Txns : meta[t].one = meta[u].one => t = u \/ meta[t].one = NoFeed
    /\ \A k \in kept : /\ \A t \in Txns : meta[t].one # k.one
                       /\ \A j \in kept : j.one = k.one => j = k

\* A bank row is recorded once, as the row of a transaction or as the second leg of
\* a transfer: no row is counted twice, however runs die, and transactions are
\* edited and deleted meanwhile.
FeedOnce == \A f \in Feeds : Cardinality(Holders(f)) <= 1

\* What is recorded stays recorded, the user's deletions included, so no later
\* run imports it again.
StaysKnown == \A f \in Feeds : Known(f) => Known(f)'

\* Both hold of a book until a second connection is set up: two may each link a
\* transaction to a row, one over the other.
Alone == \A c, d \in conns : c = d
FeedOnceAlone == Alone => FeedOnce
KnownStaysAlone == [][Alone => StaysKnown]_vars

\* What makes them inductive: the runs work for connections, those of one of them
\* come one at a time, and none writes over an id.  A meta row that
\* is not there holds none, a transaction not yet made has none, and a second leg
\* follows a first;
ConnectedRuns == \A r \in Runs : run[r].at # "off" => ConnOf[r] \in conns
Only(c) == \A r \in Runs : run[r].at # "off" => ConnOf[r] = c
MetaAgrees ==
    \A t \in Txns : /\ ~meta[t].there \/ ledger[t].status = "free" => meta[t] = NoMeta
                    /\ meta[t].two # NoFeed => meta[t].one # NoFeed
LedgerShaped ==
    ledger \in [Txns -> [status : {"free", "live", "deleted"}, day : Days, legs : [Accounts -> Int]]]
LockAgrees == /\ lock \in [Conns -> Runs \cup {NoRun}]
              /\ \A r \in Runs : run[r].at # "off" <=> lock[ConnOf[r]] = r

\* a run knows which of its rows are known, and the row that it has in hand is not;
Knows(r) == run[r].at \notin {"off", "fetched"} =>
               \A f \in run[r].todo : Known(f) => f \in run[r].known
Has(r) == run[r].at \in {"linking", "pairs", "pairing", "importing"} =>
    LET f == run[r].feed  t == run[r].txn
    IN  /\ f \in Feeds /\ ~Known(f)
        /\ run[r].at \in {"linking", "pairing"} => t \in Txns /\ ledger[t].status # "free"
        /\ run[r].at = "linking" => meta[t].one = NoFeed
        /\ run[r].at = "pairing" /\ meta[t].there => meta[t].one # NoFeed /\ meta[t].two = NoFeed
KnowsItsRows == \A r \in Runs : Knows(r) /\ Has(r)

\* no two columns of meta rows hold one id.
RecordedOnce ==
    \A f \in Feeds :
        /\ \A t, u \in Txns : /\ meta[t].one = f /\ meta[u].one = f => t = u
                              /\ meta[t].two = f /\ meta[u].two = f => t = u
                              /\ ~(meta[t].one = f /\ meta[u].two = f)
        /\ \A k, j \in kept : /\ k.one = f /\ j.one = f => k = j
                              /\ k.two = f /\ j.two = f => k = j
                              /\ ~(k.one = f /\ j.two = f)
        /\ \A t \in Txns, k \in kept : ~(f \in {meta[t].one, meta[t].two} /\ f \in {k.one, k.two})

FeedInv == /\ Shape /\ LedgerShaped /\ MetaAgrees /\ LockAgrees
           /\ KnowsItsRows /\ RecordedOnce

\* A row that a bank shows in time is recorded in the end, unless its period was
\* closed or it failed until it was older than the lookback.
AccountedFor(f) == Known(f) \/ DayOf[f] <= lockDate \/ now - DayOf[f] > Lookback
===========================================================================
