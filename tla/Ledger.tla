--------------------------------- MODULE Ledger ---------------------------------
(***************************************************************************)
(* The ledger of one book and the HTTP requests that edit it concurrently, *)
(* over PostgreSQL at READ COMMITTED: transaction create, save, delete,    *)
(* bulk edit, split move, reconcile toggles, the manual reconciliation's   *)
(* finalize, and the setting of the period lock date.                      *)
(*                                                                         *)
(* A step is one SQL statement or one transaction boundary.  A database    *)
(* transaction's writes are invisible to others until COMMIT, so they are  *)
(* one step with it; the rows it locked stay locked from LockRow to that   *)
(* step.  What is read under the parent row's lock cannot change before    *)
(* the commit, so such reads are one step (Check) whatever their number;   *)
(* what no lock protects -- the lock date, the account's reconciled        *)
(* balance, everything read before the transaction began -- is read in a   *)
(* step of its own and used later.                                         *)
(*                                                                         *)
(* A split is its account-side leg; the double entry's other leg never     *)
(* enters a reconciliation and is left out.  Reconcile states: "y" is      *)
(* reconciled or frozen, "n" is new or cleared.                            *)
(***************************************************************************)
EXTENDS Integers, FiniteSets, Functions

CONSTANTS
    Reqs,      \* the requests
    Op,        \* Op[r]: which handler r calls
    NoReq,     \* null: nobody holds the lock
    Txns,      \* transaction rows; their order is the order of their guids
    Splits,    \* split rows
    Parent,    \* Parent[s]: tx_guid, which never changes
    Accounts,
    Amounts,   \* amounts a client may enter
    Dates,     \* post dates; the lock date is one of them, or 0 for none
    Descs,     \* descriptions
    Replace,   \* Replace[d]: replaceDescription(d, find, replace)
    PutStates, \* reconcile states a client sends for a split it saves
    Deltas,    \* statement balance less what the screen added up to
    InitTx, InitSplit  \* the book at the start

Ops == {"create", "put", "delete", "replace", "recategorize",
        "toggle", "toggleMany", "move", "finalize", "setLock"}
States == {"n", "y"}
Statuses == {"unborn", "live", "deleted"}

TxRow == [status : Statuses, date : Dates, desc : Descs, ver : Nat]
SplitRow == [live : BOOLEAN, acct : Accounts, amt : Int, state : States]

ASSUME LedgerAssumption ==
    /\ Op \in [Reqs -> Ops]
    /\ NoReq \notin Reqs
    /\ Txns \subseteq Nat
    /\ Parent \in [Splits -> Txns]
    /\ Accounts # {} /\ Descs # {} /\ Dates # {}
    /\ Dates \subseteq Nat \ {0}
    /\ Amounts \subseteq Int /\ Deltas \subseteq Int
    /\ Replace \in [Descs -> Descs]
    /\ PutStates \subseteq States
    /\ InitTx \in [Txns -> TxRow]
    /\ InitSplit \in [Splits -> SplitRow]
    /\ \A s \in Splits : InitSplit[s].live => InitTx[Parent[s]].status = "live"

\* A database has finitely many transactions and splits.
ASSUME FiniteAssumption == IsFiniteSet(Txns) /\ IsFiniteSet(Splits)

VARIABLES
    tx,        \* transactions; ver stands for enter_date, the version token
    split,     \* splits
    rowLock,   \* rowLock[t]: the request that holds t FOR UPDATE
    advLock,   \* advLock[a]: the holder of advisory lock "reconcile:<a>"
    lockDate,  \* gnucash_web_book_settings.lock_date; 0 is NULL
    pc,        \* where each request is
    todo,      \* rows the request has still to lock
    arg,       \* what the request asks for
    seen,      \* what it read before its database transaction
    sums,      \* finalize: the statement's balance it was given and the
               \* reconciled balance it read
    floor      \* the least lock date in force since its transaction began
               \* (history)

data == <<tx, split>>
locks == <<rowLock, advLock>>
locals == <<pc, todo, arg, seen, sums, floor>>
vars == <<tx, split, rowLock, advLock, lockDate, pc, todo, arg, seen, sums, floor>>

Pcs == {"idle", "loaded", "locking", "checked", "done"}

NoTx == [status |-> "unborn", date |-> CHOOSE d \in Dates : TRUE,
         desc |-> CHOOSE d \in Descs : TRUE, ver |-> 0]
NoSplit == [live |-> FALSE, acct |-> CHOOSE a \in Accounts : TRUE,
            amt |-> 0, state |-> "n"]

\* txs, splits: the rows named; acct: target or reconciled account; from: the
\* account recategorized; date: new post date or statement date; state:
\* reconcile state; adjust: createAdjustment.
Args == [txs : SUBSET Txns, splits : SUBSET Splits, acct : Accounts,
         from : Accounts, date : Dates, state : States, adjust : BOOLEAN]
NoArg == [txs |-> {}, splits |-> {}, acct |-> CHOOSE a \in Accounts : TRUE,
          from |-> CHOOSE a \in Accounts : TRUE,
          date |-> CHOOSE d \in Dates : TRUE, state |-> "n", adjust |-> FALSE]
NoSums == [ending |-> 0, balance |-> 0]
NoView == [tx |-> [t \in Txns |-> NoTx], split |-> [s \in Splits |-> NoSplit]]

IsSplit(c) == /\ c = [live |-> c.live, acct |-> c.acct, amt |-> c.amt, state |-> c.state]
              /\ c.live \in BOOLEAN /\ c.acct \in Accounts /\ c.state \in States

\* Types, but for the amounts, which are sums ...
Shape ==
    /\ tx \in [Txns -> TxRow]
    /\ DOMAIN split = Splits /\ \A s \in Splits : IsSplit(split[s])
    /\ rowLock \in [Txns -> Reqs \cup {NoReq}]
    /\ advLock \in [Accounts -> Reqs \cup {NoReq}]
    /\ lockDate \in Dates \cup {0}
    /\ pc \in [Reqs -> Pcs]
    /\ todo \in [Reqs -> SUBSET Txns]
    /\ arg \in [Reqs -> Args]
    /\ DOMAIN seen = Reqs /\ \A r \in Reqs : seen[r].tx \in [Txns -> TxRow]
    /\ DOMAIN sums = Reqs
    /\ floor \in [Reqs -> Dates \cup {0}]

\* ... and with them.
TypeOK ==
    /\ Shape
    /\ split \in [Splits -> SplitRow]
    /\ seen \in [Reqs -> [tx : [Txns -> TxRow], split : [Splits -> SplitRow]]]
    /\ sums \in [Reqs -> [ending : Int, balance : Int]]

Init ==
    /\ tx = InitTx
    /\ split = InitSplit
    /\ rowLock = [t \in Txns |-> NoReq]
    /\ advLock = [a \in Accounts |-> NoReq]
    /\ lockDate = 0
    /\ pc = [r \in Reqs |-> "idle"]
    /\ todo = [r \in Reqs |-> {}]
    /\ arg = [r \in Reqs |-> NoArg]
    /\ seen = [r \in Reqs |-> NoView]
    /\ sums = [r \in Reqs |-> NoSums]
    /\ floor = [r \in Reqs |-> 0]

---------------------------------------------------------------------------------
(* Reading the book. *)

LiveTxns == {t \in Txns : tx[t].status = "live"}
SplitsOf(t) == {s \in Splits : Parent[s] = t /\ split[s].live}
Parents(S) == {Parent[s] : s \in S}

\* isProtectedReconcileState, on the splits named.
Protected(S) == \E s \in S : split[s].live /\ split[s].state = "y"

\* Mutant: the boundary day is open.
OpenBoundary(dates) == \A d \in dates : d >= lockDate

\* findLockedDate: the boundary day itself is locked.
Open(dates) == \A d \in dates : d > lockDate

Amount == [s \in Splits |-> split[s].amt]

\* summarizeReconciled: one aggregate over the account, no lock.
ReconciledSum(a) ==
    SumFunctionOnSet(Amount, {s \in Splits : /\ split[s].live
                                             /\ split[s].acct = a
                                             /\ split[s].state = "y"})

\* What a client or a pre-transaction read knows of the transactions ts.
View(ts) == [tx |-> [t \in Txns |-> IF t \in ts THEN tx[t] ELSE NoTx],
             split |-> [s \in Splits |-> IF Parent[s] \in ts
                                         THEN split[s] ELSE NoSplit]]

---------------------------------------------------------------------------------
(* Before the database transaction. *)

Load(r, a, v, ending) ==
    /\ pc[r] = "idle"
    /\ sums' = [sums EXCEPT ![r] = [NoSums EXCEPT !.ending = ending]]
    /\ pc' = [pc EXCEPT ![r] = "loaded"]
    /\ arg' = [arg EXCEPT ![r] = a]
    /\ seen' = [seen EXCEPT ![r] = v]
    /\ UNCHANGED <<data, locks, lockDate, todo, floor>>

\* The client loads the transaction it will save or delete; a save also brings
\* the new post date.
LoadTransaction(r) ==
    /\ Op[r] \in {"put", "delete"}
    /\ \E t \in LiveTxns, d \in Dates :
         /\ Op[r] = "delete" => d = NoArg.date
         /\ Load(r, [NoArg EXCEPT !.txs = {t}, !.date = d], View({t}), 0)

\* Bulk edit: the transactions and their splits are loaded up front; locked
\* dates fast-fail.
LoadBatch(r) ==
    \E ts \in (SUBSET LiveTxns) \ {{}} :
      /\ Open({tx[t].date : t \in ts})
      /\ \/ /\ Op[r] = "replace"
            /\ Load(r, [NoArg EXCEPT !.txs = ts], View(ts), 0)
         \/ /\ Op[r] = "recategorize"
            /\ \E a, b \in Accounts :
                 Load(r, [NoArg EXCEPT !.txs = ts, !.from = a, !.acct = b], View(ts), 0)

\* Reconcile toggles and moves: the splits' parents are looked up.  A move
\* fast-fails on protected splits and locked dates.
LoadSplits(r) ==
    \E S \in SUBSET {s \in Splits : split[s].live} \ {{}} :
      LET ts == Parents(S) IN
      \/ /\ Op[r] \in {"toggle", "toggleMany"}
         /\ \E st \in States :
              Load(r, [NoArg EXCEPT !.txs = ts, !.splits = S, !.state = st], NoView, 0)
      \/ /\ Op[r] = "move"
         /\ ~Protected(S) /\ Open({tx[t].date : t \in ts})
         /\ \E a \in Accounts :
              Load(r, [NoArg EXCEPT !.txs = ts, !.splits = S, !.acct = a], NoView, 0)

\* The reconciliation screen: the user ticks unreconciled splits of the account
\* against a statement; the figures on the screen are those of this moment.
LoadReconciliation(r) ==
    /\ Op[r] = "finalize"
    /\ \E a \in Accounts, d \in Dates, delta \in Deltas, adj \in BOOLEAN :
       \E S \in SUBSET {s \in Splits : split[s].live /\ split[s].acct = a
                                         /\ split[s].state = "n"} :
         Load(r, [NoArg EXCEPT !.txs = Parents(S), !.splits = S, !.acct = a,
                               !.date = d, !.adjust = adj],
              NoView, ReconciledSum(a) + SumFunctionOnSet(Amount, S) + delta)

\* A create fast-fails on the lock date.
LoadCreate(r) ==
    /\ Op[r] = "create"
    /\ \E d \in Dates : Open({d}) /\ Load(r, [NoArg EXCEPT !.date = d], NoView, 0)

---------------------------------------------------------------------------------
(* The database transaction: locks, checks. *)

\* Mutant: finalizes of one account are not serialized.
BeginUnserialized(r) ==
    /\ pc[r] = "loaded"
    /\ pc' = [pc EXCEPT ![r] = "locking"]
    /\ todo' = [todo EXCEPT ![r] = arg[r].txs]
    /\ floor' = [floor EXCEPT ![r] = lockDate]
    /\ UNCHANGED <<data, locks, lockDate, arg, seen, sums>>

\* BEGIN; a finalize first waits for the account's advisory lock.
Begin(r) ==
    /\ pc[r] = "loaded"
    /\ IF Op[r] = "finalize"
       THEN /\ advLock[arg[r].acct] = NoReq
            /\ advLock' = [advLock EXCEPT ![arg[r].acct] = r]
       ELSE UNCHANGED advLock
    /\ pc' = [pc EXCEPT ![r] = "locking"]
    /\ todo' = [todo EXCEPT ![r] = arg[r].txs]
    /\ floor' = [floor EXCEPT ![r] = lockDate]
    /\ UNCHANGED <<data, rowLock, lockDate, arg, seen, sums>>

\* Mutant: rows are locked in the order the client named them.
NextRowUnsorted(r, t) == t \in todo[r]

\* SELECT ... ORDER BY guid FOR UPDATE takes its rows one by one, in guid
\* order, waiting for each; a row deleted meanwhile is not returned.
NextRow(r, t) == t \in todo[r] /\ \A u \in todo[r] : t <= u

LockRow(r) ==
    /\ pc[r] = "locking"
    /\ \E t \in Txns :
         /\ NextRow(r, t)
         /\ rowLock[t] = NoReq
         /\ rowLock' = [rowLock EXCEPT ![t] = IF tx[t].status = "live"
                                              THEN r ELSE NoReq]
         /\ todo' = [todo EXCEPT ![r] = @ \ {t}]
    /\ UNCHANGED <<data, advLock, lockDate, pc, arg, seen, sums, floor>>

HasLocked(r) == pc[r] = "locking" /\ todo[r] = {}

\* What a bulk edit plans for t from the rows it loaded BEFORE locking.
NewDesc(r, t) == Replace[seen[r].tx[t].desc]
DescChanges(r) == {t \in arg[r].txs : NewDesc(r, t) # seen[r].tx[t].desc}

\* selectRecategorizeSplit: the one split of t on the source account; none, or
\* several, and t is skipped.
Candidates(r, t) == {s \in Splits : /\ Parent[s] = t
                                    /\ seen[r].split[s].live
                                    /\ seen[r].split[s].acct = arg[r].from
                                    /\ arg[r].from # arg[r].acct}
Moves(r) == {s \in Splits : /\ Parent[s] \in arg[r].txs
                            /\ Candidates(r, Parent[s]) = {s}}

FreshDates(r) == {tx[t].date : t \in arg[r].txs \cap LiveTxns}

\* Mutants: the version token is optional; the save ignores reconcile states.
CanSaveBlind(r) ==
    /\ Op[r] = "put" => Open({arg[r].date})
    /\ \A t \in arg[r].txs : /\ tx[t].status = "live"
                             /\ Open({tx[t].date})
                             /\ ~Protected(SplitsOf(t))
CanSaveUnguarded(r) ==
    /\ Op[r] = "put" => Open({arg[r].date})
    /\ \A t \in arg[r].txs : /\ tx[t].status = "live"
                             /\ tx[t].ver = seen[r].tx[t].ver
                             /\ Open({tx[t].date})

\* enterDateMatches on the locked row, the period lock with the old and the
\* new date, assertSplitsNotProtected on the live splits.
CanSave(r) ==
    /\ Op[r] = "put" => Open({arg[r].date})
    /\ \A t \in arg[r].txs : /\ tx[t].status = "live"
                             /\ tx[t].ver = seen[r].tx[t].ver
                             /\ Open({tx[t].date})
                             /\ ~Protected(SplitsOf(t))

CanMove(r) == /\ \A s \in arg[r].splits : split[s].live
              /\ ~Protected(arg[r].splits)
              /\ Open(FreshDates(r))

\* A row the batch must update is gone: the update throws, the batch rolls back.
CanEditBatch(r) ==
    /\ Open(FreshDates(r))
    /\ IF Op[r] = "replace"
       THEN \A t \in DescChanges(r) : tx[t].status = "live"
       ELSE /\ \A s \in Moves(r) : split[s].live
            /\ ~Protected(Moves(r))

CanToggle(r) == Op[r] = "toggle" => \A s \in arg[r].splits : split[s].live

\* The validated read, after the row locks.
CanFinalize(r) == \A s \in arg[r].splits :
                    /\ split[s].live
                    /\ split[s].acct = arg[r].acct
                    /\ split[s].state # "y"
                    /\ tx[Parent[s]].date <= arg[r].date

Valid(r) ==
    CASE Op[r] \in {"put", "delete"} -> CanSave(r)
      [] Op[r] = "move" -> CanMove(r)
      [] Op[r] \in {"replace", "recategorize"} -> CanEditBatch(r)
      [] Op[r] \in {"toggle", "toggleMany"} -> CanToggle(r)
      [] Op[r] = "finalize" -> CanFinalize(r)
      [] OTHER -> Open({arg[r].date})

\* The checks pass; a finalize then reads the reconciled balance.
Check(r) ==
    /\ HasLocked(r) /\ Valid(r)
    /\ pc' = [pc EXCEPT ![r] = "checked"]
    /\ IF Op[r] = "finalize"
       THEN sums' = [sums EXCEPT ![r].balance = ReconciledSum(arg[r].acct)]
       ELSE UNCHANGED sums
    /\ UNCHANGED <<data, locks, lockDate, todo, arg, seen, floor>>

\* COMMIT or ROLLBACK: the locks go, the answer is sent.
End(r) ==
    /\ rowLock' = [t \in Txns |-> IF rowLock[t] = r THEN NoReq ELSE rowLock[t]]
    /\ advLock' = [a \in Accounts |-> IF advLock[a] = r THEN NoReq ELSE advLock[a]]
    /\ pc' = [pc EXCEPT ![r] = "done"]
    /\ todo' = [todo EXCEPT ![r] = {}]
    /\ arg' = [arg EXCEPT ![r] = NoArg]
    /\ seen' = [seen EXCEPT ![r] = NoView]
    /\ sums' = [sums EXCEPT ![r] = NoSums]
    /\ floor' = [floor EXCEPT ![r] = 0]
    /\ UNCHANGED lockDate

\* 400, 404, 409, 423: a check fails.
Reject(r) == HasLocked(r) /\ ~Valid(r) /\ End(r) /\ UNCHANGED data

\* A statement fails, the transaction times out, the process dies.
Fail(r) == pc[r] \in {"locking", "checked"} /\ End(r) /\ UNCHANGED data

---------------------------------------------------------------------------------
(* The database transaction: writes and COMMIT. *)

Ready(r, op) == pc[r] = "checked" /\ Op[r] = op


\* A fresh enter_date on every row of ts.
Bumped(ts) == [t \in Txns |-> IF t \in ts THEN [tx[t] EXCEPT !.ver = @ + 1] ELSE tx[t]]

\* The splits a client may send: some of the transaction's guids, at least one.
Saved(t, new) ==
    [s \in Splits |-> IF Parent[s] = t THEN new[s] ELSE split[s]]
ClientSplits == {NoSplit} \cup [live : {TRUE}, acct : Accounts, amt : Amounts,
                                state : PutStates]
NewSplits(t) == {f \in [{s \in Splits : Parent[s] = t} -> ClientSplits] :
                   \E s \in DOMAIN f : f[s].live}

\* POST /api/transactions.
Create(r) ==
    /\ Ready(r, "create")
    /\ \E t \in Txns : \E d \in Descs, new \in NewSplits(t) :
         /\ tx[t].status = "unborn"
         /\ tx' = [tx EXCEPT ![t] = [status |-> "live", date |-> arg[r].date,
                                     desc |-> d, ver |-> @.ver + 1]]
         /\ split' = Saved(t, new)
    /\ End(r)

\* PUT: every split is deleted and the client's are inserted.
Put(r) ==
    /\ Ready(r, "put")
    /\ \E t \in arg[r].txs : \E d \in Descs, new \in NewSplits(t) :
         /\ tx' = [tx EXCEPT ![t] = [status |-> "live", date |-> arg[r].date,
                                     desc |-> d, ver |-> @.ver + 1]]
         /\ split' = Saved(t, new)
    /\ End(r)

Delete(r) ==
    /\ Ready(r, "delete")
    /\ tx' = [t \in Txns |-> IF t \in arg[r].txs
                             THEN [tx[t] EXCEPT !.status = "deleted"] ELSE tx[t]]
    /\ split' = [s \in Splits |-> IF Parent[s] \in arg[r].txs
                                  THEN NoSplit ELSE split[s]]
    /\ End(r)

\* Bulk edit, set.descriptionReplace; set.description, which reads nothing, is left out.
ReplaceDescriptions(r) ==
    /\ Ready(r, "replace")
    /\ tx' = [t \in Txns |-> IF t \in DescChanges(r)
                             THEN [status |-> tx[t].status, date |-> tx[t].date,
                                   desc |-> NewDesc(r, t), ver |-> tx[t].ver + 1]
                             ELSE tx[t]]
    /\ UNCHANGED split
    /\ End(r)

Rebooked(S, a) == [s \in Splits |-> IF s \in S /\ split[s].live /\ split[s].state # "y"
                                    THEN [split[s] EXCEPT !.acct = a] ELSE split[s]]

\* Bulk edit, set.recategorize: the splits chosen before locking.
Recategorize(r) ==
    /\ Ready(r, "recategorize")
    /\ split' = Rebooked(Moves(r), arg[r].acct)
    /\ tx' = Bumped(Parents(Moves(r)))
    /\ End(r)

\* POST /api/splits/bulk/move.
Move(r) ==
    /\ Ready(r, "move")
    /\ split' = Rebooked(arg[r].splits, arg[r].acct)
    /\ tx' = Bumped(arg[r].txs)
    /\ End(r)

\* The three reconcile-state routes; toggleMany is the one that does not insist
\* on finding every split.
Marked(S, st) == [s \in Splits |-> IF s \in S /\ split[s].live
                                   THEN [split[s] EXCEPT !.state = st] ELSE split[s]]

Toggle(r) ==
    /\ Ready(r, "toggle") \/ Ready(r, "toggleMany")
    /\ split' = Marked(arg[r].splits, arg[r].state)
    /\ tx' = Bumped(arg[r].txs \cap LiveTxns)
    /\ End(r)

\* finalizeReconciliation.
Difference(r) ==
    sums[r].ending - (sums[r].balance + SumFunctionOnSet(Amount, arg[r].splits))

Finalize(r) ==
    /\ Ready(r, "finalize") /\ Difference(r) = 0
    /\ split' = Marked(arg[r].splits, "y")
    /\ tx' = Bumped(arg[r].txs)
    /\ End(r)

\* createAdjustment: the difference becomes a reconciled split of a new
\* transaction dated on the statement.
FinalizeAdjusted(r) ==
    /\ Ready(r, "finalize") /\ Difference(r) # 0 /\ arg[r].adjust
    /\ \E s \in Splits :
         /\ tx[Parent[s]].status = "unborn"
         /\ split' = [Marked(arg[r].splits, "y") EXCEPT ![s] =
                        [live |-> TRUE, acct |-> arg[r].acct,
                         amt |-> Difference(r), state |-> "y"]]
         /\ tx' = [Bumped(arg[r].txs) EXCEPT ![Parent[s]] =
                     [status |-> "live", date |-> arg[r].date, desc |-> @.desc,
                      ver |-> @.ver + 1]]
    /\ End(r)

FinalizeRefused(r) ==
    /\ Ready(r, "finalize") /\ Difference(r) # 0 /\ ~arg[r].adjust
    /\ End(r)
    /\ UNCHANGED data

\* setLockDate: one upsert, no lock that the requests above share.
SetLockDate(r) ==
    /\ pc[r] = "idle" /\ Op[r] = "setLock"
    /\ \E d \in Dates \cup {0} :
         /\ lockDate' = d
         /\ floor' = [q \in Reqs |-> IF pc[q] \in {"locking", "checked"} /\ d < floor[q]
                                     THEN d ELSE floor[q]]
    /\ pc' = [pc EXCEPT ![r] = "done"]
    /\ UNCHANGED <<data, locks, todo, arg, seen, sums>>

Loads(r) == \/ LoadTransaction(r) \/ LoadBatch(r) \/ LoadSplits(r)
            \/ LoadReconciliation(r) \/ LoadCreate(r)

Commit(r) == \/ Create(r) \/ Put(r) \/ Delete(r) \/ ReplaceDescriptions(r)
             \/ Recategorize(r) \/ Move(r) \/ Toggle(r)
             \/ Finalize(r) \/ FinalizeAdjusted(r)

InTransaction(r) == LockRow(r) \/ Check(r) \/ Reject(r) \/ Commit(r) \/ FinalizeRefused(r)

Handle(r) == Loads(r) \/ Begin(r) \/ InTransaction(r) \/ Fail(r) \/ SetLockDate(r)

Next == \E r \in Reqs : Handle(r)

Spec == Init /\ [][Next]_vars

\* A transaction that has begun runs on: its statements are served and the
\* database grants a free lock to a waiter.  No user is obliged to submit what
\* he loaded.
FairSpec == Spec /\ \A r \in Reqs : WF_vars(InTransaction(r))

---------------------------------------------------------------------------------
(* The inductive invariant. *)

Active(r) == pc[r] \in {"locking", "checked"}

\* A live split belongs to a live transaction.
ParentsLive == \A s \in Splits : split[s].live => tx[Parent[s]].status = "live"

\* What a request names exists or existed, and it locks the parents of every
\* split it names.
NamedRowsExist ==
    \A r \in Reqs : /\ \A t \in arg[r].txs : tx[t].status # "unborn"
                    /\ Parents(arg[r].splits) \subseteq arg[r].txs

\* A row lock is held by a running transaction that named the row; past the
\* locking, a transaction holds every live row it named.
RowsHeld ==
    /\ \A t \in Txns, r \in Reqs :
         rowLock[t] = r => Active(r) /\ t \in arg[r].txs \ todo[r]
    /\ \A r \in Reqs : Active(r) =>
         \A t \in arg[r].txs \ todo[r] : tx[t].status = "live" => rowLock[t] = r
    /\ \A r \in Reqs :
         todo[r] \subseteq (IF pc[r] = "locking" THEN arg[r].txs ELSE {})

\* The token works: while a transaction keeps the version a client loaded, it
\* keeps the content the client loaded.
Same(t, v) == /\ tx[t] = v.tx[t]
              /\ \A s \in Splits : Parent[s] = t => split[s] = v.split[s]
TokenIsSound ==
    \A r \in Reqs : Op[r] \in {"put", "delete"} =>
      \A t \in arg[r].txs :
        /\ seen[r].tx[t].ver <= tx[t].ver
        /\ tx[t].status = "live" /\ tx[t].ver = seen[r].tx[t].ver => Same(t, seen[r])

\* What a save or a delete has checked stays true until it commits.
ChecksHold ==
    \A r \in Reqs : pc[r] = "checked" /\ Op[r] \in {"put", "delete"} =>
      \A t \in arg[r].txs : /\ tx[t].status = "live"
                            /\ tx[t].ver = seen[r].tx[t].ver
                            /\ ~Protected(SplitsOf(t))

Isolation == /\ ParentsLive /\ NamedRowsExist /\ RowsHeld
             /\ TokenIsSound /\ ChecksHold

Inv == Shape /\ Isolation

\* Rows are locked in guid order.
LocksInOrder ==
    \A r \in Reqs, t \in Txns : rowLock[t] = r => \A u \in todo[r] : t < u

\* The dates a request has checked are outside what was closed throughout.
Amending(r) ==
    Op[r] \in {"create", "put", "delete", "replace", "recategorize", "move"}
DatesChecked ==
    \A r \in Reqs :
      /\ Active(r) => floor[r] <= lockDate
      /\ pc[r] = "checked" /\ Amending(r) =>
           /\ Op[r] # "create" =>
                \A t \in arg[r].txs : tx[t].status = "live" => tx[t].date > floor[r]
           /\ Op[r] \in {"create", "put"} => arg[r].date > floor[r]

---------------------------------------------------------------------------------
(* Safety. *)

Commits(r) == pc[r] = "checked" /\ pc'[r] = "done" /\ data' # data

\* The lost update that the mandatory original_enter_date token is there to
\* stop: a save or a delete replaces exactly the transaction its client loaded,
\* whoever reconciled, moved, renamed or saved it in between.
SavesWhatWasLoaded ==
    \A r \in Reqs : Commits(r) /\ Op[r] \in {"put", "delete"}
                      => \A t \in arg[r].txs : Same(t, seen[r])
NoLostUpdate == [][SavesWhatWasLoaded]_vars

\* A reconciled split stays agreed with its bank statement: it keeps its
\* amount, account and date, and exists, until a reconcile route clears the
\* flag -- even when the reconcile commits between another request's checks
\* and its write.
KeepsReconciled ==
    \A s \in Splits : split[s].live /\ split[s].state = "y"
                        => /\ split'[s].live
                           /\ split'[s].acct = split[s].acct
                           /\ split'[s].amt = split[s].amt
                           /\ tx'[Parent[s]].date = tx[Parent[s]].date
ReconciledIsFrozen == [][KeepsReconciled]_vars

\* Canonical lock order: no set of requests wait for one another (the ABBA
\* deadlocks that reconcile toggles and bulk edits once had with saves).
WaitsFor(r, q) ==
    \/ pc[r] = "locking" /\ \E t \in Txns : NextRow(r, t) /\ rowLock[t] = q
    \/ pc[r] = "loaded" /\ Op[r] = "finalize" /\ advLock[arg[r].acct] = q
Waiters == {r \in Reqs : pc[r] \in {"loaded", "locking"}}
NoWaitCycle ==
    \A S \in (SUBSET Waiters) \ {{}} :
      \E r \in S : \A q \in S : ~WaitsFor(r, q)

\* A reconciliation that commits leaves the account's reconciled balance equal
\* to the statement's ending balance ("validation and the write are atomic").
TiesOut ==
    [][\A r \in Reqs : Commits(r) /\ Op[r] = "finalize" =>
         \A a \in Accounts : a = arg[r].acct =>
           ReconciledSum(a)' = sums[r].ending]_vars

Amends(r) == Commits(r) /\ Amending(r)
Amended == {t \in Txns : tx'[t] # tx[t]}
OutsidePeriod(t, d) == /\ tx[t].status = "live" => tx[t].date > d
                       /\ tx'[t].status = "live" => tx'[t].date > d

\* Nothing dated in a period that was closed throughout the request's database
\* transaction is created, changed or deleted: the check is in the transaction
\* and reads the database, not the 1 s cache.
AmendsOutside ==
    \A r \in Reqs : Amends(r) => \A t \in Amended : OutsidePeriod(t, floor[r])
ClosedPeriodIsKept == [][AmendsOutside]_vars
=================================================================================
