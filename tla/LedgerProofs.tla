------------------------------ MODULE LedgerProofs ------------------------------
(***************************************************************************)
(* The ledger, for every set of requests, transactions, splits and inputs. *)
(*                                                                         *)
(* The argument: a request that has passed its locking holds every live    *)
(* row it named (RowsHeld), and a commit touches only rows its request     *)
(* holds (CommitTouches); so what a request checked on its rows is still   *)
(* true when it writes (ChecksHold).  Every commit that changes a          *)
(* transaction's content moves its version (CommitTouches), so equal       *)
(* versions mean equal content (TokenIsSound).                             *)
(*                                                                         *)
(* Rows are locked in guid order, so no requests wait for one another      *)
(* (NoWaitCycle); and a period that is closed for the whole of a request's *)
(* database transaction is not amended by it (ClosedPeriodIsKept).         *)
(*                                                                         *)
(* A finalize in its transaction has the account's advisory lock, so that  *)
(* the balance it read moves with no other finalize (Reckoned), and no     *)
(* other request but a toggle moves a reconciled balance (TiesOut).        *)
(***************************************************************************)
EXTENDS Ledger, Sums

LEMMA Nulls ==
  /\ NoArg \in Args /\ NoArg.txs = {} /\ NoArg.splits = {}
  /\ IsSplit(NoSplit) /\ NoSplit.live = FALSE
  /\ NoTx \in TxRow /\ NoTx.ver = 0 /\ NoTx.status = "unborn"
  /\ NoView.tx \in [Txns -> TxRow]
<1>1. (CHOOSE a \in Accounts : TRUE) \in Accounts
  BY LedgerAssumption
<1>2. (CHOOSE d \in Dates : TRUE) \in Dates
  BY LedgerAssumption
<1>3. (CHOOSE d \in Descs : TRUE) \in Descs
  BY LedgerAssumption
<1>4. NoTx \in TxRow /\ NoTx.ver = 0 /\ NoTx.status = "unborn"
  BY <1>2, <1>3 DEF NoTx, TxRow, Statuses
<1>. QED  BY <1>1, <1>2, <1>4 DEF NoArg, Args, NoSplit, IsSplit, States, NoView

LEMMA EndShape ==
  ASSUME Shape, NEW r \in Reqs, End(r)
  PROVE  /\ rowLock' \in [Txns -> Reqs \cup {NoReq}]
         /\ advLock' \in [Accounts -> Reqs \cup {NoReq}]
         /\ lockDate' \in Dates \cup {0}
         /\ pc' \in [Reqs -> Pcs]
         /\ todo' \in [Reqs -> SUBSET Txns]
         /\ arg' \in [Reqs -> Args]
         /\ DOMAIN seen' = Reqs /\ \A q \in Reqs : seen'[q].tx \in [Txns -> TxRow]
         /\ DOMAIN sums' = Reqs
         /\ floor' \in [Reqs -> Dates \cup {0}]
BY Nulls DEF Shape, End, Pcs

LEMMA SplitShapes ==
  ASSUME Shape, NEW S, NEW a \in Accounts, NEW st \in States
  PROVE  /\ DOMAIN Marked(S, st) = Splits
         /\ \A s \in Splits : IsSplit(Marked(S, st)[s])
         /\ DOMAIN Rebooked(S, a) = Splits
         /\ \A s \in Splits : IsSplit(Rebooked(S, a)[s])
BY DEF Shape, IsSplit, Marked, Rebooked

LEMMA SavedShape ==
  ASSUME Shape, NEW t \in Txns, NEW new \in NewSplits(t)
  PROVE  /\ DOMAIN Saved(t, new) = Splits
         /\ \A s \in Splits : IsSplit(Saved(t, new)[s])
<1>1. ASSUME NEW c \in ClientSplits PROVE IsSplit(c)
  <2>1. CASE c = NoSplit
    BY <2>1, Nulls
  <2>2. CASE c \in [live : {TRUE}, acct : Accounts, amt : Amounts, state : PutStates]
    <3>1. c.state \in States
      BY <2>2, LedgerAssumption
    <3>. QED  BY <2>2, <3>1 DEF IsSplit
  <2>. QED  BY <2>1, <2>2 DEF ClientSplits
<1>. QED  BY <1>1 DEF Shape, Saved, NewSplits

LEMMA BumpedShape ==
  ASSUME Shape, NEW S
  PROVE  Bumped(S) \in [Txns -> TxRow]
BY DEF Shape, Bumped, TxRow

LEMMA ShapeInit == Init => Shape
BY Nulls, LedgerAssumption DEF Init, Shape, IsSplit, SplitRow, Pcs

---------------------------------------------------------------------------------

LEMMA LoadShape ==
  ASSUME Shape, NEW r \in Reqs, NEW a \in Args, NEW v, NEW e, Load(r, a, v, e),
         v.tx \in [Txns -> TxRow]
  PROVE  Shape'
BY DEF Load, Shape, data, locks, Pcs

LEMMA ViewShape ==
  ASSUME Shape, NEW ts
  PROVE  View(ts).tx \in [Txns -> TxRow]
BY Nulls DEF View, Shape

LEMMA LoadsShape ==
  ASSUME Shape, NEW r \in Reqs, Loads(r)
  PROVE  Shape'
<1>. USE Nulls, ViewShape DEF Args
<1>1. CASE LoadTransaction(r)
  <2>1. PICK t \in LiveTxns, d \in Dates :
          Load(r, [NoArg EXCEPT !.txs = {t}, !.date = d], View({t}), 0)
    BY <1>1 DEF LoadTransaction
  <2>2. [NoArg EXCEPT !.txs = {t}, !.date = d] \in Args
    BY DEF LiveTxns
  <2>. QED  BY <2>1, <2>2, LoadShape
<1>2. CASE LoadBatch(r)
  <2>1. PICK ts \in (SUBSET LiveTxns) \ {{}} :
          \/ Load(r, [NoArg EXCEPT !.txs = ts], View(ts), 0)
          \/ \E a, b \in Accounts :
               Load(r, [NoArg EXCEPT !.txs = ts, !.from = a, !.acct = b], View(ts), 0)
    BY <1>2 DEF LoadBatch
  <2>2. ts \in SUBSET Txns
    BY DEF LiveTxns
  <2>3. CASE Load(r, [NoArg EXCEPT !.txs = ts], View(ts), 0)
    BY <2>2, <2>3, LoadShape
  <2>4. ASSUME NEW a \in Accounts, NEW b \in Accounts,
               Load(r, [NoArg EXCEPT !.txs = ts, !.from = a, !.acct = b], View(ts), 0)
        PROVE  Shape'
    <3>1. [NoArg EXCEPT !.txs = ts, !.from = a, !.acct = b] \in Args
      BY <2>2
    <3>. QED  BY <2>4, <3>1, LoadShape
  <2>. QED  BY <2>1, <2>3, <2>4
<1>3. CASE LoadSplits(r)
  <2>1. PICK S \in SUBSET Splits :
          \/ \E st \in States :
               Load(r, [NoArg EXCEPT !.txs = Parents(S), !.splits = S, !.state = st], NoView, 0)
          \/ \E a \in Accounts :
               Load(r, [NoArg EXCEPT !.txs = Parents(S), !.splits = S, !.acct = a], NoView, 0)
    BY <1>3 DEF LoadSplits
  <2>2. Parents(S) \in SUBSET Txns
    BY LedgerAssumption DEF Parents
  <2>3. ASSUME NEW st \in States,
               Load(r, [NoArg EXCEPT !.txs = Parents(S), !.splits = S, !.state = st], NoView, 0)
        PROVE  Shape'
    BY <2>2, <2>3, LoadShape
  <2>4. ASSUME NEW a \in Accounts,
               Load(r, [NoArg EXCEPT !.txs = Parents(S), !.splits = S, !.acct = a], NoView, 0)
        PROVE  Shape'
    BY <2>2, <2>4, LoadShape
  <2>. QED  BY <2>1, <2>3, <2>4
<1>4. CASE LoadReconciliation(r)
  <2>1. PICK a \in Accounts, d \in Dates, adj \in BOOLEAN, S \in SUBSET Splits :
          \E e : Load(r, [NoArg EXCEPT !.txs = Parents(S), !.splits = S, !.acct = a,
                                       !.date = d, !.adjust = adj], NoView, e)
    BY <1>4 DEF LoadReconciliation
  <2>2. PICK e : Load(r, [NoArg EXCEPT !.txs = Parents(S), !.splits = S, !.acct = a,
                                       !.date = d, !.adjust = adj], NoView, e)
    BY <2>1
  <2>3. Parents(S) \in SUBSET Txns
    BY LedgerAssumption DEF Parents
  <2>4. [NoArg EXCEPT !.txs = Parents(S), !.splits = S, !.acct = a,
                      !.date = d, !.adjust = adj] \in Args
    BY <2>3
  <2>. QED  BY <2>2, <2>4, LoadShape
<1>5. CASE LoadCreate(r)
  <2>1. PICK d \in Dates : Load(r, [NoArg EXCEPT !.date = d], NoView, 0)
    BY <1>5 DEF LoadCreate
  <2>2. [NoArg EXCEPT !.date = d] \in Args
    OBVIOUS
  <2>. QED  BY <2>1, <2>2, LoadShape
<1>. QED  BY <1>1, <1>2, <1>3, <1>4, <1>5 DEF Loads

LEMMA CommitShape ==
  ASSUME Shape, NEW r \in Reqs, Commit(r)
  PROVE  Shape'
<1>1. End(r)
  BY DEF Commit, Create, Put, Delete, ReplaceDescriptions, Recategorize, Move,
         Toggle, Finalize, FinalizeAdjusted
<1>2. arg[r] \in Args
  BY DEF Shape
<1>3. SUFFICES /\ tx' \in [Txns -> TxRow]
               /\ DOMAIN split' = Splits
               /\ \A s \in Splits : IsSplit(split[s])'
  BY <1>1, EndShape DEF Shape, IsSplit
<1>4. CASE Create(r) \/ Put(r)
  <2>1. PICK t \in Txns : \E d \in Descs, new \in NewSplits(t) :
          /\ tx' = [tx EXCEPT ![t] = [status |-> "live", date |-> arg[r].date,
                                      desc |-> d, ver |-> @.ver + 1]]
          /\ split' = Saved(t, new)
    BY <1>2, <1>4 DEF Create, Put, Args
  <2>. QED  BY <1>2, <2>1, SavedShape DEF Shape, TxRow, Args, Statuses
<1>5. CASE Delete(r)
  BY <1>5, Nulls DEF Delete, Shape, TxRow, Statuses
<1>6. CASE ReplaceDescriptions(r)
  <2>1. \A t \in Txns : NewDesc(r, t) \in Descs
    BY LedgerAssumption DEF NewDesc, Shape, TxRow
  <2>3. tx' \in [Txns -> TxRow]
    BY <1>6, <2>1 DEF ReplaceDescriptions, Shape, TxRow
  <2>. QED  BY <1>6, <2>3 DEF ReplaceDescriptions, Shape
<1>7. CASE Recategorize(r) \/ Move(r)
  BY <1>2, <1>7, BumpedShape, SplitShapes DEF Recategorize, Move, Args
<1>8. CASE Toggle(r) \/ Finalize(r)
  BY <1>2, <1>8, BumpedShape, SplitShapes DEF Toggle, Finalize, Args, States
<1>9. CASE FinalizeAdjusted(r)
  <2>1. PICK s \in Splits :
         /\ split' = [Marked(arg[r].splits, "y") EXCEPT ![s] =
                        [live |-> TRUE, acct |-> arg[r].acct,
                         amt |-> Difference(r), state |-> "y"]]
         /\ tx' = [Bumped(arg[r].txs) EXCEPT ![Parent[s]] =
                     [status |-> "live", date |-> arg[r].date, desc |-> @.desc,
                      ver |-> @.ver + 1]]
    BY <1>9 DEF FinalizeAdjusted
  <2>2. tx' \in [Txns -> TxRow]
    <3>1. Bumped(arg[r].txs) \in [Txns -> TxRow]
      BY BumpedShape
    <3>. QED  BY <1>2, <2>1, <3>1, LedgerAssumption DEF TxRow, Args, Statuses
  <2>3. "y" \in States /\ arg[r].acct \in Accounts
    BY <1>2 DEF States, Args
  <2>4. /\ DOMAIN Marked(arg[r].splits, "y") = Splits
        /\ \A q \in Splits : IsSplit(Marked(arg[r].splits, "y")[q])
    BY <2>3, SplitShapes
  <2>. QED  BY <2>1, <2>2, <2>3, <2>4 DEF IsSplit
<1>. QED
  BY <1>4, <1>5, <1>6, <1>7, <1>8, <1>9 DEF Commit

\* Every action keeps the shape of the state.
LEMMA ShapeStep == Shape /\ [Next]_vars => Shape'
<1>. SUFFICES ASSUME Shape, [Next]_vars PROVE Shape'
  OBVIOUS
<1>1. CASE UNCHANGED vars
  BY <1>1 DEF vars, Shape, IsSplit
<1>2. CASE Next
  <2>. PICK r \in Reqs : \/ Loads(r) \/ Begin(r) \/ InTransaction(r) \/ Fail(r)
                         \/ SetLockDate(r)
    BY <1>2 DEF Next, Handle
  <2>1. CASE Loads(r)
    BY <2>1, LoadsShape
  <2>2. CASE Begin(r)
    BY <2>2 DEF Begin, Shape, IsSplit, data, Pcs, Args
  <2>3. CASE LockRow(r)
    <3>1. PICK t \in Txns : /\ rowLock' = [rowLock EXCEPT ![t] = IF tx[t].status = "live"
                                                                 THEN r ELSE NoReq]
                            /\ todo' = [todo EXCEPT ![r] = @ \ {t}]
      BY <2>3 DEF LockRow
    <3>. QED  BY <2>3, <3>1 DEF LockRow, Shape, IsSplit, data
  <2>4. CASE Check(r)
    BY <2>4 DEF Check, Shape, IsSplit, data, locks, Pcs
  <2>5. CASE Commit(r)
    BY <2>5, CommitShape
  <2>6. CASE Reject(r) \/ Fail(r) \/ FinalizeRefused(r)
    BY <2>6, EndShape DEF Reject, Fail, FinalizeRefused, Shape, IsSplit, data
  <2>7. CASE SetLockDate(r)
    BY <2>7 DEF SetLockDate, Shape, IsSplit, data, locks, Pcs
  <2>. QED  BY <2>1, <2>2, <2>3, <2>4, <2>5, <2>6, <2>7 DEF InTransaction
<1>. QED  BY <1>1, <1>2

\* The state keeps its types (of the amounts, which are sums, see AmountTyping).
THEOREM Typing == Spec => []Shape
<1>. QED  BY ShapeInit, ShapeStep, PTL DEF Spec

---------------------------------------------------------------------------------

\* Commit(r) leaves a transaction and its splits alone, or ...
Untouched(t) == /\ tx'[t] = tx[t]
                /\ \A s \in Splits : Parent[s] = t => split'[s] = split[s]

\* ... holds its row (or creates it), moves its version, and deletes its splits
\* with it.
Touched(r, t) ==
  /\ rowLock[t] = r \/ tx[t].status # "live"
  /\ tx[t].status = "deleted" => tx'[t].status = "deleted"
  /\ tx'[t].status # "unborn"
  /\ tx'[t].ver >= tx[t].ver
  /\ tx'[t].status = "live" => tx'[t].ver > tx[t].ver
  /\ tx'[t].status = "deleted" =>
       \A s \in Splits : Parent[s] = t => ~split'[s].live

\* The requests that name their rows hold them, live ones, when they write.
LEMMA Holds ==
  ASSUME Shape, Isolation, NEW r \in Reqs, pc[r] = "checked",
         NEW t \in arg[r].txs, tx[t].status = "live"
  PROVE  rowLock[t] = r
<1>1. todo[r] = {}
  BY DEF Isolation, RowsHeld
<1>. QED  BY <1>1 DEF Isolation, RowsHeld, Active

\* Bumping a set of named rows and rewriting some splits of theirs, live ones,
\* touches those rows only.
LEMMA BumpTouches ==
  ASSUME Shape, Isolation, NEW r \in Reqs, pc[r] = "checked",
         NEW ts \in SUBSET arg[r].txs, NEW t \in Txns, tx'[t] = Bumped(ts)[t],
         \A s \in Splits : Parent[s] = t /\ split'[s] # split[s] =>
           split[s].live /\ t \in ts
  PROVE  Untouched(t) \/ Touched(r, t)
<1>1. CASE t \notin ts
  BY <1>1 DEF Bumped, Untouched
<1>2. CASE t \in ts
  <2>1. /\ tx'[t].ver = tx[t].ver + 1
        /\ tx'[t].status = tx[t].status
    BY <1>2 DEF Bumped, Shape, TxRow
  <2>2. tx[t] \in TxRow
    BY DEF Shape
  <2>3. tx[t].status # "unborn"
    BY <1>2 DEF Isolation, NamedRowsExist
  <2>4. rowLock[t] = r \/ tx[t].status # "live"
    BY <1>2, Holds
  <2>5. ASSUME tx'[t].status = "deleted", NEW s \in Splits, Parent[s] = t, split'[s].live
        PROVE  FALSE
    BY <2>1, <2>5 DEF Isolation, ParentsLive
  <2>. QED  BY <2>1, <2>2, <2>3, <2>4, <2>5 DEF Touched, TxRow
<1>. QED  BY <1>1, <1>2

LEMMA CommitTouches ==
  ASSUME Shape, Isolation, NEW r \in Reqs, Commit(r)
  PROVE  \A t \in Txns : Untouched(t) \/ Touched(r, t)
<1>1. /\ pc[r] = "checked"
      /\ arg[r] \in Args
      /\ \A s \in arg[r].splits : Parent[s] \in arg[r].txs
  <2>1. pc[r] = "checked" /\ arg[r] \in Args
    BY DEF Commit, Create, Put, Delete, ReplaceDescriptions, Recategorize, Move,
           Toggle, Finalize, FinalizeAdjusted, Ready, Shape
  <2>2. Parents(arg[r].splits) \subseteq arg[r].txs
    BY DEF Isolation, NamedRowsExist
  <2>. QED  BY <2>1, <2>2 DEF Parents
<1>2. CASE Create(r)
  <2>1. PICK u \in Txns : \E d \in Descs, new \in NewSplits(u) :
          /\ tx[u].status = "unborn"
          /\ tx' = [tx EXCEPT ![u] = [status |-> "live", date |-> arg[r].date,
                                      desc |-> d, ver |-> @.ver + 1]]
          /\ split' = Saved(u, new)
    BY <1>2 DEF Create
  <2>2. /\ tx'[u].status = "live" /\ tx'[u].ver = tx[u].ver + 1
        /\ tx[u].ver \in Nat /\ tx[u].status = "unborn"
    BY <2>1 DEF Shape, TxRow
  <2>3. Touched(r, u)
    BY <2>2 DEF Touched
  <2>4. \A t \in Txns \ {u} : Untouched(t)
    BY <2>1 DEF Untouched, Saved, Shape
  <2>. QED  BY <2>3, <2>4
<1>3. CASE Put(r)
  <2>1. PICK u \in arg[r].txs : \E d \in Descs, new \in NewSplits(u) :
          /\ tx' = [tx EXCEPT ![u] = [status |-> "live", date |-> arg[r].date,
                                      desc |-> d, ver |-> @.ver + 1]]
          /\ split' = Saved(u, new)
    BY <1>3 DEF Put
  <2>2. u \in Txns
    BY <1>1 DEF Args
  <2>3. tx[u].status = "live"
    BY <1>1, <1>3 DEF Put, Ready, Isolation, ChecksHold
  <2>4. /\ tx'[u].status = "live" /\ tx'[u].ver = tx[u].ver + 1
        /\ tx[u].ver \in Nat
    BY <2>1, <2>2 DEF Shape, TxRow
  <2>5. Touched(r, u)
    BY <1>1, <2>3, <2>4, Holds DEF Touched
  <2>6. \A t \in Txns \ {u} : Untouched(t)
    BY <2>1 DEF Untouched, Saved, Shape
  <2>. QED  BY <2>5, <2>6
<1>4. CASE Delete(r)
  <2>. SUFFICES ASSUME NEW t \in Txns PROVE Untouched(t) \/ Touched(r, t)
    OBVIOUS
  <2>1. CASE t \notin arg[r].txs
    BY <1>4, <2>1 DEF Delete, Untouched
  <2>2. CASE t \in arg[r].txs
    <3>1. tx'[t].status = "deleted" /\ tx'[t].ver = tx[t].ver /\ tx[t].ver \in Nat
      BY <1>4, <2>2 DEF Delete, Shape, TxRow
    <3>2. \A s \in Splits : Parent[s] = t => ~split'[s].live
      BY <1>4, <2>2, Nulls DEF Delete
    <3>. QED  BY <1>1, <2>2, <3>1, <3>2, Holds DEF Touched
  <2>. QED  BY <2>1, <2>2
<1>5. CASE ReplaceDescriptions(r)
  <2>. SUFFICES ASSUME NEW t \in Txns PROVE Untouched(t) \/ Touched(r, t)
    OBVIOUS
  <2>1. CASE t \notin DescChanges(r)
    BY <1>5, <2>1 DEF ReplaceDescriptions, Untouched
  <2>2. CASE t \in DescChanges(r)
    <3>1. t \in arg[r].txs /\ tx[t] \in TxRow
      BY <2>2 DEF DescChanges, Shape
    <3>2. tx'[t].status = tx[t].status /\ tx'[t].ver = tx[t].ver + 1
      BY <1>5, <2>2 DEF ReplaceDescriptions
    <3>3. tx[t].status # "unborn"
      BY <3>1 DEF Isolation, NamedRowsExist
    <3>4. rowLock[t] = r \/ tx[t].status # "live"
      BY <1>1, <3>1, Holds
    <3>5. ASSUME tx'[t].status = "deleted", NEW s \in Splits, Parent[s] = t, split'[s].live
          PROVE  FALSE
      BY <1>5, <3>2, <3>5 DEF ReplaceDescriptions, Isolation, ParentsLive
    <3>. QED  BY <3>1, <3>2, <3>3, <3>4, <3>5 DEF Touched, TxRow
  <2>. QED  BY <2>1, <2>2
<1>6. CASE Recategorize(r)
  <2>1. Parents(Moves(r)) \in SUBSET arg[r].txs
    BY DEF Parents, Moves
  <2>2. \A s \in Splits : split'[s] # split[s] =>
          split[s].live /\ Parent[s] \in Parents(Moves(r))
    BY <1>6 DEF Recategorize, Rebooked, Parents
  <2>. QED  BY <1>1, <1>6, <2>1, <2>2, BumpTouches DEF Recategorize
<1>7. CASE Move(r)
  <2>1. \A s \in Splits : split'[s] # split[s] => split[s].live /\ Parent[s] \in arg[r].txs
    BY <1>1, <1>7 DEF Move, Rebooked
  <2>. QED  BY <1>1, <1>7, <2>1, BumpTouches DEF Move
<1>8. CASE Toggle(r)
  <2>1. \A s \in Splits : split'[s] # split[s] =>
          split[s].live /\ Parent[s] \in arg[r].txs \cap LiveTxns
    BY <1>1, <1>8, LedgerAssumption
       DEF Toggle, Marked, LiveTxns, Isolation, ParentsLive
  <2>. QED  BY <1>1, <1>8, <2>1, BumpTouches DEF Toggle
<1>9. CASE Finalize(r)
  <2>1. \A s \in Splits : split'[s] # split[s] => split[s].live /\ Parent[s] \in arg[r].txs
    BY <1>1, <1>9 DEF Finalize, Marked
  <2>. QED  BY <1>1, <1>9, <2>1, BumpTouches DEF Finalize
<1>10. CASE FinalizeAdjusted(r)
  <2>1. PICK s0 \in Splits :
         /\ tx[Parent[s0]].status = "unborn"
         /\ split' = [Marked(arg[r].splits, "y") EXCEPT ![s0] =
                        [live |-> TRUE, acct |-> arg[r].acct,
                         amt |-> Difference(r), state |-> "y"]]
         /\ tx' = [Bumped(arg[r].txs) EXCEPT ![Parent[s0]] =
                     [status |-> "live", date |-> arg[r].date, desc |-> @.desc,
                      ver |-> @.ver + 1]]
    BY <1>10 DEF FinalizeAdjusted
  <2>. DEFINE u == Parent[s0]
  <2>2. u \in Txns /\ u \notin arg[r].txs
    BY <2>1, LedgerAssumption DEF Isolation, NamedRowsExist
  <2>3. Touched(r, u)
    <3>1. Bumped(arg[r].txs)[u] = tx[u] /\ tx[u] \in TxRow
      BY <2>2 DEF Bumped, Shape
    <3>2. tx'[u].status = "live" /\ tx'[u].ver = tx[u].ver + 1
      BY <2>1, <2>2, <3>1, BumpedShape
    <3>. QED  BY <2>1, <3>1, <3>2 DEF Touched, TxRow
  <2>4. ASSUME NEW t \in Txns \ {u} PROVE Untouched(t) \/ Touched(r, t)
    <3>1. tx'[t] = Bumped(arg[r].txs)[t]
      BY <2>1, <2>4, BumpedShape
    <3>2. \A s \in Splits : Parent[s] = t /\ split'[s] # split[s] =>
            split[s].live /\ t \in arg[r].txs
      BY <1>1, <2>1, <2>4 DEF Marked
    <3>. QED  BY <1>1, <3>1, <3>2, BumpTouches
  <2>. QED  BY <2>3, <2>4
<1>. QED
  BY <1>2, <1>3, <1>4, <1>5, <1>6, <1>7, <1>8, <1>9, <1>10 DEF Commit

---------------------------------------------------------------------------------

LEMMA IsolationInit == Init => Isolation
<1>. SUFFICES ASSUME Init PROVE Isolation
  OBVIOUS
<1>1. ParentsLive
  BY LedgerAssumption DEF Init, ParentsLive
<1>2. NamedRowsExist
  BY Nulls DEF Init, NamedRowsExist, Parents
<1>3. RowsHeld
  BY LedgerAssumption DEF Init, RowsHeld, Active
<1>4. TokenIsSound
  BY Nulls DEF Init, TokenIsSound
<1>5. ChecksHold
  BY DEF Init, ChecksHold
<1>. QED  BY <1>1, <1>2, <1>3, <1>4, <1>5 DEF Isolation

\* What a request names when it loads.
LEMMA LoadIsolated ==
  ASSUME Shape, Isolation, NEW r \in Reqs, NEW a, NEW v, NEW e, Load(r, a, v, e),
         \A t \in a.txs : t \in Txns /\ tx[t].status # "unborn",
         Parents(a.splits) \subseteq a.txs,
         Op[r] \in {"put", "delete"} => \A t \in a.txs : Same(t, v)
  PROVE  Isolation'
<1>. USE DEF Load, data, locks
<1>1. ParentsLive'
  BY DEF Isolation, ParentsLive
<1>2. NamedRowsExist'
  BY DEF Isolation, NamedRowsExist, Shape, Parents
<1>3. RowsHeld'
  BY DEF Isolation, RowsHeld, Active, Shape
<1>4. TokenIsSound'
  <2>1. SUFFICES ASSUME NEW q \in Reqs, Op[q] \in {"put", "delete"}, NEW t \in arg'[q].txs
                 PROVE  /\ seen'[q].tx[t].ver <= tx[t].ver
                        /\ tx[t].status = "live" /\ tx[t].ver = seen'[q].tx[t].ver
                             => Same(t, seen'[q])
    BY DEF TokenIsSound, Same
  <2>2. CASE q = r
    <3>1. arg'[q] = a /\ seen'[q] = v
      BY <2>2 DEF Shape
    <3>2. Same(t, v) /\ tx[t] \in TxRow
      BY <2>1, <2>2, <3>1 DEF Shape
    <3>. QED  BY <3>1, <3>2 DEF Same, TxRow
  <2>3. CASE q # r
    BY <2>1, <2>3 DEF Isolation, TokenIsSound, Shape
  <2>. QED  BY <2>2, <2>3
<1>5. ChecksHold'
  BY DEF Isolation, ChecksHold, Shape, Protected, SplitsOf
<1>. QED  BY <1>1, <1>2, <1>3, <1>4, <1>5 DEF Isolation

LEMMA LoadsIsolated ==
  ASSUME Shape, Isolation, NEW r \in Reqs, Loads(r)
  PROVE  Isolation'
<1>. USE Nulls
<1>0. ASSUME NEW S \in SUBSET Splits, \A s \in S : split[s].live
      PROVE  \A t \in Parents(S) : t \in Txns /\ tx[t].status # "unborn"
  BY <1>0, LedgerAssumption DEF Parents, Isolation, ParentsLive
<1>1. CASE LoadTransaction(r)
  <2>1. PICK t \in LiveTxns, d \in Dates :
          Load(r, [NoArg EXCEPT !.txs = {t}, !.date = d], View({t}), 0)
    BY <1>1 DEF LoadTransaction
  <2>2. Same(t, View({t}))
    BY DEF Same, View, LiveTxns
  <2>3. /\ [NoArg EXCEPT !.txs = {t}, !.date = d].txs = {t}
        /\ [NoArg EXCEPT !.txs = {t}, !.date = d].splits = {}
    BY DEF Args
  <2>4. Parents({}) = {}
    BY DEF Parents
  <2>. QED  BY <2>1, <2>2, <2>3, <2>4, LoadIsolated DEF LiveTxns
<1>2. CASE LoadBatch(r)
  <2>1. PICK ts \in (SUBSET LiveTxns) \ {{}} :
          \/ Op[r] = "replace" /\ Load(r, [NoArg EXCEPT !.txs = ts], View(ts), 0)
          \/ /\ Op[r] = "recategorize"
             /\ \E a, b \in Accounts :
                  Load(r, [NoArg EXCEPT !.txs = ts, !.from = a, !.acct = b], View(ts), 0)
    BY <1>2 DEF LoadBatch
  <2>2. PICK a \in Args : /\ a.txs = ts /\ a.splits = {}
                          /\ Load(r, a, View(ts), 0)
    BY <2>1 DEF Args, LiveTxns
  <2>3. Parents({}) = {}
    BY DEF Parents
  <2>. QED  BY <2>1, <2>2, <2>3, LoadIsolated DEF LiveTxns
<1>3. CASE LoadSplits(r)
  <2>1. PICK S \in SUBSET {s \in Splits : split[s].live} :
          \/ /\ Op[r] \in {"toggle", "toggleMany"}
             /\ \E st \in States :
                  Load(r, [NoArg EXCEPT !.txs = Parents(S), !.splits = S, !.state = st], NoView, 0)
          \/ /\ Op[r] = "move"
             /\ \E a \in Accounts :
                  Load(r, [NoArg EXCEPT !.txs = Parents(S), !.splits = S, !.acct = a], NoView, 0)
    BY <1>3 DEF LoadSplits
  <2>2. Parents(S) \subseteq Txns
    BY <1>0
  <2>3. PICK a \in Args : /\ a.txs = Parents(S) /\ a.splits = S
                          /\ Load(r, a, NoView, 0)
    BY <2>1, <2>2 DEF Args
  <2>4. Op[r] \in {"toggle", "toggleMany", "move"}
    BY <2>1
  <2>. QED  BY <1>0, <2>3, <2>4, LoadIsolated
<1>4. CASE LoadReconciliation(r)
  <2>1. PICK a \in Accounts, d \in Dates, adj \in BOOLEAN, S \in SUBSET {s \in Splits : split[s].live} :
          \E e : Load(r, [NoArg EXCEPT !.txs = Parents(S), !.splits = S, !.acct = a,
                                       !.date = d, !.adjust = adj], NoView, e)
    BY <1>4 DEF LoadReconciliation
  <2>2. Parents(S) \subseteq Txns
    BY <1>0
  <2>3. PICK b \in Args : /\ b.txs = Parents(S) /\ b.splits = S
                          /\ \E e : Load(r, b, NoView, e)
    BY <2>1, <2>2 DEF Args
  <2>4. Op[r] = "finalize"
    BY <1>4 DEF LoadReconciliation
  <2>. QED  BY <1>0, <2>3, <2>4, LoadIsolated
<1>5. CASE LoadCreate(r)
  <2>1. PICK a \in Args : a.txs = {} /\ a.splits = {} /\ Load(r, a, NoView, 0)
    BY <1>5 DEF LoadCreate, Args
  <2>2. Parents({}) = {}
    BY DEF Parents
  <2>. QED  BY <2>1, <2>2, LoadIsolated
<1>. QED  BY <1>1, <1>2, <1>3, <1>4, <1>5 DEF Loads

\* The end of a database transaction, whatever it wrote.
LEMMA EndIsolated ==
  ASSUME Shape, Shape', Isolation, NEW r \in Reqs, End(r),
         \A t \in Txns : Untouched(t) \/ Touched(r, t)
  PROVE  Isolation'
<1>1. /\ pc'[r] = "done" /\ todo'[r] = {} /\ arg'[r] = NoArg
      /\ \A t \in Txns : rowLock'[t] = IF rowLock[t] = r THEN NoReq ELSE rowLock[t]
      /\ \A q \in Reqs \ {r} : /\ pc'[q] = pc[q] /\ todo'[q] = todo[q]
                               /\ arg'[q] = arg[q] /\ seen'[q] = seen[q]
  BY DEF End, Shape
<1>2. ASSUME NEW s \in Splits, split'[s].live
      PROVE  tx'[Parent[s]].status = "live"
  <2>1. Parent[s] \in Txns /\ tx'[Parent[s]] \in TxRow
    BY LedgerAssumption DEF Shape
  <2>2. CASE Untouched(Parent[s])
    BY <1>2, <2>2 DEF Untouched, Isolation, ParentsLive
  <2>3. CASE Touched(r, Parent[s])
    BY <1>2, <2>1, <2>3 DEF Touched, TxRow, Statuses
  <2>. QED  BY <2>1, <2>2, <2>3
<1>3. ASSUME NEW t \in Txns, tx[t].status # "unborn" PROVE tx'[t].status # "unborn"
  BY <1>3 DEF Untouched, Touched
<1>4. NamedRowsExist'
  <2>1. SUFFICES ASSUME NEW q \in Reqs
                 PROVE  /\ \A t \in arg'[q].txs : tx'[t].status # "unborn"
                        /\ Parents(arg'[q].splits) \subseteq arg'[q].txs
    BY DEF NamedRowsExist, Parents
  <2>2. CASE q = r
    BY <1>1, <2>2, Nulls DEF Parents
  <2>3. CASE q # r
    BY <1>1, <1>3, <2>3 DEF Isolation, NamedRowsExist, Shape, Args
  <2>. QED  BY <2>2, <2>3
\* A row that another request holds, or needs, is untouched.
<1>5. ASSUME NEW q \in Reqs \ {r}, NEW t \in Txns, tx[t].status = "live", rowLock[t] = q
      PROVE  Untouched(t)
  BY <1>5 DEF Touched
<1>6. RowsHeld'
  <2>1. ASSUME NEW t \in Txns, NEW q \in Reqs, rowLock'[t] = q
        PROVE  Active(q)' /\ t \in arg'[q].txs \ todo'[q]
    <3>1. q # r /\ rowLock[t] = q
      BY <1>1, <2>1, LedgerAssumption
    <3>. QED  BY <1>1, <3>1 DEF Active, Isolation, RowsHeld
  <2>2. ASSUME NEW q \in Reqs, Active(q)', NEW t \in arg'[q].txs \ todo'[q],
               tx'[t].status = "live"
        PROVE  rowLock'[t] = q
    <3>1. q # r
      BY <1>1, <2>2 DEF Active
    <3>2. Active(q) /\ t \in arg[q].txs \ todo[q] /\ t \in Txns
      BY <1>1, <2>2, <3>1 DEF Active, Shape, Args
    <3>3. tx[t].status = "live"
      <4>1. tx[t].status # "unborn" /\ tx[t] \in TxRow
        BY <3>2 DEF Isolation, NamedRowsExist, Shape
      <4>. QED  BY <2>2, <3>2, <4>1 DEF Untouched, Touched, TxRow, Statuses
    <3>4. rowLock[t] = q
      BY <3>2, <3>3 DEF Isolation, RowsHeld
    <3>. QED  BY <1>1, <3>1, <3>2, <3>4
  <2>3. ASSUME NEW q \in Reqs
        PROVE  todo'[q] \subseteq (IF pc'[q] = "locking" THEN arg'[q].txs ELSE {})
    BY <1>1 DEF Isolation, RowsHeld
  <2>. QED  BY <2>1, <2>2, <2>3 DEF RowsHeld, Active
<1>7. TokenIsSound'
  <2>1. SUFFICES ASSUME NEW q \in Reqs, Op[q] \in {"put", "delete"}, NEW t \in arg'[q].txs
                 PROVE  /\ seen'[q].tx[t].ver <= tx'[t].ver
                        /\ tx'[t].status = "live" /\ tx'[t].ver = seen'[q].tx[t].ver
                             => Same(t, seen[q])'
    BY DEF TokenIsSound, Same
  <2>2. q # r
    BY <1>1, <2>1, Nulls
  <2>3. /\ t \in arg[q].txs /\ t \in Txns /\ seen'[q] = seen[q]
        /\ tx[t].ver \in Nat /\ tx'[t].ver \in Nat /\ seen[q].tx[t].ver \in Nat
    BY <1>1, <2>1, <2>2 DEF Shape, Args, TxRow
  <2>4. /\ seen[q].tx[t].ver <= tx[t].ver
        /\ tx[t].status = "live" /\ tx[t].ver = seen[q].tx[t].ver => Same(t, seen[q])
    BY <2>1, <2>3 DEF Isolation, TokenIsSound
  <2>5. CASE Untouched(t)
    BY <2>3, <2>4, <2>5 DEF Untouched, Same
  <2>6. CASE Touched(r, t)
    BY <2>3, <2>4, <2>6 DEF Touched
  <2>. QED  BY <2>3, <2>5, <2>6
<1>8. ChecksHold'
  <2>1. SUFFICES ASSUME NEW q \in Reqs, pc'[q] = "checked", Op[q] \in {"put", "delete"},
                        NEW t \in arg'[q].txs
                 PROVE  /\ tx'[t].status = "live"
                        /\ tx'[t].ver = seen'[q].tx[t].ver
                        /\ ~Protected(SplitsOf(t))'
    BY DEF ChecksHold, Protected, SplitsOf
  <2>2. q # r /\ pc[q] = "checked" /\ t \in arg[q].txs /\ t \in Txns /\ seen'[q] = seen[q]
    BY <1>1, <2>1 DEF Shape, Args
  <2>3. /\ tx[t].status = "live" /\ tx[t].ver = seen[q].tx[t].ver
        /\ ~Protected(SplitsOf(t))
    BY <2>1, <2>2 DEF Isolation, ChecksHold
  <2>4. Untouched(t)
    BY <1>5, <2>2, <2>3, Holds
  <2>. QED  BY <2>2, <2>3, <2>4 DEF Untouched, Protected, SplitsOf
<1>. QED  BY <1>2, <1>4, <1>6, <1>7, <1>8 DEF Isolation, ParentsLive

LEMMA IsolationStep == Inv /\ [Next]_vars => Isolation'
<1>. SUFFICES ASSUME Shape, Isolation, [Next]_vars, Shape' PROVE Isolation'
  BY ShapeStep DEF Inv
<1>1. CASE UNCHANGED vars
  BY <1>1 DEF vars, Isolation, ParentsLive, NamedRowsExist, RowsHeld, TokenIsSound,
              ChecksHold, Parents, Active, Same, Protected, SplitsOf
<1>2. CASE Next
  <2>. PICK r \in Reqs : \/ Loads(r) \/ Begin(r) \/ InTransaction(r) \/ Fail(r)
                         \/ SetLockDate(r)
    BY <1>2 DEF Next, Handle
  <2>1. CASE Loads(r)
    BY <2>1, LoadsIsolated
  <2>2. CASE Begin(r)
    <3>. USE <2>2 DEF Begin, data
    <3>1. ParentsLive' /\ NamedRowsExist'
      BY DEF Isolation, ParentsLive, NamedRowsExist, Parents
    <3>2. RowsHeld'
      BY DEF Isolation, RowsHeld, Active, Shape
    <3>3. TokenIsSound'
      BY DEF Isolation, TokenIsSound, Same
    <3>4. ChecksHold'
      BY DEF Isolation, ChecksHold, Shape, Protected, SplitsOf
    <3>. QED  BY <3>1, <3>2, <3>3, <3>4 DEF Isolation
  <2>3. CASE LockRow(r)
    <3>1. PICK t \in Txns : /\ t \in todo[r] /\ rowLock[t] = NoReq
                            /\ rowLock' = [rowLock EXCEPT ![t] =
                                             IF tx[t].status = "live" THEN r ELSE NoReq]
                            /\ todo' = [todo EXCEPT ![r] = @ \ {t}]
      BY <2>3 DEF LockRow, NextRow
    <3>2. /\ pc[r] = "locking"
          /\ UNCHANGED <<tx, split, pc, arg, seen>>
      BY <2>3 DEF LockRow, data
    <3>3. ParentsLive' /\ NamedRowsExist' /\ TokenIsSound' /\ ChecksHold'
      BY <3>2 DEF Isolation, ParentsLive, NamedRowsExist, Parents, TokenIsSound, Same,
                  ChecksHold, Protected, SplitsOf
    <3>4. todo'[r] = todo[r] \ {t} /\ \A q \in Reqs \ {r} : todo'[q] = todo[q]
      BY <3>1 DEF Shape
    <3>5. /\ rowLock'[t] = IF tx[t].status = "live" THEN r ELSE NoReq
          /\ \A u \in Txns \ {t} : rowLock'[u] = rowLock[u]
      BY <3>1 DEF Shape
    <3>6. todo[r] \subseteq arg[r].txs
      BY <3>2 DEF Isolation, RowsHeld
    <3>7. ASSUME NEW u \in Txns, NEW q \in Reqs, rowLock'[u] = q
          PROVE  Active(q)' /\ u \in arg'[q].txs \ todo'[q]
      <4>1. CASE u = t
        BY <3>1, <3>2, <3>4, <3>5, <3>6, <3>7, <4>1, LedgerAssumption DEF Active
      <4>2. CASE u # t
        BY <3>2, <3>4, <3>5, <3>7, <4>2 DEF Active, Isolation, RowsHeld
      <4>. QED  BY <4>1, <4>2
    <3>8. ASSUME NEW q \in Reqs, Active(q)', NEW u \in arg'[q].txs \ todo'[q],
                 tx'[u].status = "live"
          PROVE  rowLock'[u] = q
      <4>0. u \in Txns
        BY DEF Shape, Args
      <4>1. CASE u \in todo[q]
        <5>1. q = r /\ u = t
          BY <3>4, <3>8, <4>1
        <5>. QED  BY <3>2, <3>5, <3>8, <5>1
      <4>2. CASE u \notin todo[q]
        <5>1. rowLock[u] = q
          BY <3>2, <3>8, <4>2 DEF Active, Isolation, RowsHeld
        <5>2. u # t
          BY <3>1, <5>1, LedgerAssumption
        <5>. QED  BY <3>5, <4>0, <5>1, <5>2
      <4>. QED  BY <4>1, <4>2
    <3>9. \A q \in Reqs :
            todo'[q] \subseteq (IF pc'[q] = "locking" THEN arg'[q].txs ELSE {})
      BY <3>2, <3>4 DEF Isolation, RowsHeld
    <3>10. RowsHeld'
      BY <3>7, <3>8, <3>9 DEF RowsHeld, Active
    <3>. QED  BY <3>3, <3>10 DEF Isolation
  <2>4. CASE Check(r)
    <3>. USE <2>4 DEF Check, HasLocked, data, locks
    <3>1. ParentsLive' /\ NamedRowsExist'
      BY DEF Isolation, ParentsLive, NamedRowsExist, Parents
    <3>2. RowsHeld'
      BY DEF Isolation, RowsHeld, Active, Shape
    <3>3. TokenIsSound'
      BY DEF Isolation, TokenIsSound, Same
    <3>4. Op[r] \in {"put", "delete"} => CanSave(r)
      BY DEF Valid
    <3>5. ASSUME NEW q \in Reqs, pc'[q] = "checked", Op[q] \in {"put", "delete"},
                 NEW t \in arg[q].txs
          PROVE  /\ tx[t].status = "live" /\ tx[t].ver = seen[q].tx[t].ver
                 /\ ~Protected(SplitsOf(t))
      <4>1. CASE q = r
        BY <3>4, <3>5, <4>1 DEF CanSave
      <4>2. CASE q # r
        BY <3>5, <4>2 DEF Isolation, ChecksHold, Shape
      <4>. QED  BY <4>1, <4>2
    <3>6. ChecksHold'
      BY <3>5 DEF ChecksHold, Protected, SplitsOf
    <3>. QED  BY <3>1, <3>2, <3>3, <3>6 DEF Isolation
  <2>5. CASE Commit(r)
    <3>1. End(r)
      BY <2>5 DEF Commit, Create, Put, Delete, ReplaceDescriptions, Recategorize, Move,
                  Toggle, Finalize, FinalizeAdjusted
    <3>. QED  BY <2>5, <3>1, CommitTouches, EndIsolated
  <2>6. CASE Reject(r) \/ Fail(r) \/ FinalizeRefused(r)
    <3>1. End(r) /\ UNCHANGED data
      BY <2>6 DEF Reject, Fail, FinalizeRefused
    <3>2. \A t \in Txns : Untouched(t)
      BY <3>1 DEF Untouched, data
    <3>. QED  BY <3>1, <3>2, EndIsolated
  <2>7. CASE SetLockDate(r)
    <3>. USE <2>7 DEF SetLockDate, data, locks
    <3>1. ParentsLive' /\ NamedRowsExist' /\ TokenIsSound'
      BY DEF Isolation, ParentsLive, NamedRowsExist, Parents, TokenIsSound, Same
    <3>2. RowsHeld'
      BY DEF Isolation, RowsHeld, Active, Shape
    <3>3. ChecksHold'
      BY DEF Isolation, ChecksHold, Shape, Protected, SplitsOf
    <3>. QED  BY <3>1, <3>2, <3>3 DEF Isolation
  <2>. QED  BY <2>1, <2>2, <2>3, <2>4, <2>5, <2>6, <2>7 DEF InTransaction
<1>. QED  BY <1>1, <1>2

\* The inductive invariant.
THEOREM Invariance == Spec => []Inv
<1>1. Init => Inv
  BY ShapeInit, IsolationInit DEF Inv
<1>2. Inv /\ [Next]_vars => Inv'
  BY ShapeStep, IsolationStep DEF Inv
<1>. QED  BY <1>1, <1>2, PTL DEF Spec

\* What locks and checks promise between a request's SELECT ... FOR UPDATE and
\* its COMMIT: nobody else writes what it checked.
THEOREM Isolated == Spec => []Isolation
<1>1. Inv => Isolation
  BY DEF Inv
<1>. QED  BY <1>1, Invariance, PTL

---------------------------------------------------------------------------------

\* A save or a delete replaces exactly the transaction its client loaded
\* (the mandatory original_enter_date token of PUT and DELETE).
THEOREM LostUpdates == Spec => NoLostUpdate
<1>1. Inv /\ [Next]_vars => [SavesWhatWasLoaded]_vars
  <2>1. ASSUME Inv, NEW r \in Reqs, Commits(r), Op[r] \in {"put", "delete"}, NEW t \in arg[r].txs
        PROVE  Same(t, seen[r])
    BY <2>1 DEF Commits, Inv, Isolation, ChecksHold, TokenIsSound
  <2>. QED  BY <2>1 DEF SavesWhatWasLoaded
<1>. QED  BY <1>1, Invariance, PTL DEF Spec, NoLostUpdate

LEMMA CommitKeepsReconciled ==
  ASSUME Inv, NEW r \in Reqs, Commit(r)
  PROVE  KeepsReconciled
<1>. USE DEF Inv
<1>1. SUFFICES ASSUME NEW s \in Splits, split[s].live, split[s].state = "y"
               PROVE  /\ split'[s].live
                      /\ split'[s].acct = split[s].acct
                      /\ split'[s].amt = split[s].amt
                      /\ tx'[Parent[s]].date = tx[Parent[s]].date
  BY DEF KeepsReconciled
<1>. DEFINE p == Parent[s]
<1>2. p \in Txns /\ tx[p].status = "live" /\ tx[p] \in TxRow
  BY <1>1, LedgerAssumption DEF Isolation, ParentsLive, Shape
<1>3. IsSplit(split[s])
  BY DEF Shape
\* A checked save does not name the parent of a reconciled split.
<1>4. ASSUME pc[r] = "checked", Op[r] \in {"put", "delete"} PROVE p \notin arg[r].txs
  BY <1>1, <1>4 DEF Isolation, ChecksHold, Protected, SplitsOf
<1>5. CASE Create(r)
  BY <1>1, <1>2, <1>5 DEF Create, Saved
<1>6. CASE Put(r)
  BY <1>1, <1>2, <1>4, <1>6 DEF Put, Ready, Saved
<1>7. CASE Delete(r)
  BY <1>1, <1>2, <1>4, <1>7 DEF Delete, Ready
<1>8. CASE ReplaceDescriptions(r)
  BY <1>1, <1>2, <1>8 DEF ReplaceDescriptions
<1>9. \A ts : Bumped(ts)[p].date = tx[p].date
  BY <1>2 DEF Bumped, TxRow
<1>10. \A S : Marked(S, "y")[s].live /\ Marked(S, "y")[s].acct = split[s].acct
              /\ Marked(S, "y")[s].amt = split[s].amt
  BY <1>1, <1>3 DEF Marked, IsSplit
<1>11. CASE Recategorize(r) \/ Move(r)
  BY <1>1, <1>9, <1>11 DEF Recategorize, Move, Rebooked
<1>12. CASE Toggle(r)
  <2>1. split' = Marked(arg[r].splits, arg[r].state)
    BY <1>12 DEF Toggle
  <2>2. split'[s].live /\ split'[s].acct = split[s].acct /\ split'[s].amt = split[s].amt
    BY <1>1, <1>3, <2>1 DEF Marked, IsSplit
  <2>. QED  BY <1>9, <1>12, <2>2 DEF Toggle
<1>13. CASE Finalize(r)
  BY <1>9, <1>10, <1>13 DEF Finalize
<1>14. CASE FinalizeAdjusted(r)
  <2>1. PICK s0 \in Splits :
         /\ tx[Parent[s0]].status = "unborn"
         /\ split' = [Marked(arg[r].splits, "y") EXCEPT ![s0] =
                        [live |-> TRUE, acct |-> arg[r].acct,
                         amt |-> Difference(r), state |-> "y"]]
         /\ tx' = [Bumped(arg[r].txs) EXCEPT ![Parent[s0]] =
                     [status |-> "live", date |-> arg[r].date, desc |-> @.desc,
                      ver |-> @.ver + 1]]
    BY <1>14 DEF FinalizeAdjusted
  <2>2. Parent[s0] # p /\ s0 # s
    BY <1>2, <2>1
  <2>3. split'[s] = Marked(arg[r].splits, "y")[s] /\ tx'[p] = Bumped(arg[r].txs)[p]
    BY <1>2, <2>1, <2>2, SMTT(40) DEF Marked, Bumped
  <2>. QED  BY <1>9, <1>10, <2>3
<1>. QED
  BY <1>5, <1>6, <1>7, <1>8, <1>11, <1>12, <1>13, <1>14 DEF Commit

\* A reconciled split keeps its amount, account and date, and exists, until a
\* reconcile route clears the flag.
THEOREM Reconciled == Spec => ReconciledIsFrozen
<1>1. Inv /\ [Next]_vars => [KeepsReconciled]_vars
  <2>. SUFFICES ASSUME Inv, Next PROVE KeepsReconciled \/ UNCHANGED vars
    OBVIOUS
  <2>1. ASSUME UNCHANGED data PROVE KeepsReconciled
    BY <2>1 DEF data, KeepsReconciled
  <2>. PICK r \in Reqs : \/ Loads(r) \/ Begin(r) \/ InTransaction(r) \/ Fail(r)
                         \/ SetLockDate(r)
    BY DEF Next, Handle
  <2>2. CASE Commit(r)
    BY <2>2, CommitKeepsReconciled
  <2>3. CASE ~Commit(r)
    BY <2>1, <2>3, ZenonT(60) DEF InTransaction, Loads, LoadTransaction, LoadBatch, LoadSplits,
          LoadReconciliation, LoadCreate, Load, Begin, LockRow, Check, Reject, Fail,
          FinalizeRefused, SetLockDate
  <2>. QED  BY <2>2, <2>3
<1>. QED  BY <1>1, Invariance, PTL DEF Spec, ReconciledIsFrozen

---------------------------------------------------------------------------------
(* The order of the locks, and the period lock. *)

\* What the steps other than a commit leave alone.
LEMMA OtherSteps ==
  ASSUME Inv, NEW r \in Reqs, ~Commit(r),
         \/ Loads(r) \/ Begin(r) \/ InTransaction(r) \/ Fail(r) \/ SetLockDate(r)
  PROVE  UNCHANGED data
BY DEF InTransaction, Loads, LoadTransaction, LoadBatch, LoadSplits, LoadReconciliation,
       LoadCreate, Load, Begin, LockRow, Check, Reject, Fail, FinalizeRefused,
       SetLockDate, data

\* A Load or an End, whatever the handler.
LEMMA CommitEnds == ASSUME NEW r \in Reqs, Commit(r) PROVE End(r) /\ pc[r] = "checked"
BY SMTT(40) DEF Commit, Create, Put, Delete, ReplaceDescriptions, Recategorize, Move, Toggle,
       Finalize, FinalizeAdjusted, Ready

\* What the loads have in common.
LEMMA LoadsLoad ==
  ASSUME NEW r \in Reqs, Loads(r)
  PROVE  /\ pc[r] = "idle" /\ pc' = [pc EXCEPT ![r] = "loaded"]
         /\ \E a : arg' = [arg EXCEPT ![r] = a]
         /\ UNCHANGED <<data, locks, lockDate, todo, floor>>
BY DEF Loads, LoadTransaction, LoadBatch, LoadSplits, LoadReconciliation, LoadCreate, Load

---------------------------------------------------------------------------------

LEMMA OrderStep == Inv /\ LocksInOrder /\ [Next]_vars => LocksInOrder'
<1>. SUFFICES ASSUME Inv, LocksInOrder, [Next]_vars,
                     NEW q \in Reqs, NEW t \in Txns, rowLock'[t] = q, NEW u \in todo'[q]
              PROVE  t < u
  BY DEF LocksInOrder
<1>. USE DEF Inv
<1>0. CASE UNCHANGED <<rowLock, todo>>
  BY <1>0 DEF LocksInOrder
<1>1. CASE Next
  <2>. PICK r \in Reqs : \/ Loads(r) \/ Begin(r) \/ InTransaction(r) \/ Fail(r)
                         \/ SetLockDate(r)
    BY <1>1 DEF Next, Handle
  <2>1. CASE Begin(r)
    \* Who has yet to begin holds nothing.
    <3>1. rowLock[t] # r
      BY <2>1 DEF Begin, Isolation, RowsHeld, Active
    <3>2. rowLock[t] = q /\ todo'[q] = todo[q]
      BY <2>1, <3>1 DEF Begin, Shape
    <3>. QED  BY <3>2 DEF LocksInOrder
  <2>2. CASE LockRow(r)
    <3>1. PICK v \in Txns : /\ NextRow(r, v)
                            /\ rowLock' = [rowLock EXCEPT ![v] =
                                             IF tx[v].status = "live" THEN r ELSE NoReq]
                            /\ todo' = [todo EXCEPT ![r] = @ \ {v}]
      BY <2>2 DEF LockRow
    <3>2. todo'[q] \subseteq todo[q] /\ todo'[r] = todo[r] \ {v}
      BY <3>1 DEF Shape
    <3>3. CASE t = v
      <4>1. q = r
        BY <3>1, <3>3, LedgerAssumption DEF Shape
      <4>2. v <= u /\ v # u /\ v \in Nat /\ u \in Nat
        BY <3>1, <3>2, <4>1, LedgerAssumption DEF NextRow, Shape
      <4>. QED  BY <3>3, <4>2
    <3>4. CASE t # v
      BY <3>1, <3>2, <3>4 DEF Shape, LocksInOrder
    <3>. QED  BY <3>3, <3>4
  <2>3. CASE End(r)
    <3>1. q # r
      BY <2>3 DEF End, Shape
    <3>2. rowLock[t] = q /\ todo'[q] = todo[q]
      BY <2>3, <3>1, LedgerAssumption DEF End, Shape
    <3>. QED  BY <3>2 DEF LocksInOrder
  <2>4. CASE ~Begin(r) /\ ~LockRow(r) /\ ~End(r)
    BY <1>0, <2>4, CommitEnds, LoadsLoad
       DEF InTransaction, Check, Reject, FinalizeRefused, Fail, SetLockDate, locks
  <2>. QED  BY <2>1, <2>2, <2>3, <2>4
<1>. QED  BY <1>0, <1>1 DEF vars

\* Whoever waits for a row holds only rows before it in guid order, so waiting
\* never comes back to where it started (ORDER BY guid FOR UPDATE).
THEOREM LockOrder == Spec => []LocksInOrder
<1>1. Init => LocksInOrder
  BY DEF Init, LocksInOrder
<1>. QED  BY <1>1, OrderStep, Invariance, PTL DEF Spec

\* An advisory lock is held by a request whose database transaction runs.
AdvisoryHeld == \A a \in Accounts, r \in Reqs : advLock[a] = r => Active(r)

LEMMA AdvisoryStep == Inv /\ AdvisoryHeld /\ [Next]_vars => AdvisoryHeld'
<1>. SUFFICES ASSUME Inv, AdvisoryHeld, [Next]_vars,
                     NEW q \in Reqs, NEW a \in Accounts, advLock'[a] = q
              PROVE  Active(q)'
  BY DEF AdvisoryHeld
<1>. USE DEF Inv
<1>0. CASE UNCHANGED <<advLock, pc>>
  BY <1>0 DEF AdvisoryHeld, Active
<1>1. CASE Next
  <2>. PICK r \in Reqs : \/ Loads(r) \/ Begin(r) \/ InTransaction(r) \/ Fail(r)
                         \/ SetLockDate(r)
    BY <1>1 DEF Next, Handle
  <2>1. CASE Begin(r)
    <3>1. CASE q = r
      BY <2>1, <3>1 DEF Begin, Active, Shape
    <3>2. CASE q # r
      <4>1. advLock[a] = q /\ pc'[q] = pc[q]
        BY <2>1, <3>2 DEF Begin, Shape
      <4>. QED  BY <4>1 DEF AdvisoryHeld, Active
    <3>. QED  BY <3>1, <3>2
  <2>2. CASE End(r)
    <3>1. q # r
      BY <2>2, LedgerAssumption DEF End, Shape
    <3>2. advLock[a] = q /\ pc'[q] = pc[q]
      BY <2>2, <3>1, LedgerAssumption DEF End, Shape
    <3>. QED  BY <3>2 DEF AdvisoryHeld, Active
  <2>3. CASE ~Begin(r) /\ ~End(r)
    <3>1. advLock' = advLock /\ (pc'[q] # pc[q] => pc[q] = "idle" \/ pc'[q] = "checked")
      BY <2>3, CommitEnds, LoadsLoad
         DEF InTransaction, LockRow, Check, Reject, FinalizeRefused, Fail, SetLockDate, locks, Shape
    <3>. QED  BY <3>1 DEF AdvisoryHeld, Active
  <2>. QED  BY <2>1, <2>2, <2>3
<1>. QED  BY <1>0, <1>1 DEF vars

\* The rows after the one that a request waits for.
After(t) == {u \in Txns : t < u}

LEMMA NoCycle == Inv /\ LocksInOrder /\ AdvisoryHeld => NoWaitCycle
<1>. SUFFICES ASSUME Inv, LocksInOrder, AdvisoryHeld,
                     NEW S \in (SUBSET Waiters) \ {{}},
                     \A r \in S : \E q \in S : WaitsFor(r, q)
              PROVE  FALSE
  BY DEF NoWaitCycle
<1>0. S \subseteq Reqs
  BY DEF Waiters
<1>. USE DEF Inv
\* Who is waited for is in its transaction, so it waits for a row itself.
<1>1. ASSUME NEW r \in S, NEW q \in S, WaitsFor(r, q) PROVE pc[q] = "locking"
  <2>1. Active(q)
    <3>1. CASE pc[r] = "locking"
      BY <1>0, <1>1, <3>1 DEF WaitsFor, Isolation, RowsHeld
    <3>2. CASE pc[r] = "loaded"
      <4>1. arg[r].acct \in Accounts
        BY <1>0 DEF Shape, Args
      <4>. QED  BY <1>0, <1>1, <3>2, <4>1 DEF WaitsFor, AdvisoryHeld
    <3>. QED  BY <1>1, <3>1, <3>2 DEF WaitsFor
  <2>2. PICK p \in S : WaitsFor(q, p)
    OBVIOUS
  <2>. QED  BY <2>1, <2>2 DEF WaitsFor, Active
<1>. DEFINE Waited == {t \in Txns : \E r, q \in S : /\ pc[r] = "locking"
                                                    /\ NextRow(r, t) /\ rowLock[t] = q}
            Rest == {After(t) : t \in Waited}
<1>2. \A t \in Waited : \E u \in Waited : t < u
  <2>. SUFFICES ASSUME NEW t \in Waited PROVE \E u \in Waited : t < u
    OBVIOUS
  <2>1. PICK r, q \in S : pc[r] = "locking" /\ NextRow(r, t) /\ rowLock[t] = q
    OBVIOUS
  <2>2. WaitsFor(r, q)
    BY <2>1 DEF WaitsFor
  <2>3. pc[q] = "locking"
    BY <1>1, <2>2
  <2>4. PICK p \in S : WaitsFor(q, p)
    OBVIOUS
  <2>5. PICK u \in Txns : NextRow(q, u) /\ rowLock[u] = p
    BY <2>3, <2>4 DEF WaitsFor
  <2>6. t < u
    BY <1>0, <2>1, <2>5 DEF NextRow, LocksInOrder
  <2>. QED  BY <2>3, <2>5, <2>6
<1>3. Waited # {}
  <2>0. PICK r \in S : TRUE
    OBVIOUS
  <2>1. PICK q \in S : WaitsFor(r, q)
    OBVIOUS
  <2>2. PICK p \in S : WaitsFor(q, p)
    OBVIOUS
  <2>3. pc[q] = "locking"
    BY <1>1, <2>1
  <2>. QED  BY <2>2, <2>3 DEF WaitsFor
\* Rows are finitely many, so one of those waited for is the last.
<1>4. Rest \subseteq FiniteSubsetsOf(Txns) /\ Rest # {}
  <2>1. \A t \in Waited : After(t) \in SUBSET Txns
    BY DEF After
  <2>2. \A t \in Waited : IsFiniteSet(After(t))
    BY <2>1, FiniteAssumption, FS_Subset
  <2>. QED  BY <1>3, <2>1, <2>2 DEF FiniteSubsetsOf
<1>5. PICK A \in Rest : \A B \in Rest : ~(<<B, A>> \in StrictSubsetOrdering(Txns))
  <2>. HIDE DEF Rest
  <2>1. IsWellFoundedOn(StrictSubsetOrdering(Txns), FiniteSubsetsOf(Txns))
    BY FS_StrictSubsetOrderingWellFounded
  <2>. QED  BY <1>4, <2>1, WFMin
<1>6. PICK t \in Waited : A = After(t)
  OBVIOUS
<1>7. PICK u \in Waited : t < u
  BY <1>2
<1>8. After(u) \subseteq After(t) /\ u \in After(t) /\ u \notin After(u)
  BY <1>7, LedgerAssumption DEF After
<1>9. <<After(u), After(t)>> \in StrictSubsetOrdering(Txns)
  BY <1>8 DEF StrictSubsetOrdering, After
<1>. QED  BY <1>5, <1>6, <1>9

\* Deadlock freedom of the row and advisory locks: no requests, however many,
\* wait for one another (the ABBA deadlocks that the toggles and the bulk edits
\* had with saves before they locked in guid order).
THEOREM NoDeadlock == Spec => []NoWaitCycle
<1>1. Init => AdvisoryHeld
  BY LedgerAssumption DEF Init, AdvisoryHeld
<1>. QED  BY <1>1, AdvisoryStep, NoCycle, LockOrder, Invariance, PTL DEF Spec

---------------------------------------------------------------------------------

LEMMA DatesStep == Inv /\ DatesChecked /\ [Next]_vars => DatesChecked'
<1>. SUFFICES ASSUME Inv, DatesChecked, [Next]_vars, Shape', NEW q \in Reqs
              PROVE  /\ Active(q)' => floor'[q] <= lockDate'
                     /\ pc'[q] = "checked" /\ Amending(q) =>
                          /\ Op[q] # "create" =>
                               \A t \in arg'[q].txs :
                                 tx'[t].status = "live" => tx'[t].date > floor'[q]
                          /\ Op[q] \in {"create", "put"} => arg'[q].date > floor'[q]
  BY ShapeStep DEF DatesChecked, Active, Inv
<1>. USE DEF Inv
\* Nothing of q's changes, and every live row of q's keeps its date.
<1>0. ASSUME pc'[q] = pc[q], arg'[q] = arg[q], floor'[q] = floor[q], lockDate' = lockDate,
             \A t \in arg[q].txs : pc[q] = "checked" /\ tx'[t].status = "live"
                                   => tx'[t] = tx[t]
      PROVE  /\ Active(q)' => floor'[q] <= lockDate'
             /\ pc'[q] = "checked" /\ Amending(q) =>
                  /\ Op[q] # "create" =>
                       \A t \in arg'[q].txs :
                         tx'[t].status = "live" => tx'[t].date > floor'[q]
                  /\ Op[q] \in {"create", "put"} => arg'[q].date > floor'[q]
  BY <1>0 DEF DatesChecked, Active
<1>1. CASE UNCHANGED vars
  BY <1>0, <1>1 DEF vars
<1>2. CASE Next
  <2>. PICK r \in Reqs : \/ Loads(r) \/ Begin(r) \/ InTransaction(r) \/ Fail(r)
                         \/ SetLockDate(r)
    BY <1>2 DEF Next, Handle
  <2>1. CASE Loads(r)
    <3>1. CASE q = r
      BY <2>1, <3>1, LoadsLoad DEF Active, Shape
    <3>2. CASE q # r
      BY <1>0, <2>1, <3>2, LoadsLoad DEF Shape, data
    <3>. QED  BY <3>1, <3>2
  <2>2. CASE Begin(r)
    <3>1. CASE q = r
      BY <2>2, <3>1, LedgerAssumption DEF Begin, Active, Shape
    <3>2. CASE q # r
      BY <1>0, <2>2, <3>2 DEF Begin, Shape, data
    <3>. QED  BY <3>1, <3>2
  <2>3. CASE LockRow(r)
    BY <1>0, <2>3 DEF LockRow, data
  <2>4. CASE Check(r)
    <3>1. CASE q # r
      BY <1>0, <2>4, <3>1 DEF Check, Shape, data
    <3>2. CASE q = r
      <4>. USE <2>4, <3>2 DEF Check
      <4>1. /\ pc[q] = "locking" /\ floor'[q] = floor[q] /\ lockDate' = lockDate
            /\ arg' = arg /\ tx' = tx
        BY DEF HasLocked, data
      <4>2. /\ floor[q] <= lockDate /\ floor[q] \in Nat /\ lockDate \in Nat
            /\ arg[q].date \in Nat /\ \A t \in Txns : tx[t].date \in Nat
            /\ arg[q].txs \subseteq Txns
        BY <4>1, LedgerAssumption DEF DatesChecked, Active, Shape, Args, TxRow
      <4>3. ASSUME Op[q] \in {"put", "delete"}, NEW t \in arg[q].txs
            PROVE  tx[t].date > lockDate
        BY <4>3 DEF Valid, CanSave, Open
      <4>4. ASSUME Op[q] \in {"replace", "recategorize", "move"}, NEW t \in arg[q].txs,
                   tx[t].status = "live"
            PROVE  tx[t].date > lockDate
        <5>1. Open(FreshDates(q))
          BY <4>4 DEF Valid, CanMove, CanEditBatch
        <5>. QED  BY <4>2, <4>4, <5>1 DEF Open, FreshDates, LiveTxns
      <4>5. ASSUME Op[q] \in {"create", "put"} PROVE arg[q].date > lockDate
        BY <4>5 DEF Valid, CanSave, Open
      <4>. QED  BY <4>1, <4>2, <4>3, <4>4, <4>5 DEF Amending, Active
    <3>. QED  BY <3>1, <3>2
  <2>5. CASE End(r)
    <3>1. CASE q = r
      BY <2>5, <3>1 DEF End, Active, Shape
    <3>2. CASE q # r
      <4>1. /\ pc'[q] = pc[q] /\ arg'[q] = arg[q] /\ floor'[q] = floor[q]
            /\ lockDate' = lockDate
        BY <2>5, <3>2 DEF End, Shape
      <4>2. ASSUME NEW t \in arg[q].txs, pc[q] = "checked", tx'[t].status = "live"
            PROVE  tx'[t] = tx[t]
        <5>1. t \in Txns /\ tx[t].status # "unborn" /\ tx[t] \in TxRow
          BY DEF Isolation, NamedRowsExist, Shape, Args
        <5>2. CASE Commit(r)
          <6>1. Untouched(t) \/ Touched(r, t)
            BY <5>1, <5>2, CommitTouches
          <6>2. CASE Touched(r, t)
            <7>1. tx[t].status = "live"
              BY <4>2, <5>1, <6>2 DEF Touched, TxRow, Statuses
            <7>2. rowLock[t] = q
              BY <4>2, <7>1, Holds
            <7>. QED  BY <3>2, <6>2, <7>1, <7>2 DEF Touched
          <6>. QED  BY <6>1, <6>2 DEF Untouched
        <5>3. CASE ~Commit(r)
          BY <5>3, OtherSteps DEF data
        <5>. QED  BY <5>2, <5>3
      <4>. QED  BY <1>0, <4>1, <4>2
    <3>. QED  BY <3>1, <3>2
  <2>6. CASE SetLockDate(r)
    <3>1. PICK d \in Dates \cup {0} :
            /\ lockDate' = d
            /\ floor' = [p \in Reqs |-> IF pc[p] \in {"locking", "checked"} /\ d < floor[p]
                                        THEN d ELSE floor[p]]
      BY <2>6 DEF SetLockDate
    <3>2. /\ UNCHANGED <<tx, arg>>
          /\ Active(q)' => Active(q) /\ pc'[q] = pc[q]
      BY <2>6 DEF SetLockDate, data, Active, Shape
    <3>3. /\ floor'[q] = IF pc[q] \in {"locking", "checked"} /\ d < floor[q]
                         THEN d ELSE floor[q]
          /\ floor[q] \in Nat /\ d \in Nat /\ floor'[q] \in Nat
      <4>1. floor[q] \in Dates \cup {0} /\ floor'[q] \in Dates \cup {0}
        BY DEF Shape
      <4>2. Dates \cup {0} \subseteq Nat
        BY LedgerAssumption
      <4>. QED  BY <3>1, <4>1, <4>2
    <3>4. /\ arg[q].date \in Nat /\ \A t \in Txns : tx[t].date \in Nat
          /\ arg[q].txs \subseteq Txns
      BY LedgerAssumption DEF Shape, Args, TxRow
    <3>5. floor'[q] <= floor[q] /\ (Active(q) => floor'[q] <= d)
      BY <3>3 DEF Active
    <3>6. pc'[q] = "checked" => pc[q] = "checked"
      BY <3>2 DEF Active
    <3>7. ASSUME pc[q] = "checked", Amending(q)
          PROVE  /\ Op[q] # "create" =>
                      \A t \in arg[q].txs : tx[t].status = "live" => tx[t].date > floor'[q]
                 /\ Op[q] \in {"create", "put"} => arg[q].date > floor'[q]
      BY <3>3, <3>4, <3>5, <3>7 DEF DatesChecked
    <3>. QED  BY <3>1, <3>2, <3>5, <3>6, <3>7
  <2>7. Commit(r) \/ Reject(r) \/ Fail(r) \/ FinalizeRefused(r) => End(r)
    BY CommitEnds DEF Reject, Fail, FinalizeRefused
  <2>. QED  BY <2>1, <2>2, <2>3, <2>4, <2>5, <2>6, <2>7 DEF InTransaction
<1>. QED  BY <1>1, <1>2

LEMMA AmendsOutsideStep ==
  ASSUME Inv, DatesChecked, [Next]_vars
  PROVE  AmendsOutside
<1>. SUFFICES ASSUME NEW r \in Reqs, Amends(r), NEW t \in Amended
              PROVE  OutsidePeriod(t, floor[r])
  BY DEF AmendsOutside
<1>. USE DEF Inv
<1>1. /\ pc[r] = "checked" /\ pc'[r] = "done" /\ data' # data /\ Amending(r)
      /\ t \in Txns /\ tx'[t] # tx[t]
  BY DEF Amends, Commits, Amended
\* The step is r's commit.
<1>2. Commit(r)
  <2>1. ~UNCHANGED vars
    BY <1>1 DEF vars
  <2>2. PICK q \in Reqs : \/ Loads(q) \/ Begin(q) \/ InTransaction(q) \/ Fail(q)
                          \/ SetLockDate(q)
    BY <2>1 DEF Next, Handle
  <2>3. Commit(q)
    BY <1>1, <2>2, OtherSteps
  <2>4. q = r
    BY <1>1, <2>3, CommitEnds DEF End, Shape
  <2>. QED  BY <2>3, <2>4
<1>3. /\ Op[r] # "create" /\ t \in arg[r].txs /\ tx[t].status = "live" => tx[t].date > floor[r]
      /\ Op[r] \in {"create", "put"} => arg[r].date > floor[r]
  BY <1>1 DEF DatesChecked
<1>4. tx[t] \in TxRow
  BY <1>1 DEF Shape
<1>5. CASE Create(r)
  <2>1. tx[t].status = "unborn" /\ tx'[t].date = arg[r].date
    BY <1>1, <1>5 DEF Create, Shape
  <2>. QED  BY <1>3, <1>5, <2>1 DEF OutsidePeriod, Create, Ready
<1>6. CASE Put(r)
  <2>1. t \in arg[r].txs /\ tx'[t].date = arg[r].date
    BY <1>1, <1>6 DEF Put, Shape
  <2>. QED  BY <1>3, <1>6, <2>1 DEF OutsidePeriod, Put, Ready
<1>7. CASE Delete(r)
  <2>1. t \in arg[r].txs /\ tx'[t].status = "deleted"
    BY <1>1, <1>4, <1>7 DEF Delete, TxRow
  <2>. QED  BY <1>3, <1>7, <2>1 DEF OutsidePeriod, Delete, Ready
<1>8. CASE ReplaceDescriptions(r)
  <2>1. t \in arg[r].txs /\ tx'[t].status = tx[t].status /\ tx'[t].date = tx[t].date
    BY <1>1, <1>8 DEF ReplaceDescriptions, DescChanges
  <2>. QED  BY <1>3, <1>8, <2>1 DEF OutsidePeriod, ReplaceDescriptions, Ready
<1>9. \A ts : tx' = Bumped(ts) =>
        t \in ts /\ tx'[t].status = tx[t].status /\ tx'[t].date = tx[t].date
  BY <1>1, <1>4 DEF Bumped, TxRow
<1>10. CASE Recategorize(r)
  <2>1. Parents(Moves(r)) \subseteq arg[r].txs
    BY DEF Parents, Moves
  <2>. QED  BY <1>3, <1>9, <1>10, <2>1 DEF OutsidePeriod, Recategorize, Ready
<1>11. CASE Move(r)
  BY <1>3, <1>9, <1>11 DEF OutsidePeriod, Move, Ready
<1>12. CASE Toggle(r) \/ Finalize(r) \/ FinalizeAdjusted(r)
  BY <1>1, <1>12 DEF Toggle, Finalize, FinalizeAdjusted, Ready, Amending
<1>. QED
  BY <1>2, <1>5, <1>6, <1>7, <1>8, <1>10, <1>11, <1>12 DEF Commit

\* Nothing dated in a period that is closed for the whole of a request's
\* database transaction is created, changed or deleted by it (assertNotLocked
\* with bypassCache, inside the transaction).
THEOREM ClosedPeriods == Spec => ClosedPeriodIsKept
<1>1. Init => DatesChecked
  BY DEF Init, DatesChecked, Active
<1>2. Inv /\ DatesChecked /\ [Next]_vars => [AmendsOutside]_vars
  BY AmendsOutsideStep
<1>. QED  BY <1>1, <1>2, DatesStep, Invariance, PTL DEF Spec, ClosedPeriodIsKept

---------------------------------------------------------------------------------
(* Amounts, and what a finalize adds up.                                     *)

LEMMA NullTypes ==
  /\ NoSplit \in SplitRow
  /\ NoView \in [tx : [Txns -> TxRow], split : [Splits -> SplitRow]]
  /\ NoSums \in [ending : Int, balance : Int]
BY Nulls DEF IsSplit, NoSplit, SplitRow, NoView, NoSums

\* The sum of the reconciled splits of account a in the book f.
Tally(f, a) ==
  SumFunctionOnSet([s \in Splits |-> f[s].amt],
                   {s \in Splits : f[s].live /\ f[s].acct = a /\ f[s].state = "y"})
Counts(f, a, s) == f[s].live /\ f[s].acct = a /\ f[s].state = "y"

LEMMA TallyIs == \A a : ReconciledSum(a) = Tally(split, a) /\ ReconciledSum(a)' = Tally(split', a)
BY DEF ReconciledSum, Tally, Amount

LEMMA AmountSums ==
  ASSUME NEW f \in [Splits -> SplitRow], NEW S \in SUBSET Splits
  PROVE  /\ IsFiniteSet(S)
         /\ SumFunctionOnSet([s \in Splits |-> f[s].amt], S) \in Int
<1>1. IsFiniteSet(S)
  BY FiniteAssumption, FS_Subset
<1>. DEFINE amount == [s \in Splits |-> f[s].amt]
<1>2. \A s \in S : amount[s] \in Int
  BY DEF SplitRow
<1>. HIDE DEF amount
<1>3. SumFunctionOnSet(amount, S) \in Int
  BY <1>1, <1>2, SumType
<1>. QED  BY <1>1, <1>3 DEF amount

LEMMA TallyType ==
  ASSUME NEW f \in [Splits -> SplitRow], NEW a
  PROVE  Tally(f, a) \in Int
BY AmountSums DEF Tally

\* A tally changes with the splits that count, and with nothing else.
LEMMA TallySame ==
  ASSUME NEW f \in [Splits -> SplitRow], NEW g \in [Splits -> SplitRow], NEW a,
         \A s \in Splits : /\ Counts(f, a, s) <=> Counts(g, a, s)
                           /\ Counts(f, a, s) => g[s].amt = f[s].amt
  PROVE  Tally(g, a) = Tally(f, a)
<1>. DEFINE D == {s \in Splits : f[s].live /\ f[s].acct = a /\ f[s].state = "y"}
            E == {s \in Splits : g[s].live /\ g[s].acct = a /\ g[s].state = "y"}
            af == [s \in Splits |-> f[s].amt]
            ag == [s \in Splits |-> g[s].amt]
<1>1. E = D
  BY DEF Counts
<1>2. \A s \in D : ag[s] = af[s]
  BY DEF Counts
<1>3. IsFiniteSet(D)
  BY AmountSums
<1>4. Tally(f, a) = SumFunctionOnSet(af, D) /\ Tally(g, a) = SumFunctionOnSet(ag, E)
  BY DEF Tally
<1>. HIDE DEF D, E, af, ag
<1>5. SumFunctionOnSet(ag, D) = SumFunctionOnSet(af, D)
  BY <1>2, <1>3, SumEqual
<1>. QED  BY <1>1, <1>4, <1>5

\* When the splits of S begin to count their amounts are added.
LEMMA TallyAdds ==
  ASSUME NEW f \in [Splits -> SplitRow], NEW g \in [Splits -> SplitRow], NEW a,
         NEW S \in SUBSET Splits,
         \A s \in S : ~Counts(f, a, s) /\ Counts(g, a, s),
         \A s \in Splits \ S : Counts(g, a, s) <=> Counts(f, a, s),
         \A s \in Splits : Counts(f, a, s) => g[s].amt = f[s].amt
  PROVE  Tally(g, a) = Tally(f, a) + SumFunctionOnSet([s \in Splits |-> g[s].amt], S)
<1>. DEFINE D == {s \in Splits : f[s].live /\ f[s].acct = a /\ f[s].state = "y"}
            E == {s \in Splits : g[s].live /\ g[s].acct = a /\ g[s].state = "y"}
            af == [s \in Splits |-> f[s].amt]
            ag == [s \in Splits |-> g[s].amt]
<1>1. E = D \cup S /\ D \cap S = {}
  BY DEF Counts
<1>2. \A s \in D : ag[s] = af[s]
  BY DEF Counts
<1>3. IsFiniteSet(D) /\ IsFiniteSet(S)
  BY AmountSums
<1>4. Tally(f, a) = SumFunctionOnSet(af, D) /\ Tally(g, a) = SumFunctionOnSet(ag, E)
  BY DEF Tally
<1>5. \A s \in D \cup S : ag[s] \in Int
  BY DEF SplitRow
<1>. HIDE DEF D, E, af
<1>6. SumFunctionOnSet(ag, D) = SumFunctionOnSet(af, D)
  <2>. HIDE DEF ag
  <2>. QED  BY <1>2, <1>3, SumEqual
<1>7. SumFunctionOnSet(ag, D \cup S) = SumFunctionOnSet(ag, D) + SumFunctionOnSet(ag, S)
  <2>. HIDE DEF ag
  <2>. QED  BY <1>1, <1>3, <1>5, SumUnion
<1>8. SumFunctionOnSet(ag, E) = SumFunctionOnSet(ag, D \cup S)
  BY <1>1, Zenon
<1>. QED  BY <1>4, <1>6, <1>7, <1>8

LEMMA RewrittenTypes ==
  ASSUME TypeOK, NEW S, NEW a \in Accounts, NEW st \in States
  PROVE  /\ Marked(S, st) \in [Splits -> SplitRow]
         /\ Rebooked(S, a) \in [Splits -> SplitRow]
BY DEF TypeOK, Marked, Rebooked, SplitRow

LEMMA SavedType ==
  ASSUME TypeOK, NEW t \in Txns, NEW new \in NewSplits(t)
  PROVE  Saved(t, new) \in [Splits -> SplitRow]
<1>1. ClientSplits \subseteq SplitRow
  BY NullTypes, LedgerAssumption DEF ClientSplits, SplitRow, States
<1>2. \A s \in Splits : Parent[s] = t => new[s] \in SplitRow
  BY <1>1 DEF NewSplits
<1>. QED  BY <1>2 DEF TypeOK, Saved

LEMMA ViewType ==
  ASSUME TypeOK, NEW ts
  PROVE  View(ts) \in [tx : [Txns -> TxRow], split : [Splits -> SplitRow]]
BY Nulls, NullTypes DEF View, TypeOK, Shape

LEMMA LoadType ==
  ASSUME TypeOK, Shape', NEW r \in Reqs, NEW a, NEW v, NEW e \in Int, Load(r, a, v, e),
         v \in [tx : [Txns -> TxRow], split : [Splits -> SplitRow]]
  PROVE  TypeOK'
<1>1. [NoSums EXCEPT !.ending = e] \in [ending : Int, balance : Int]
  BY DEF NoSums
<1>. QED  BY <1>1 DEF TypeOK, Load, data

LEMMA TypesKept == TypeOK /\ [Next]_vars => TypeOK'
<1>. SUFFICES ASSUME TypeOK, [Next]_vars, Shape' PROVE TypeOK'
  BY ShapeStep DEF TypeOK
<1>1. CASE UNCHANGED vars
  BY <1>1 DEF vars, TypeOK
<1>2. CASE Next
  <2>. PICK r \in Reqs : \/ Loads(r) \/ Begin(r) \/ InTransaction(r) \/ Fail(r)
                         \/ SetLockDate(r)
    BY <1>2 DEF Next, Handle
  <2>0. arg[r] \in Args
    BY DEF TypeOK, Shape
  <2>1. CASE Loads(r)
    <3>1. CASE LoadTransaction(r) \/ LoadBatch(r) \/ LoadSplits(r) \/ LoadCreate(r)
      <4>1. \E a, v : /\ Load(r, a, v, 0)
                      /\ v = NoView \/ \E ts : v = View(ts)
        BY <3>1 DEF LoadTransaction, LoadBatch, LoadSplits, LoadCreate
      <4>. QED  BY <4>1, NullTypes, ViewType, LoadType
    <3>2. CASE LoadReconciliation(r)
      <4>1. PICK a \in Accounts, d \in Dates, delta \in Deltas, adj \in BOOLEAN,
                 S \in SUBSET Splits :
              Load(r, [NoArg EXCEPT !.txs = Parents(S), !.splits = S, !.acct = a,
                                    !.date = d, !.adjust = adj],
                   NoView, ReconciledSum(a) + SumFunctionOnSet(Amount, S) + delta)
        BY <3>2 DEF LoadReconciliation
      <4>2. ReconciledSum(a) \in Int /\ SumFunctionOnSet(Amount, S) \in Int /\ delta \in Int
        BY TallyIs, TallyType, AmountSums, LedgerAssumption DEF TypeOK, Amount
      <4>3. ReconciledSum(a) + SumFunctionOnSet(Amount, S) + delta \in Int
        BY <4>2
      <4>. QED  BY <4>1, <4>3, NullTypes, LoadType
    <3>. QED  BY <2>1, <3>1, <3>2 DEF Loads
  <2>2. CASE Begin(r) \/ LockRow(r) \/ SetLockDate(r)
    BY <2>2 DEF Begin, LockRow, SetLockDate, TypeOK, data
  <2>3. CASE Check(r)
    <3>1. ReconciledSum(arg[r].acct) \in Int
      BY TallyIs, TallyType DEF TypeOK
    <3>. QED  BY <2>3, <3>1 DEF Check, TypeOK, data
  <2>4. CASE Reject(r) \/ Fail(r) \/ FinalizeRefused(r)
    <3>1. /\ seen' = [seen EXCEPT ![r] = NoView] /\ sums' = [sums EXCEPT ![r] = NoSums]
          /\ split' = split
      BY <2>4 DEF Reject, Fail, FinalizeRefused, End, data
    <3>. QED  BY <3>1, NullTypes DEF TypeOK
  <2>5. CASE Commit(r)
    <3>1. seen' = [seen EXCEPT ![r] = NoView] /\ sums' = [sums EXCEPT ![r] = NoSums]
      BY <2>5, CommitEnds DEF End
    <3>2. SUFFICES split' \in [Splits -> SplitRow]
      BY <3>1, NullTypes DEF TypeOK
    <3>3. CASE Create(r) \/ Put(r)
      <4>1. PICK t \in Txns : \E new \in NewSplits(t) : split' = Saved(t, new)
        BY <2>0, <3>3 DEF Create, Put, Args
      <4>. QED  BY <4>1, SavedType
    <3>4. CASE Delete(r) \/ ReplaceDescriptions(r)
      BY <3>4, NullTypes DEF Delete, ReplaceDescriptions, TypeOK
    <3>5. CASE Recategorize(r) \/ Move(r) \/ Toggle(r) \/ Finalize(r)
      BY <2>0, <3>5, RewrittenTypes DEF Recategorize, Move, Toggle, Finalize, Args, States
    <3>6. CASE FinalizeAdjusted(r)
      <4>1. PICK s \in Splits :
              split' = [Marked(arg[r].splits, "y") EXCEPT ![s] =
                          [live |-> TRUE, acct |-> arg[r].acct,
                           amt |-> Difference(r), state |-> "y"]]
        BY <3>6 DEF FinalizeAdjusted
      <4>2. Difference(r) \in Int
        <5>1. SumFunctionOnSet(Amount, arg[r].splits) \in Int
          BY <2>0, AmountSums DEF TypeOK, Amount, Args
        <5>. QED  BY <5>1 DEF Difference, TypeOK
      <4>3. Marked(arg[r].splits, "y") \in [Splits -> SplitRow] /\ "y" \in States
        BY <2>0, RewrittenTypes DEF Args, States
      <4>. QED  BY <2>0, <4>1, <4>2, <4>3 DEF SplitRow, Args
    <3>. QED  BY <2>5, <3>3, <3>4, <3>5, <3>6 DEF Commit
  <2>. QED  BY <2>1, <2>2, <2>3, <2>4, <2>5 DEF InTransaction
<1>. QED  BY <1>1, <1>2

\* Every amount stays an amount: splits, what a request has seen, and the sums
\* that a finalize is given and reads.
THEOREM AmountTyping == Spec => []TypeOK
<1>1. Init => TypeOK
  BY ShapeInit, NullTypes, LedgerAssumption DEF Init, TypeOK
<1>. QED  BY <1>1, TypesKept, PTL DEF Spec

---------------------------------------------------------------------------------

\* The requests that set a split's reconcile state outright are the toggles and
\* the saves that bring a reconciled split; without them only a finalize
\* reconciles.
FinalizesAlone ==
    \A r \in Reqs : /\ Op[r] \notin {"toggle", "toggleMany"}
                    /\ Op[r] \in {"create", "put"} => PutStates \subseteq {"n"}

Finalizing(r, pcs) == Op[r] = "finalize" /\ pc[r] \in pcs

\* A finalize in its transaction has the account's advisory lock; what it has
\* checked of the splits it holds is so, and the balance it read is the
\* account's.
Reckoned ==
    \A r \in Reqs :
      /\ Finalizing(r, {"locking", "checked"}) => advLock[arg[r].acct] = r
      /\ Finalizing(r, {"checked"}) =>
           /\ \A s \in arg[r].splits : /\ split[s].live /\ split[s].acct = arg[r].acct
                                       /\ split[s].state # "y"
           /\ sums[r].balance = Tally(split, arg[r].acct)

\* Another's commit leaves the tally of an account whose advisory lock it does
\* not have.
LEMMA CommitKeepsTally ==
  ASSUME FinalizesAlone, Inv, TypeOK, TypeOK', Reckoned, NEW r \in Reqs, Commit(r),
         NEW a \in Accounts, advLock[a] # r
  PROVE  Tally(split', a) = Tally(split, a)
<1>. SUFFICES ASSUME NEW s \in Splits
              PROVE  /\ Counts(split, a, s) <=> Counts(split', a, s)
                     /\ Counts(split, a, s) => split'[s].amt = split[s].amt
  BY TallySame DEF TypeOK
<1>. USE DEF Inv
<1>1. CASE split'[s] = split[s]
  BY <1>1 DEF Counts
<1>. SUFFICES ASSUME split'[s] # split[s]
              PROVE  /\ Counts(split, a, s) <=> Counts(split', a, s)
                     /\ Counts(split, a, s) => split'[s].amt = split[s].amt
  BY <1>1
<1>2. /\ pc[r] = "checked" /\ Op[r] \notin {"toggle", "toggleMany"}
      /\ Op[r] \in {"create", "put"} => PutStates \subseteq {"n"}
      /\ split[s] \in SplitRow /\ Parent[s] \in Txns /\ arg[r] \in Args
  BY CommitEnds, LedgerAssumption DEF FinalizesAlone, TypeOK, Shape
<1>3. ASSUME Op[r] \in {"create", "put"}, NEW t, NEW new \in NewSplits(t), Parent[s] = t
      PROVE  ~Counts(new, a, s)
  <2>1. new[s] \in ClientSplits
    BY <1>3 DEF NewSplits
  <2>2. \A c \in ClientSplits : c.live => c.state \in PutStates
    BY Nulls DEF ClientSplits
  <2>. QED  BY <1>2, <1>3, <2>1, <2>2 DEF Counts
<1>4. CASE Create(r)
  <2>1. PICK t \in Txns : \E new \in NewSplits(t) :
          tx[t].status = "unborn" /\ split' = Saved(t, new)
    BY <1>4 DEF Create
  <2>2. PICK new \in NewSplits(t) : tx[t].status = "unborn" /\ split' = Saved(t, new)
    BY <2>1
  <2>3. Parent[s] = t /\ split'[s] = new[s]
    BY <2>2 DEF Saved
  <2>4. ~split[s].live
    BY <2>2, <2>3 DEF Isolation, ParentsLive
  <2>. QED  BY <1>3, <1>4, <2>3, <2>4 DEF Counts, Create, Ready
<1>5. CASE Put(r)
  <2>1. PICK t \in arg[r].txs : \E new \in NewSplits(t) : split' = Saved(t, new)
    BY <1>5 DEF Put
  <2>2. PICK new \in NewSplits(t) : split' = Saved(t, new)
    BY <2>1
  <2>3. Parent[s] = t /\ split'[s] = new[s]
    BY <2>2 DEF Saved
  <2>4. ~(split[s].live /\ split[s].state = "y")
    BY <1>5, <2>3 DEF Put, Ready, Isolation, ChecksHold, Protected, SplitsOf
  <2>. QED  BY <1>3, <1>5, <2>3, <2>4 DEF Counts, Put, Ready
<1>6. CASE Delete(r)
  <2>1. Parent[s] \in arg[r].txs /\ split'[s] = NoSplit
    BY <1>6 DEF Delete
  <2>2. ~(split[s].live /\ split[s].state = "y")
    BY <1>6, <2>1 DEF Delete, Ready, Isolation, ChecksHold, Protected, SplitsOf
  <2>. QED  BY <2>1, <2>2, Nulls DEF Counts
<1>7. CASE ReplaceDescriptions(r)
  BY <1>7 DEF ReplaceDescriptions
<1>8. CASE Recategorize(r) \/ Move(r)
  <2>1. split[s].state # "y" /\ split'[s].state = split[s].state
    BY <1>2, <1>8 DEF Recategorize, Move, Rebooked, SplitRow
  <2>. QED  BY <2>1 DEF Counts
\* A finalize of another account.
<1>9. ASSUME Op[r] = "finalize" PROVE arg[r].acct # a
  BY <1>2, <1>9 DEF Reckoned, Finalizing
<1>10. ASSUME Op[r] = "finalize", split'[s] = Marked(arg[r].splits, "y")[s]
       PROVE  ~Counts(split, a, s) /\ ~Counts(split', a, s)
  <2>1. s \in arg[r].splits /\ split'[s] = [split[s] EXCEPT !.state = "y"]
    BY <1>10 DEF Marked
  <2>2. split[s].acct # a /\ split'[s].acct = split[s].acct
    BY <1>2, <1>9, <1>10, <2>1 DEF Reckoned, Finalizing, SplitRow
  <2>. QED  BY <2>2 DEF Counts
<1>11. CASE Finalize(r)
  BY <1>10, <1>11 DEF Finalize, Ready
<1>12. CASE FinalizeAdjusted(r)
  <2>1. PICK s0 \in Splits :
          /\ tx[Parent[s0]].status = "unborn"
          /\ split' = [Marked(arg[r].splits, "y") EXCEPT ![s0] =
                         [live |-> TRUE, acct |-> arg[r].acct,
                          amt |-> Difference(r), state |-> "y"]]
    BY <1>12 DEF FinalizeAdjusted
  <2>2. Op[r] = "finalize"
    BY <1>12 DEF FinalizeAdjusted, Ready
  <2>3. CASE s = s0
    <3>1. ~split[s].live
      BY <2>1, <2>3 DEF Isolation, ParentsLive
    <3>2. split'[s].acct = arg[r].acct
      BY <2>1, <2>3 DEF Marked
    <3>. QED  BY <1>9, <2>2, <3>1, <3>2 DEF Counts
  <2>4. CASE s # s0
    <3>1. split'[s] = Marked(arg[r].splits, "y")[s]
      BY <2>1, <2>4 DEF Marked
    <3>. QED  BY <1>10, <2>2, <3>1
  <2>. QED  BY <2>3, <2>4
<1>13. CASE Toggle(r)
  BY <1>2, <1>13 DEF Toggle, Ready
<1>. QED
  BY <1>4, <1>5, <1>6, <1>7, <1>8, <1>11, <1>12, <1>13 DEF Commit

\* What keeps all that a finalize knows.
LEMMA ReckonedKept ==
  ASSUME Reckoned, NEW q \in Reqs, pc'[q] = pc[q], arg'[q] = arg[q], sums'[q] = sums[q],
         advLock[arg[q].acct] = q => advLock'[arg[q].acct] = q,
         Finalizing(q, {"checked"}) =>
           /\ \A s \in arg[q].splits : split'[s] = split[s]
           /\ Tally(split', arg[q].acct) = Tally(split, arg[q].acct)
  PROVE  /\ Finalizing(q, {"locking", "checked"})' => advLock'[arg'[q].acct] = q
         /\ Finalizing(q, {"checked"})' =>
              /\ \A s \in arg'[q].splits : /\ split'[s].live /\ split'[s].acct = arg'[q].acct
                                           /\ split'[s].state # "y"
              /\ sums'[q].balance = Tally(split', arg'[q].acct)
BY DEF Reckoned, Finalizing

LEMMA ReckonedStep ==
  FinalizesAlone /\ Inv /\ TypeOK /\ Reckoned /\ [Next]_vars => Reckoned'
<1>. SUFFICES ASSUME FinalizesAlone, Inv, TypeOK, Reckoned, [Next]_vars, TypeOK', NEW q \in Reqs
              PROVE  /\ Finalizing(q, {"locking", "checked"})' => advLock'[arg'[q].acct] = q
                     /\ Finalizing(q, {"checked"})' =>
                          /\ \A s \in arg'[q].splits :
                               /\ split'[s].live /\ split'[s].acct = arg'[q].acct
                               /\ split'[s].state # "y"
                          /\ sums'[q].balance = Tally(split', arg'[q].acct)
  BY TypesKept DEF Reckoned, Tally, Finalizing
<1>. USE DEF Inv
<1>0. arg[q] \in Args /\ NoReq \notin Reqs
  BY LedgerAssumption DEF Shape
<1>1. CASE UNCHANGED vars
  BY <1>1, ReckonedKept DEF vars
<1>2. CASE Next
  <2>. PICK r \in Reqs : \/ Loads(r) \/ Begin(r) \/ InTransaction(r) \/ Fail(r)
                         \/ SetLockDate(r)
    BY <1>2 DEF Next, Handle
  <2>1. CASE Loads(r)
    <3>1. CASE q = r
      BY <2>1, <3>1, LoadsLoad DEF Finalizing, Shape
    <3>2. CASE q # r
      <4>1. pc'[q] = pc[q] /\ arg'[q] = arg[q] /\ sums'[q] = sums[q]
            /\ split' = split /\ advLock' = advLock
        BY <2>1, <3>2 DEF Loads, LoadTransaction, LoadBatch, LoadSplits, LoadReconciliation,
           LoadCreate, Load, data, locks, Shape
      <4>. QED  BY <4>1, ReckonedKept, SMTT(40)
    <3>. QED  BY <3>1, <3>2
  <2>2. CASE Begin(r)
    <3>1. CASE q = r
      BY <1>0, <2>2, <3>1 DEF Begin, Finalizing, Shape, Args
    <3>2. CASE q # r
      <4>1. pc'[q] = pc[q] /\ arg'[q] = arg[q] /\ sums'[q] = sums[q] /\ split' = split
        BY <2>2, <3>2 DEF Begin, data, Shape
      <4>2. advLock[arg[q].acct] = q => advLock'[arg[q].acct] = q
        BY <1>0, <2>2 DEF Begin, Shape, Args
      <4>. QED  BY <4>1, <4>2, ReckonedKept
    <3>. QED  BY <3>1, <3>2
  <2>3. CASE LockRow(r) \/ SetLockDate(r)
    <3>1. /\ arg' = arg /\ sums' = sums /\ split' = split /\ advLock' = advLock
          /\ pc' = pc \/ pc' = [pc EXCEPT ![r] = "done"]
      BY <2>3 DEF LockRow, SetLockDate, data, locks
    <3>2. CASE pc'[q] = pc[q]
      BY <3>1, <3>2, ReckonedKept
    <3>3. CASE pc'[q] # pc[q]
      BY <3>1, <3>3 DEF Finalizing, Shape
    <3>. QED  BY <3>2, <3>3
  <2>4. CASE Check(r)
    <3>1. CASE q # r
      <4>1. pc'[q] = pc[q] /\ sums'[q] = sums[q] /\ arg' = arg /\ split' = split
            /\ advLock' = advLock
        BY <2>4, <3>1 DEF Check, data, locks, Shape
      <4>. QED  BY <4>1, ReckonedKept
    <3>2. CASE q = r
      <4>1. /\ pc[q] = "locking" /\ arg' = arg /\ split' = split /\ advLock' = advLock
            /\ Op[q] = "finalize" =>
                 CanFinalize(q) /\ sums'[q].balance = Tally(split, arg[q].acct)
        BY <2>4, <3>2, TallyIs DEF Check, HasLocked, Valid, data, locks, TypeOK
      <4>. QED  BY <4>1 DEF CanFinalize, Finalizing, Reckoned
    <3>. QED  BY <3>1, <3>2
  <2>5. CASE End(r)
    <3>1. CASE q = r
      BY <2>5, <3>1 DEF End, Finalizing, Shape
    <3>2. CASE q # r
      <4>1. /\ pc'[q] = pc[q] /\ arg'[q] = arg[q] /\ sums'[q] = sums[q]
            /\ advLock[arg[q].acct] = q => advLock'[arg[q].acct] = q
        BY <1>0, <2>5, <3>2 DEF End, Shape, Args
      <4>2. CASE ~Commit(r)
        BY <4>1, <4>2, OtherSteps, ReckonedKept DEF data
      <4>3. CASE Commit(r) /\ Finalizing(q, {"checked"})
        <5>1. advLock[arg[q].acct] = q /\ arg[q].acct \in Accounts
          BY <1>0, <4>3 DEF Reckoned, Finalizing, Args
        <5>2. Tally(split', arg[q].acct) = Tally(split, arg[q].acct)
          BY <3>2, <4>3, <5>1, CommitKeepsTally
        <5>3. ASSUME NEW s \in arg[q].splits PROVE split'[s] = split[s]
          <6>1. /\ s \in Splits /\ Parent[s] \in Txns /\ split[s].live
                /\ tx[Parent[s]].status = "live" /\ Parent[s] \in arg[q].txs
            BY <1>0, <4>3, LedgerAssumption
               DEF Reckoned, Finalizing, Args, Isolation, ParentsLive, NamedRowsExist, Parents
          <6>2. rowLock[Parent[s]] = q
            BY <4>3, <6>1, Holds DEF Finalizing
          <6>3. Untouched(Parent[s])
            BY <3>2, <4>3, <6>1, <6>2, CommitTouches DEF Touched
          <6>. QED  BY <6>1, <6>3 DEF Untouched
        <5>. QED  BY <4>1, <5>2, <5>3, ReckonedKept
      <4>4. CASE ~Finalizing(q, {"checked"})
        BY <4>1, <4>4, ReckonedKept
      <4>. QED  BY <4>2, <4>3, <4>4
    <3>. QED  BY <3>1, <3>2
  <2>6. Commit(r) \/ Reject(r) \/ Fail(r) \/ FinalizeRefused(r) => End(r)
    BY CommitEnds DEF Reject, Fail, FinalizeRefused
  <2>. QED  BY <2>1, <2>2, <2>3, <2>4, <2>5, <2>6 DEF InTransaction
<1>. QED  BY <1>1, <1>2

LEMMA FinalizeTies ==
  ASSUME Inv, TypeOK, TypeOK', Reckoned, NEW r \in Reqs, Finalize(r) \/ FinalizeAdjusted(r)
  PROVE  Tally(split', arg[r].acct) = sums[r].ending
<1>. USE DEF Inv
<1>. DEFINE a == arg[r].acct
            S == arg[r].splits
            marked == Marked(S, "y")
            amount == [s \in Splits |-> split[s].amt]
<1>1. /\ Finalizing(r, {"checked"}) /\ pc[r] = "checked"
      /\ S \in SUBSET Splits /\ a \in Accounts
      /\ sums[r].balance \in Int /\ sums[r].ending \in Int
      /\ sums[r].balance = Tally(split, a)
  BY DEF Finalize, FinalizeAdjusted, Ready, Finalizing, TypeOK, Shape, Args, Reckoned
<1>2. split \in [Splits -> SplitRow] /\ marked \in [Splits -> SplitRow]
  BY <1>1, RewrittenTypes DEF TypeOK, States
<1>3. \A s \in S : split[s].live /\ split[s].acct = a /\ split[s].state # "y"
  BY <1>1 DEF Reckoned
<1>4. /\ \A s \in Splits : /\ marked[s].amt = split[s].amt
                           /\ marked[s].live = split[s].live
      /\ \A s \in S : ~Counts(split, a, s) /\ Counts(marked, a, s)
      /\ \A s \in Splits \ S : Counts(marked, a, s) <=> Counts(split, a, s)
  BY <1>1, <1>2, <1>3 DEF Counts, Marked, SplitRow
<1>5. SumFunctionOnSet([s \in Splits |-> marked[s].amt], S) = SumFunctionOnSet(amount, S)
  <2>1. [s \in Splits |-> marked[s].amt] = amount
    BY <1>4, Zenon
  <2>. QED  BY <2>1, Zenon
<1>6. SumFunctionOnSet(amount, S) \in Int
  BY <1>1, <1>2, AmountSums
<1>7. Tally(marked, a) = sums[r].balance + SumFunctionOnSet(amount, S)
  <2>. HIDE DEF marked, S, a
  <2>1. Tally(marked, a) = Tally(split, a) + SumFunctionOnSet([s \in Splits |-> marked[s].amt], S)
    BY <1>1, <1>2, <1>4, TallyAdds
  <2>. QED  BY <1>1, <1>5, <2>1
<1>8. Difference(r) = sums[r].ending - (sums[r].balance + SumFunctionOnSet(amount, S))
  BY DEF Difference, Amount
<1>9. CASE Finalize(r)
  <2>1. split' = marked /\ Difference(r) = 0
    BY <1>9 DEF Finalize
  <2>. HIDE DEF marked, S, a, amount
  <2>. QED  BY <1>1, <1>6, <1>7, <1>8, <2>1 DEF a
<1>10. CASE FinalizeAdjusted(r)
  <2>1. PICK s0 \in Splits :
          /\ tx[Parent[s0]].status = "unborn"
          /\ split' = [marked EXCEPT ![s0] =
                         [live |-> TRUE, acct |-> a, amt |-> Difference(r), state |-> "y"]]
    BY <1>10 DEF FinalizeAdjusted
  <2>2. ~split[s0].live
    BY <2>1 DEF Isolation, ParentsLive
  <2>3. /\ ~Counts(marked, a, s0) /\ Counts(split', a, s0) /\ split'[s0].amt = Difference(r)
        /\ \A s \in Splits \ {s0} : split'[s] = marked[s]
    BY <1>2, <1>4, <2>1, <2>2 DEF Counts
  <2>4. \A s \in Splits : Counts(marked, a, s) => split'[s].amt = marked[s].amt
    BY <2>3
  <2>. DEFINE new == [s \in Splits |-> split'[s].amt]
  <2>5. Tally(split', a) = Tally(marked, a) + SumFunctionOnSet(new, {s0})
    <3>1. \A s \in Splits \ {s0} : Counts(split', a, s) <=> Counts(marked, a, s)
      BY <2>3 DEF Counts
    <3>2. split' \in [Splits -> SplitRow] /\ {s0} \in SUBSET Splits
      BY DEF TypeOK
    <3>. HIDE DEF marked, a
    <3>. QED  BY <1>2, <2>3, <2>4, <3>1, <3>2, TallyAdds
  <2>6. SumFunctionOnSet(new, {s0}) = Difference(r)
    <3>1. \A s \in {} \cup {s0} : new[s] \in Int
      BY DEF TypeOK, SplitRow
    <3>2. new[s0] = Difference(r) /\ new[s0] \in Int
      BY <2>3, <3>1
    <3>. HIDE DEF new
    <3>3. SumFunctionOnSet(new, {} \cup {s0}) = new[s0] + SumFunctionOnSet(new, {})
      BY <3>1, FS_EmptySet, SumAdd
    <3>4. {} \cup {s0} = {s0}
      OBVIOUS
    <3>5. SumFunctionOnSet(new, {s0}) = SumFunctionOnSet(new, {} \cup {s0})
      BY <3>4, Zenon
    <3>. QED  BY <3>2, <3>3, <3>5, SumEmpty
  <2>. HIDE DEF marked, S, a, amount, new
  <2>. QED  BY <1>1, <1>6, <1>7, <1>8, <2>5, <2>6 DEF a
<1>. QED  BY <1>9, <1>10

\* finalizeReconciliation: "validation and the write are atomic".  A finalize
\* that commits leaves the account reconciled to the statement's balance,
\* whatever else edits, moves, deletes or finalizes, so long as only finalizes
\* reconcile; the run ledger_tie_out shows what a toggle does.
THEOREM TiedOut == ASSUME FinalizesAlone PROVE Spec => TiesOut
<1>. DEFINE Ties == \A r \in Reqs : Commits(r) /\ Op[r] = "finalize" =>
                      \A a \in Accounts : a = arg[r].acct => ReconciledSum(a)' = sums[r].ending
<1>1. Init => Reckoned
  BY DEF Init, Reckoned, Finalizing
<1>2. Init => TypeOK
  BY ShapeInit, NullTypes, LedgerAssumption DEF Init, TypeOK
<1>3. Inv /\ TypeOK /\ Reckoned /\ [Next]_vars => [Ties]_vars
  <2>. SUFFICES ASSUME Inv, TypeOK, Reckoned, [Next]_vars, TypeOK',
                       NEW r \in Reqs, Commits(r), Op[r] = "finalize",
                       NEW a \in Accounts, a = arg[r].acct
                PROVE  ReconciledSum(a)' = sums[r].ending
    BY TypesKept
  <2>1. pc[r] = "checked" /\ pc'[r] = "done" /\ data' # data
    BY DEF Commits
  <2>2. PICK q \in Reqs : \/ Loads(q) \/ Begin(q) \/ InTransaction(q) \/ Fail(q)
                          \/ SetLockDate(q)
    BY <2>1 DEF Next, Handle, vars, data
  <2>3. Commit(q)
    BY <2>1, <2>2, OtherSteps
  <2>4. q = r
    BY <2>1, <2>3, CommitEnds DEF End, Inv, Shape
  <2>5. Finalize(r) \/ FinalizeAdjusted(r)
    BY <2>3, <2>4 DEF Commit, Create, Put, Delete, ReplaceDescriptions, Recategorize, Move,
       Toggle, Ready
  <2>. QED  BY <2>5, FinalizeTies, TallyIs
<1>. QED  BY <1>1, <1>2, <1>3, TypesKept, ReckonedStep, Invariance, PTL DEF Spec, TiesOut
=================================================================================
