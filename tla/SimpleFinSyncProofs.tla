-------------------------- MODULE SimpleFinSyncProofs --------------------------
(***************************************************************************)
(* Proofs about SimpleFinSync, for any number of connections, runs and     *)
(* rows.  That an id is the primary id of one meta row holds with any      *)
(* number of connections, on a database without the unique index, because  *)
(* the claim reads under the id's lock.  That a row is recorded once and   *)
(* stays so holds until a second connection is set up: the advisory lock   *)
(* makes the runs of one take turns, and a run knows which of its rows are *)
(* recorded.                                                               *)
(***************************************************************************)
EXTENDS SimpleFinSync, FiniteSetTheorems, TLAPS

\* The feed ids and no id.
LEMMA IdFacts == Feeds \subseteq Ids /\ NoFeed \in Ids /\ Ids \ {NoFeed} = Feeds
<1>. QED  BY SyncAssumption DEF Ids

\* Before the first sync everything has its type.
LEMMA ShapeInit == Init => Shape
<1>. SUFFICES ASSUME Init PROVE Shape
  OBVIOUS
<1>. USE DEF Init, Shape
<1>1. NoMeta \in MetaRow
  BY IdFacts DEF NoMeta, MetaRow
<1>2. meta \in [Txns -> MetaRow]
  BY <1>1 DEF MetaRow, NoMeta
<1>3. Off \in RunRecord
  BY SyncAssumption, IdFacts DEF Off, RunRecord, Days
<1>4. 0 \in Days
  BY SyncAssumption DEF Days
<1>. QED  BY <1>2, <1>3, <1>4

\* What a run has in hand, field by field.
LEMMA RunIs ==
  ASSUME Shape, NEW r \in Runs
  PROVE  run[r] \in RunRecord
<1>. QED  BY DEF Shape

\* What a run does with a row keeps its record one.
LEMMA RunRecords ==
  ASSUME Shape, NEW r \in Runs
  PROVE  /\ run[r] \in RunRecord /\ Rows(r) \subseteq Feeds
         /\ \A f \in Ids : Past(r, f) \in RunRecord
         /\ Abandoned(r) \in RunRecord
         /\ Off \in RunRecord
<1>1. run[r] \in RunRecord
  BY RunIs
<1>2. Off \in RunRecord
  BY SyncAssumption, IdFacts DEF Off, RunRecord, Days
<1>3. Rows(r) \subseteq Feeds
  BY <1>1 DEF RunRecord, Rows
<1>4. \A f \in Ids : Past(r, f) \in RunRecord
  BY <1>1, IdFacts DEF RunRecord, Past
<1>5. Abandoned(r) \in RunRecord
  BY <1>1, IdFacts DEF RunRecord, Abandoned
<1>. QED  BY <1>1, <1>2, <1>3, <1>4, <1>5

\* Every action keeps the types.
LEMMA ShapeStep == Shape /\ [Next]_vars => Shape'
<1>. SUFFICES ASSUME Shape, [Next]_vars PROVE Shape'
  OBVIOUS
<1>0. Days \subseteq Nat /\ 0 \in Days
  BY SyncAssumption DEF Days
\* Steps of a run: its new record is one, and so are the meta rows.
<1>. DEFINE Rest == UNCHANGED <<kept, lockDate, now, shown, conns>>
<1>1. ASSUME NEW r \in Runs, NEW new \in RunRecord, run' = [run EXCEPT ![r] = new],
             UNCHANGED <<data, lockDate, now, shown, conns>>
      PROVE  Shape'
  BY <1>1 DEF Shape, data
<1>2. ASSUME NEW r \in Runs, NEW new \in RunRecord, run' = [run EXCEPT ![r] = new],
             meta' \in [Txns -> MetaRow], Rest
      PROVE  Shape'
  BY <1>2 DEF Shape
<1>3. CASE UNCHANGED vars
  BY <1>3 DEF Shape, vars, data
<1>4. ASSUME NEW r \in Runs, Fetch(r) PROVE Shape'
  <2>. DEFINE rows == {f \in shown : /\ ConnOf[r] \in OfferedBy[f] /\ AccountOf[f] \in Mapped[ConnOf[r]]
                                     /\ DayOf[f] >= SyncStart(ConnOf[r])}
              new == [Off EXCEPT !.at = "fetched", !.todo = rows, !.began = now,
                                 !.open = {AccountOf[f] : f \in rows}]
  <2>1. rows \subseteq Feeds
    BY DEF Shape
  <2>2. {AccountOf[f] : f \in rows} \subseteq Accounts
    BY <2>1, SyncAssumption
  <2>3. Off \in RunRecord /\ now \in Days
    BY <1>4, RunRecords DEF Shape
  <2>4. new \in RunRecord
    <3>. HIDE DEF rows
    <3>. QED  BY <2>1, <2>2, <2>3 DEF RunRecord
  <2>5. run' = [run EXCEPT ![r] = new] /\ UNCHANGED <<data, lockDate, now, shown, conns>>
    BY <1>4 DEF Fetch
  <2>. QED
    <3>. HIDE DEF new
    <3>. QED  BY <1>1, <2>4, <2>5
<1>5. ASSUME NEW r \in Runs, Load(r) PROVE Shape'
  <2>1. PICK new : /\ new = [run[r] EXCEPT !.at = "accounts", !.floor = lockDate,
                                             !.known = {f \in run[r].todo : Known(f)}]
                   /\ run' = [run EXCEPT ![r] = new]
    BY <1>5 DEF Load
  <2>2. lockDate \in Days /\ {f \in run[r].todo : Known(f)} \subseteq Feeds
    BY RunIs DEF RunRecord, Shape
  <2>3. new \in RunRecord
    BY <2>1, <2>2, RunIs, IdFacts DEF RunRecord
  <2>. QED  BY <1>1, <1>5, <2>1, <2>3 DEF Load
<1>6. ASSUME NEW r \in Runs, BeginAccount(r) PROVE Shape'
  <2>1. PICK a \in run[r].open :
          run' = [run EXCEPT ![r].at = "rows", ![r].acct = a, ![r].open = run[r].open \ {a}]
    BY <1>6 DEF BeginAccount
  <2>2. PICK rest, new :
          /\ rest = run[r].open \ {a}
          /\ new = [run[r] EXCEPT !.at = "rows", !.acct = a, !.open = rest]
          /\ run' = [run EXCEPT ![r] = new]
    BY <2>1
  <2>3. a \in Accounts /\ rest \in SUBSET Accounts
    BY <2>1, <2>2, RunIs DEF RunRecord
  <2>4. new \in RunRecord
    <3>1. PICK old \in RunRecord : old = run[r]
      BY RunIs
    <3>. QED  BY <2>2, <2>3, <3>1 DEF RunRecord
  <2>. QED  BY <1>1, <1>6, <2>2, <2>4 DEF BeginAccount
<1>7. ASSUME NEW r \in Runs, Skip(r) PROVE Shape'
  <2>1. PICK f \in Rows(r) : run' = [run EXCEPT ![r].todo = run[r].todo \ {f}]
    BY <1>7 DEF Skip
  <2>2. PICK new : /\ new = [run[r] EXCEPT !.todo = run[r].todo \ {f}]
                   /\ run' = [run EXCEPT ![r] = new]
    BY <2>1
  <2>3. new \in RunRecord
    BY <2>2, RunIs DEF RunRecord
  <2>. QED  BY <1>1, <1>7, <2>2, <2>3 DEF Skip
<1>8. ASSUME NEW r \in Runs, FindManual(r) PROVE Shape'
  <2>1. PICK f \in Rows(r) :
          \/ \E t \in ManualMatches(f) :
               run' = [run EXCEPT ![r].at = "linking", ![r].feed = f, ![r].txn = t,
                                  ![r].meta = meta[t].there]
          \/ run' = [run EXCEPT ![r].at = "pairs", ![r].feed = f]
    BY <1>8 DEF FindManual
  <2>2. f \in Feeds /\ ManualMatches(f) \subseteq Txns
    BY <2>1, RunRecords DEF ManualMatches, Nearest
  <2>3. CASE \E t \in ManualMatches(f) :
               run' = [run EXCEPT ![r].at = "linking", ![r].feed = f, ![r].txn = t,
                                  ![r].meta = meta[t].there]
    <3>1. PICK t \in ManualMatches(f) :
               run' = [run EXCEPT ![r].at = "linking", ![r].feed = f, ![r].txn = t,
                                  ![r].meta = meta[t].there]
      BY <2>3
    <3>2. PICK b \in BOOLEAN : b = meta[t].there
      BY <2>2, <3>1 DEF Shape, MetaRow
    <3>3. PICK new : /\ new = [run[r] EXCEPT !.at = "linking", !.feed = f, !.txn = t, !.meta = b]
                     /\ run' = [run EXCEPT ![r] = new]
      BY <3>1, <3>2
    <3>4. new \in RunRecord
      <4>1. f \in Ids /\ t \in Txns
        BY <2>2, <3>1, IdFacts
      <4>2. PICK old \in RunRecord : old = run[r]
        BY RunIs
      <4>. QED  BY <3>2, <3>3, <4>1, <4>2 DEF RunRecord
    <3>. QED  BY <1>1, <1>8, <3>3, <3>4 DEF FindManual
  <2>4. CASE run' = [run EXCEPT ![r].at = "pairs", ![r].feed = f]
    <3>1. PICK new : /\ new = [run[r] EXCEPT !.at = "pairs", !.feed = f]
                     /\ run' = [run EXCEPT ![r] = new]
      BY <2>4
    <3>2. new \in RunRecord
      BY <2>2, <3>1, RunIs, IdFacts DEF RunRecord
    <3>. QED  BY <1>1, <1>8, <3>1, <3>2 DEF FindManual
  <2>. QED  BY <2>1, <2>3, <2>4
<1>9. ASSUME NEW r \in Runs, Link(r) PROVE Shape'
  <2>. DEFINE f == run[r].feed  t == run[r].txn
  <2>1. f \in Ids
    BY RunIs DEF RunRecord
  <2>2. Past(r, f) \in RunRecord
    BY <2>1, RunRecords
  <2>3. Rest
    BY <1>9 DEF Link
  <2>4. CASE Claimed(f) /\ UNCHANGED meta
             /\ run' = [run EXCEPT ![r].at = "pairs", ![r].txn = NoTxn, ![r].meta = FALSE]
    <3>1. PICK new : /\ new = [run[r] EXCEPT !.at = "pairs", !.txn = NoTxn, !.meta = FALSE]
                     /\ run' = [run EXCEPT ![r] = new]
      BY <2>4
    <3>2. new \in RunRecord
      BY <3>1, RunIs DEF RunRecord
    <3>. QED  BY <1>2, <2>3, <2>4, <3>1, <3>2 DEF Shape
  <2>5. CASE /\ meta' = IF meta[t].there THEN [meta EXCEPT ![t].one = f] ELSE meta
             /\ run' = [run EXCEPT ![r] = Past(r, f)]
    <3>1. meta' \in [Txns -> MetaRow]
      <4>. HIDE DEF t, f
      <4>. QED  BY <2>1, <2>5 DEF Shape, MetaRow
    <3>. QED  BY <1>2, <2>2, <2>3, <2>5, <3>1
  <2>6. CASE /\ meta' = [meta EXCEPT ![t] = [there |-> TRUE, one |-> f, two |-> NoFeed]]
             /\ run' = [run EXCEPT ![r] = Past(r, f)]
    <3>1. meta' \in [Txns -> MetaRow]
      <4>. HIDE DEF t, f
      <4>. QED  BY <2>1, <2>6, IdFacts DEF Shape, MetaRow
    <3>. QED  BY <1>2, <2>2, <2>3, <2>6, <3>1
  <2>7. CASE run' = [run EXCEPT ![r] = Abandoned(r)] /\ UNCHANGED meta
    BY <1>2, <2>3, <2>7, RunRecords DEF Shape
  <2>. QED  BY <1>9, <2>4, <2>5, <2>6, <2>7 DEF Link
<1>10. ASSUME NEW r \in Runs, FindTransfer(r) PROVE Shape'
  <2>. DEFINE S == TransferMatches(ConnOf[r], run[r].feed)
  <2>1. S \subseteq Txns
    BY DEF TransferMatches, Nearest
  <2>2. CASE \E t \in S : run' = [run EXCEPT ![r].at = "pairing", ![r].txn = t]
    <3>1. PICK t \in S : run' = [run EXCEPT ![r].at = "pairing", ![r].txn = t]
      BY <2>2
    <3>2. PICK new : /\ new = [run[r] EXCEPT !.at = "pairing", !.txn = t]
                     /\ run' = [run EXCEPT ![r] = new]
      BY <3>1
    <3>3. t \in Txns
      BY <2>1
    <3>4. new \in RunRecord
      BY <3>2, <3>3, RunIs DEF RunRecord
    <3>. QED  BY <1>1, <1>10, <3>2, <3>4 DEF FindTransfer
  <2>3. CASE run' = [run EXCEPT ![r].at = "importing"]
    <3>1. PICK new : /\ new = [run[r] EXCEPT !.at = "importing"]
                     /\ run' = [run EXCEPT ![r] = new]
      BY <2>3
    <3>2. new \in RunRecord
      BY <3>1, RunIs DEF RunRecord
    <3>. QED  BY <1>1, <1>10, <3>1, <3>2 DEF FindTransfer
  <2>. QED  BY <1>10, <2>2, <2>3 DEF FindTransfer
<1>11. ASSUME NEW r \in Runs, Pair(r) PROVE Shape'
  <2>. DEFINE f == run[r].feed  t == run[r].txn
  <2>1. f \in Ids
    BY RunIs DEF RunRecord
  <2>2. Past(r, f) \in RunRecord
    BY <2>1, RunRecords
  <2>3. Rest
    BY <1>11 DEF Pair
  <2>4. CASE /\ meta' = [meta EXCEPT ![t].two = f]
             /\ run' = [run EXCEPT ![r] = Past(r, f)]
    <3>1. meta' \in [Txns -> MetaRow]
      <4>. HIDE DEF t, f
      <4>. QED  BY <2>1, <2>4 DEF Shape, MetaRow
    <3>. QED  BY <1>2, <2>2, <2>3, <2>4, <3>1
  <2>5. CASE run' = [run EXCEPT ![r] = Abandoned(r)] /\ UNCHANGED meta
    BY <1>2, <2>3, <2>5, RunRecords DEF Shape
  <2>. QED  BY <1>11, <2>4, <2>5 DEF Pair
<1>12. ASSUME NEW r \in Runs, Import(r) PROVE Shape'
  <2>. DEFINE f == run[r].feed
  <2>1. f \in Ids
    BY RunIs DEF RunRecord
  <2>2. PICK t \in Txns :
          meta' = [meta EXCEPT ![t] = [there |-> TRUE, one |-> f, two |-> NoFeed]]
    BY <1>12 DEF Import
  <2>3. meta' \in [Txns -> MetaRow]
    <3>. HIDE DEF f
    <3>. QED  BY <2>1, <2>2, IdFacts DEF Shape, MetaRow
  <2>4. Past(r, f) \in RunRecord
    BY <2>1, RunRecords
  <2>. QED  BY <1>2, <1>12, <2>3, <2>4 DEF Import
<1>13. ASSUME NEW r \in Runs, ImportSkipped(r) PROVE Shape'
  <2>1. run[r].feed \in Ids
    BY RunIs DEF RunRecord
  <2>2. Past(r, run[r].feed) \in RunRecord
    BY <2>1, RunRecords
  <2>. QED  BY <1>1, <1>13, <2>2 DEF ImportSkipped
<1>14. ASSUME NEW r \in Runs, ImportFails(r) PROVE Shape'
  <2>1. PICK f : f = run[r].feed
    OBVIOUS
  <2>2. PICK past, new :
          /\ past = Past(r, f) /\ past \in RunRecord
          /\ new = [past EXCEPT !.known = run[r].known, !.failed = run[r].failed \cup {f}]
          /\ run' = [run EXCEPT ![r] = new]
    BY <1>14, <2>1, RunRecords DEF ImportFails, RunRecord
  <2>3. /\ f \in Ids
        /\ run[r].known \in SUBSET Ids
        /\ run[r].failed \cup {f} \in SUBSET Ids
    BY <2>1, RunIs DEF RunRecord
  <2>4. new \in RunRecord
    BY <2>2, <2>3 DEF RunRecord
  <2>. QED  BY <1>1, <1>14, <2>2, <2>4 DEF ImportFails
<1>15. ASSUME NEW r \in Runs, EndAccount(r) PROVE Shape'
  <2>1. PICK new : /\ new = [run[r] EXCEPT !.at = "accounts", !.acct = NoAccount]
                   /\ run' = [run EXCEPT ![r] = new]
    BY <1>15 DEF EndAccount
  <2>2. new \in RunRecord
    BY <2>1, RunIs DEF RunRecord
  <2>. QED  BY <1>1, <1>15, <2>1, <2>2 DEF EndAccount
<1>16. ASSUME NEW r \in Runs, Finish(r) \/ Die(r) PROVE Shape'
  BY <1>1, <1>16, RunRecords DEF Finish, Die, Release
<1>17. ASSUME NEW t \in Txns, Edit(t) \/ Delete(t) PROVE Shape'
  <2>1. CASE Edit(t)
    BY <2>1 DEF Edit, Shape
  <2>2. CASE Delete(t)
    <3>1. meta' = [meta EXCEPT ![t] = NoMeta] /\ NoMeta \in MetaRow
      BY <2>2, IdFacts DEF Delete, NoMeta, MetaRow
    <3>2. meta[t].one # NoFeed =>
            [of |-> t, one |-> meta[t].one, two |-> meta[t].two]
              \in [of : Txns, one : Feeds, two : Ids]
      BY IdFacts DEF Shape, MetaRow
    <3>3. kept' \subseteq [of : Txns, one : Feeds, two : Ids]
      BY <2>2, <3>2 DEF Delete, Shape
    <3>. QED  BY <2>2, <3>1, <3>3 DEF Delete, Shape
  <2>. QED  BY <1>17, <2>1, <2>2
<1>18. CASE SetLockDate \/ Tick \/ (\E f \in Feeds : Show(f)) \/ \E c \in Conns : Connect(c)
  BY <1>18, SyncAssumption DEF SetLockDate, Tick, Connect, Show, Shape, data, Days
<1>. QED  BY <1>3, <1>4, <1>5, <1>6, <1>7, <1>8, <1>9, <1>10, <1>11, <1>12, <1>13, <1>14,
             <1>15, <1>16, <1>17, <1>18 DEF Next, Work

\* What is checked besides by TLC, and here for every instance: the meta rows,
\* the rows a run holds and the dates keep their types.
THEOREM Typing == Spec => []Shape
<1>. QED  BY ShapeInit, ShapeStep, PTL DEF Spec

---------------------------------------------------------------------------

\* The claim reads the meta rows under the id's lock, so it writes an id that
\* none of them holds.
LEMMA PrimaryStep == Shape /\ PrimaryOnce /\ [Next]_vars => PrimaryOnce'
<1>. SUFFICES ASSUME Shape, PrimaryOnce, [Next]_vars PROVE PrimaryOnce'
  OBVIOUS
\* A row that nobody has recorded is recorded on one meta row.
<1>1. ASSUME NEW f, NEW t, ~Claimed(f), UNCHANGED kept,
             \A u \in Txns : meta'[u].one = IF u = t THEN f ELSE meta[u].one
      PROVE  PrimaryOnce'
  BY <1>1 DEF PrimaryOnce, Claimed
<1>2. CASE UNCHANGED kept /\ \A u \in Txns : meta'[u].one = meta[u].one
  BY <1>2 DEF PrimaryOnce
<1>3. ASSUME NEW r \in Runs, Link(r) PROVE PrimaryOnce'
  <2>. DEFINE f == run[r].feed  t == run[r].txn
  <2>1. CASE UNCHANGED meta
    BY <1>2, <1>3, <2>1 DEF Link
  <2>2. CASE ~Claimed(f) /\ meta' = [meta EXCEPT ![t].one = f]
    <3>1. \A u \in Txns : meta'[u].one = IF u = t THEN f ELSE meta[u].one
      <4>. HIDE DEF t, f
      <4>. QED  BY <2>2 DEF Shape, MetaRow
    <3>2. UNCHANGED kept
      BY <1>3 DEF Link
    <3>. QED
      <4>. HIDE DEF t, f
      <4>. QED  BY <1>1, <2>2, <3>1, <3>2
  <2>3. CASE ~Claimed(f) /\ meta' = [meta EXCEPT ![t] = [there |-> TRUE, one |-> f, two |-> NoFeed]]
    <3>1. \A u \in Txns : meta'[u].one = IF u = t THEN f ELSE meta[u].one
      <4>. HIDE DEF t, f
      <4>. QED  BY <2>3 DEF Shape, MetaRow
    <3>2. UNCHANGED kept
      BY <1>3 DEF Link
    <3>. QED
      <4>. HIDE DEF t, f
      <4>. QED  BY <1>1, <2>3, <3>1, <3>2
  <2>. QED  BY <1>3, <2>1, <2>2, <2>3 DEF Link
<1>4. ASSUME NEW r \in Runs, Import(r) PROVE PrimaryOnce'
  <2>1. PICK f : f = run[r].feed
    OBVIOUS
  <2>2. PICK t \in Txns :
          meta' = [meta EXCEPT ![t] = [there |-> TRUE, one |-> f, two |-> NoFeed]]
    BY <1>4, <2>1 DEF Import
  <2>3. \A u \in Txns : meta'[u].one = IF u = t THEN f ELSE meta[u].one
    BY <2>2 DEF Shape, MetaRow
  <2>4. ~Claimed(f) /\ UNCHANGED kept
    BY <1>4, <2>1 DEF Import
  <2>. QED  BY <1>1, <2>3, <2>4
<1>5. ASSUME NEW r \in Runs, Pair(r) PROVE PrimaryOnce'
  <2>1. \A u \in Txns : meta'[u].one = meta[u].one
    BY <1>5 DEF Pair, Shape, MetaRow
  <2>. QED  BY <1>2, <1>5, <2>1 DEF Pair
\* The record moves to the rows without a transaction.
<1>6. ASSUME NEW t \in Txns, Delete(t) PROVE PrimaryOnce'
  <2>1. \A u \in Txns : meta'[u].one = IF u = t THEN NoFeed ELSE meta[u].one
    BY <1>6 DEF Delete, NoMeta, Shape, MetaRow
  <2>2. \A k \in kept : k.one # NoFeed
    BY SyncAssumption DEF Shape
  <2>3. CASE meta[t].one = NoFeed
    BY <1>6, <2>1, <2>2, <2>3 DEF Delete, PrimaryOnce
  <2>4. CASE meta[t].one # NoFeed
    <3>1. PICK k : k.one = meta[t].one /\ kept' = kept \cup {k}
      <4>. DEFINE k == [of |-> t, one |-> meta[t].one, two |-> meta[t].two]
      <4>1. k.one = meta[t].one /\ kept' = kept \cup {k}
        BY <1>6, <2>4 DEF Delete
      <4>. QED  BY <4>1
    <3>. QED  BY <2>1, <2>2, <2>4, <3>1 DEF PrimaryOnce
  <2>. QED  BY <2>3, <2>4
<1>7. CASE UNCHANGED <<meta, kept>>
  BY <1>2, <1>7
<1>8. ASSUME [Next]_vars,
             \A r \in Runs : ~Link(r) /\ ~Import(r) /\ ~Pair(r),
             \A t \in Txns : ~Delete(t)
      PROVE  UNCHANGED <<meta, kept>>
  BY <1>8 DEF Next, Work, vars, data, Fetch, Load, BeginAccount, Skip, FindManual, FindTransfer,
              ImportSkipped, ImportFails, EndAccount, Finish, Die, Release, Edit, Connect, Show, SetLockDate,
              Tick
<1>. QED  BY <1>3, <1>4, <1>5, <1>6, <1>7, <1>8

\* A bank row is the primary row of one meta row at most: the claim re-reads the
\* id under the id's own lock, so no unique index is needed.
THEOREM Primaries == Spec => []PrimaryOnce
<1>1. Init => PrimaryOnce
  BY DEF Init, PrimaryOnce, NoMeta
<1>. QED  BY <1>1, PrimaryStep, Typing, PTL DEF Spec

-----------------------------------------------------------------------------
(* A row is recorded once, by the syncs of one connection *)

\* What a row is known by.
LEMMA KnownIs ==
  ASSUME NEW f
  PROVE  Known(f) <=> \/ \E t \in Txns : meta[t].one = f \/ meta[t].two = f
                      \/ \E k \in kept : k.one = f \/ k.two = f
BY DEF Known, Holders

\* A meta row gets the id of a row that is not known, in a column that holds none.
LEMMA MetaGains ==
  ASSUME Shape, RecordedOnce, NEW f \in Feeds, ~Known(f), NEW t \in Txns, NEW m \in MetaRow,
         meta' = [meta EXCEPT ![t] = m], UNCHANGED kept,
         \/ m.one = f /\ meta[t].one = NoFeed /\ m.two = meta[t].two
         \/ m.two = f /\ meta[t].two = NoFeed /\ m.one = meta[t].one
  PROVE  /\ RecordedOnce'
         /\ \A g \in Feeds : Known(g)' <=> Known(g) \/ g = f
<1>1. /\ NoFeed \notin Feeds /\ meta'[t] = m /\ \A u \in Txns \ {t} : meta'[u] = meta[u]
      /\ meta' \in [Txns -> MetaRow]
  BY SyncAssumption DEF Shape
<1>2. ASSUME NEW g \in Feeds PROVE Known(g)' <=> Known(g) \/ g = f
  <2>1. Known(g)' <=> \/ \E u \in Txns : meta'[u].one = g \/ meta'[u].two = g
                      \/ \E k \in kept' : k.one = g \/ k.two = g
    BY DEF Known, Holders
  <2>. QED  BY <1>1, <2>1, KnownIs
<1>3. /\ \A u \in Txns : meta[u].one # f /\ meta[u].two # f
      /\ \A k \in kept : k.one # f /\ k.two # f
  BY KnownIs
<1>4. RecordedOnce'
  <2>. SUFFICES ASSUME NEW g \in Feeds
                PROVE  /\ \A u, v \in Txns : /\ meta'[u].one = g /\ meta'[v].one = g => u = v
                                             /\ meta'[u].two = g /\ meta'[v].two = g => u = v
                                             /\ ~(meta'[u].one = g /\ meta'[v].two = g)
                       /\ \A u \in Txns, k \in kept :
                            ~(g \in {meta'[u].one, meta'[u].two} /\ g \in {k.one, k.two})
    BY DEF RecordedOnce
  <2>1. CASE g = f
    BY <1>1, <1>3, <2>1
  <2>2. CASE g # f
    BY <1>1, <2>2 DEF RecordedOnce
  <2>. QED  BY <2>1, <2>2
<1>. QED  BY <1>2, <1>4

\* The ids of a deleted transaction stay in its kept meta row.
LEMMA MetaMoves ==
  ASSUME Shape, RecordedOnce, MetaAgrees, NEW t \in Txns, Delete(t)
  PROVE  /\ RecordedOnce' /\ \A g \in Feeds : Known(g)' <=> Known(g)
         /\ meta'[t] = NoMeta /\ \A u \in Txns \ {t} : meta'[u] = meta[u]
<1>1. /\ NoFeed \notin Feeds /\ meta'[t] = NoMeta /\ \A u \in Txns \ {t} : meta'[u] = meta[u]
      /\ NoMeta.one = NoFeed /\ NoMeta.two = NoFeed
  BY SyncAssumption DEF Shape, Delete, NoMeta
<1>2. \A g : Known(g)' <=> \/ \E u \in Txns : meta'[u].one = g \/ meta'[u].two = g
                           \/ \E k \in kept' : k.one = g \/ k.two = g
  BY DEF Known, Holders
<1>3. CASE meta[t].one = NoFeed
  <2>1. kept' = kept
    BY <1>3 DEF Delete
  <2>0. meta[t].two = NoFeed
    BY <1>3 DEF MetaAgrees
  <2>2. \A g \in Feeds : Known(g)' <=> Known(g)
    BY <1>1, <1>2, <1>3, <2>0, <2>1, KnownIs
  <2>3. RecordedOnce'
    BY <1>1, <1>3, <2>0, <2>1 DEF RecordedOnce
  <2>. QED  BY <1>1, <2>2, <2>3
<1>4. CASE meta[t].one # NoFeed
  <2>. DEFINE k == [of |-> t, one |-> meta[t].one, two |-> meta[t].two]
  <2>1. kept' = kept \cup {k} /\ k.one = meta[t].one /\ k.two = meta[t].two
    BY <1>4 DEF Delete
  <2>. HIDE DEF k
  <2>2. \A g \in Feeds : Known(g)' <=> Known(g)
    BY <1>1, <1>2, <2>1, KnownIs
  <2>3. RecordedOnce'
    <3>. SUFFICES ASSUME NEW g \in Feeds
                  PROVE  /\ \A u, v \in Txns : /\ meta'[u].one = g /\ meta'[v].one = g => u = v
                                               /\ meta'[u].two = g /\ meta'[v].two = g => u = v
                                               /\ ~(meta'[u].one = g /\ meta'[v].two = g)
                         /\ \A i, j \in kept' : /\ i.one = g /\ j.one = g => i = j
                                                /\ i.two = g /\ j.two = g => i = j
                                                /\ ~(i.one = g /\ j.two = g)
                         /\ \A u \in Txns, j \in kept' :
                              ~(g \in {meta'[u].one, meta'[u].two} /\ g \in {j.one, j.two})
      BY DEF RecordedOnce
    <3>1. \A u, v \in Txns : /\ meta'[u].one = g /\ meta'[v].one = g => u = v
                             /\ meta'[u].two = g /\ meta'[v].two = g => u = v
                             /\ ~(meta'[u].one = g /\ meta'[v].two = g)
      BY <1>1 DEF RecordedOnce
    <3>2. \A j \in kept : ~(g \in {k.one, k.two} /\ g \in {j.one, j.two})
      BY <2>1 DEF RecordedOnce
    <3>3. \A u \in Txns \ {t} : ~(g \in {k.one, k.two} /\ g \in {meta[u].one, meta[u].two})
      BY <2>1 DEF RecordedOnce
    <3>4. ~(k.one = g /\ k.two = g)
      BY <2>1 DEF RecordedOnce
    <3>5. \A i, j \in kept' : /\ i.one = g /\ j.one = g => i = j
                              /\ i.two = g /\ j.two = g => i = j
                              /\ ~(i.one = g /\ j.two = g)
      BY <2>1, <3>2, <3>4 DEF RecordedOnce
    <3>6. \A u \in Txns, j \in kept' :
            ~(g \in {meta'[u].one, meta'[u].two} /\ g \in {j.one, j.two})
      BY <1>1, <2>1, <3>3 DEF RecordedOnce
    <3>. QED  BY <3>1, <3>5, <3>6
  <2>. QED  BY <1>1, <2>2, <2>3
<1>. QED  BY <1>3, <1>4

\* A run goes past a row, or leaves an account's rows.
LEMMA PastTells ==
  ASSUME Shape, NEW r \in Runs, NEW f, run' = [run EXCEPT ![r] = Past(r, f)]
  PROVE  /\ run'[r].at = "rows" /\ run'[r].todo = run[r].todo \ {f}
         /\ run'[r].known = run[r].known \cup {f}
         /\ \A s \in Runs \ {r} : run'[s] = run[s]
BY DEF Shape, Past, RunRecord

\* An error outside the import gives up the account's rows.
LEMMA AbandonedTells ==
  ASSUME Shape, NEW r \in Runs, run' = [run EXCEPT ![r] = Abandoned(r)]
  PROVE  /\ run'[r].at = "accounts" /\ run'[r].todo \subseteq run[r].todo
         /\ run'[r].known = run[r].known
         /\ \A s \in Runs \ {r} : run'[s] = run[s]
BY DEF Shape, Abandoned, RunRecord

\* The runs of one connection come one at a time.
LEMMA AloneAtWork ==
  ASSUME NEW c \in Conns, Only(c), LockAgrees, NEW r \in Runs, NEW s \in Runs \ {r},
         run[r].at # "off" \/ (lock[c] = NoRun /\ ConnOf[r] = c)
  PROVE  run[s].at = "off"
BY SyncAssumption DEF Only, LockAgrees

\* What one run knows and has in hand is all there is to show.
LEMMA OwnSuffices ==
  ASSUME NEW c \in Conns, Only(c), LockAgrees, NEW r \in Runs,
         run[r].at # "off" \/ (lock[c] = NoRun /\ ConnOf[r] = c),
         \A s \in Runs \ {r} : run'[s] = run[s], Knows(r)', Has(r)'
  PROVE  KnowsItsRows'
<1>. SUFFICES ASSUME NEW s \in Runs \ {r} PROVE Knows(s)' /\ Has(s)'
  BY DEF KnowsItsRows
<1>1. run'[s].at = "off"
  BY AloneAtWork
<1>. QED  BY <1>1 DEF Knows, Has

\* A run that works goes on with its lock, until it ends; the others wait.
LEMMA WorkTells ==
  ASSUME Shape, NEW r \in Runs, Work(r) \/ ImportFails(r), ~Finish(r)
  PROVE  /\ run[r].at # "off" /\ run'[r].at # "off" /\ lock' = lock
         /\ \A s \in Runs \ {r} : run'[s] = run[s]
<1>1. CASE Load(r) \/ BeginAccount(r) \/ Skip(r) \/ EndAccount(r)
  <2>1. CASE Load(r)
    BY <2>1 DEF Load, Shape, RunRecord
  <2>2. CASE BeginAccount(r)
    BY <2>2 DEF BeginAccount, Shape, RunRecord
  <2>3. CASE Skip(r)
    BY <2>3 DEF Skip, Shape, RunRecord
  <2>4. CASE EndAccount(r)
    BY <2>4 DEF EndAccount, Shape, RunRecord
  <2>. QED  BY <1>1, <2>1, <2>2, <2>3, <2>4
<1>2. CASE FindTransfer(r)
  BY <1>2 DEF FindTransfer, Shape, RunRecord
<1>10. CASE FindManual(r)
  <2>1. run[r].at = "rows" /\ lock' = lock
    BY <1>10 DEF FindManual
  <2>2. PICK f \in Rows(r) :
          \/ \E t \in ManualMatches(f) :
               run' = [run EXCEPT ![r].at = "linking", ![r].feed = f, ![r].txn = t,
                                  ![r].meta = meta[t].there]
          \/ run' = [run EXCEPT ![r].at = "pairs", ![r].feed = f]
    BY <1>10 DEF FindManual
  <2>3. CASE run' = [run EXCEPT ![r].at = "pairs", ![r].feed = f]
    BY <2>1, <2>3 DEF Shape, RunRecord
  <2>4. CASE \E t \in ManualMatches(f) :
               run' = [run EXCEPT ![r].at = "linking", ![r].feed = f, ![r].txn = t,
                                  ![r].meta = meta[t].there]
    <3>1. PICK t : run' = [run EXCEPT ![r].at = "linking", ![r].feed = f, ![r].txn = t,
                                      ![r].meta = meta[t].there]
      BY <2>4
    <3>. QED  BY <2>1, <3>1 DEF Shape, RunRecord
  <2>. QED  BY <2>2, <2>3, <2>4
<1>3. CASE Link(r)
  <2>. DEFINE f == run[r].feed
  <2>1. /\ run[r].at = "linking" /\ lock' = lock
        /\ \/ run' = [run EXCEPT ![r] = Past(r, f)]
           \/ run' = [run EXCEPT ![r] = Abandoned(r)]
           \/ run' = [run EXCEPT ![r].at = "pairs", ![r].txn = NoTxn, ![r].meta = FALSE]
    BY <1>3 DEF Link
  <2>. HIDE DEF f
  <2>2. run' = [run EXCEPT ![r].at = "pairs", ![r].txn = NoTxn, ![r].meta = FALSE]
        => run'[r].at = "pairs" /\ \A s \in Runs \ {r} : run'[s] = run[s]
    BY DEF Shape, RunRecord
  <2>. QED  BY <2>1, <2>2, PastTells, AbandonedTells
<1>4. CASE Pair(r)
  <2>. DEFINE f == run[r].feed
  <2>1. /\ run[r].at = "pairing" /\ lock' = lock
        /\ \/ run' = [run EXCEPT ![r] = Past(r, f)]
           \/ run' = [run EXCEPT ![r] = Abandoned(r)]
    BY <1>4 DEF Pair
  <2>. HIDE DEF f
  <2>. QED  BY <2>1, PastTells, AbandonedTells
<1>5. CASE Import(r) \/ ImportSkipped(r)
  <2>. DEFINE f == run[r].feed
  <2>1. run[r].at = "importing" /\ lock' = lock /\ run' = [run EXCEPT ![r] = Past(r, f)]
    BY <1>5 DEF Import, ImportSkipped
  <2>. HIDE DEF f
  <2>. QED  BY <2>1, PastTells
<1>6. CASE ImportFails(r)
  BY <1>6 DEF ImportFails, Past, Shape, RunRecord
<1>. QED  BY <1>1, <1>2, <1>3, <1>4, <1>5, <1>6, <1>10 DEF Work

\* The advisory lock of a connection is held by the run that works.
LEMMA LockStep ==
  ASSUME Shape, LockAgrees, [Next]_vars
  PROVE  LockAgrees'
<1>. USE SyncAssumption DEF LockAgrees
<1>1. ASSUME NEW r \in Runs, Fetch(r) PROVE LockAgrees'
  <2>1. /\ lock[ConnOf[r]] = NoRun /\ lock' = [lock EXCEPT ![ConnOf[r]] = r]
        /\ run'[r].at = "fetched" /\ \A s \in Runs \ {r} : run'[s] = run[s]
    BY <1>1 DEF Fetch, Shape, Off
  <2>. QED  BY <2>1
<1>2. ASSUME NEW r \in Runs, Work(r) \/ ImportFails(r), ~Finish(r) PROVE LockAgrees'
  BY <1>2, WorkTells
<1>3. ASSUME NEW r \in Runs, Finish(r) \/ Die(r) PROVE LockAgrees'
  <2>1. /\ run[r].at # "off" /\ lock' = [lock EXCEPT ![ConnOf[r]] = NoRun]
        /\ run'[r].at = "off" /\ \A s \in Runs \ {r} : run'[s] = run[s]
    BY <1>3 DEF Finish, Die, Release, Shape, Off
  <2>. QED  BY <2>1
<1>4. CASE UNCHANGED <<lock, run>>
  BY <1>4
<1>. QED  BY <1>1, <1>2, <1>3, <1>4 DEF Next, Work, Edit, Delete, Connect, Show, SetLockDate, Tick, vars

\* A run writes the id of the row in its hand into a column that holds none, of the
\* transaction in its hand or of a new one; a user's deletion keeps the ids.
LEMMA LinkTells ==
  ASSUME Shape, LedgerShaped, MetaAgrees, NEW r \in Runs, Has(r), Link(r) \/ Pair(r) \/ Import(r)
  PROVE  /\ run[r].feed \in Feeds /\ ~Known(run[r].feed) /\ UNCHANGED kept
         /\ \/ UNCHANGED <<ledger, meta>>
            \/ \E t \in Txns, m \in MetaRow :
                 /\ meta' = [meta EXCEPT ![t] = m] /\ m.there
                 /\ m.two # NoFeed => m.one # NoFeed
                 /\ \/ ledger' = ledger /\ ledger[t].status # "free"
                    \/ \E e \in [status : {"live"}, day : Days, legs : [Accounts -> Int]] :
                         ledger' = [ledger EXCEPT ![t] = e]
                 /\ \/ m.one = run[r].feed /\ meta[t].one = NoFeed /\ m.two = meta[t].two
                    \/ m.two = run[r].feed /\ meta[t].two = NoFeed /\ m.one = meta[t].one
                 /\ run' = [run EXCEPT ![r] = Past(r, run[r].feed)]
<1>1. run[r].at \in {"linking", "pairing", "importing"}
  BY DEF Link, Pair, Import
<1>2. run[r].feed \in Feeds /\ ~Known(run[r].feed) /\ NoFeed \notin Feeds
  BY <1>1, SyncAssumption DEF Has
<1>3. PICK f \in Feeds : f = run[r].feed
  BY <1>2
<1>4. PICK t : t = run[r].txn
  OBVIOUS
<1>5. NoMeta.one = NoFeed /\ NoMeta.two = NoFeed /\ ~NoMeta.there
  BY DEF NoMeta
<1>6. [there |-> TRUE, one |-> f, two |-> NoFeed] \in MetaRow
  <2>1. f \in Ids /\ NoFeed \in Ids
    BY IdFacts
  <2>. QED  BY <2>1, Zenon DEF MetaRow
<1>7. CASE Link(r)
  <2>1. run[r].at = "linking"
    BY <1>7 DEF Link
  <2>2. t \in Txns /\ ledger[t].status # "free" /\ meta[t].one = NoFeed /\ meta[t].two = NoFeed
    BY <1>4, <2>1 DEF Has, MetaAgrees
  <2>3. UNCHANGED <<ledger, kept>>
    BY <1>7 DEF Link
  <2>4. CASE UNCHANGED meta
    BY <1>2, <2>3, <2>4
  <2>5. CASE meta[t].there /\ meta' = [meta EXCEPT ![t].one = f] /\ run' = [run EXCEPT ![r] = Past(r, f)]
    <3>. DEFINE m == [meta[t] EXCEPT !.one = f]
    <3>1. meta[t] \in MetaRow /\ f \in Ids
      BY <2>2, IdFacts DEF Shape
    <3>2. m \in MetaRow /\ m.there /\ m.one = f /\ m.two = meta[t].two
      BY <2>5, <3>1 DEF MetaRow
    <3>3. meta' = [meta EXCEPT ![t] = m]
      BY <2>5
    <3>. HIDE DEF m
    <3>. QED  BY <1>2, <1>3, <2>2, <2>3, <2>5, <3>2, <3>3
  <2>6. CASE /\ meta' = [meta EXCEPT ![t] = [there |-> TRUE, one |-> f, two |-> NoFeed]]
             /\ run' = [run EXCEPT ![r] = Past(r, f)]
    <3>. DEFINE m == [there |-> TRUE, one |-> f, two |-> NoFeed]
    <3>1. m.there /\ m.one = f /\ m.two = NoFeed /\ m \in MetaRow
      BY <1>6
    <3>2. meta' = [meta EXCEPT ![t] = m]
      BY <2>6
    <3>. HIDE DEF m
    <3>. QED  BY <1>2, <1>3, <2>2, <2>3, <2>6, <3>1, <3>2
  <2>. QED  BY <1>3, <1>4, <1>7, <2>4, <2>5, <2>6 DEF Link
<1>8. CASE Pair(r)
  <2>1. run[r].at = "pairing" /\ UNCHANGED <<ledger, kept>>
    BY <1>8 DEF Pair
  <2>2. /\ t \in Txns /\ ledger[t].status # "free"
        /\ meta[t].there => meta[t].one # NoFeed /\ meta[t].two = NoFeed
    BY <1>4, <2>1 DEF Has
  <2>3. CASE UNCHANGED meta
    BY <1>2, <2>1, <2>3
  <2>4. CASE meta[t].there /\ meta' = [meta EXCEPT ![t].two = f] /\ run' = [run EXCEPT ![r] = Past(r, f)]
    <3>. DEFINE m == [meta[t] EXCEPT !.two = f]
    <3>1. meta[t] \in MetaRow /\ f \in Ids
      BY <2>2, IdFacts DEF Shape
    <3>2. m \in MetaRow /\ m.there /\ m.two = f /\ m.one = meta[t].one
      BY <2>4, <3>1 DEF MetaRow
    <3>3. meta' = [meta EXCEPT ![t] = m]
      BY <2>4
    <3>. HIDE DEF m
    <3>. QED  BY <1>2, <1>3, <2>1, <2>2, <2>4, <3>2, <3>3
  <2>. QED  BY <1>3, <1>4, <1>8, <2>3, <2>4 DEF Pair
<1>9. CASE Import(r)
  <2>1. PICK u \in Txns, g \in Guesses \ {AccountOf[f]} :
          /\ ledger[u].status = "free"
          /\ ledger' = [ledger EXCEPT ![u] = [status |-> "live", day |-> DayOf[f],
               legs |-> [Flat EXCEPT ![AccountOf[f]] = AmountOf[f], ![g] = -AmountOf[f]]]]
          /\ meta' = [meta EXCEPT ![u] = [there |-> TRUE, one |-> f, two |-> NoFeed]]
          /\ run' = [run EXCEPT ![r] = Past(r, f)] /\ kept' = kept
    BY <1>3, <1>9 DEF Import
  <2>. DEFINE m == [there |-> TRUE, one |-> f, two |-> NoFeed]
              legs == [Flat EXCEPT ![AccountOf[f]] = AmountOf[f], ![g] = -AmountOf[f]]
              e == [status |-> "live", day |-> DayOf[f], legs |-> legs]
  <2>2. legs \in [Accounts -> Int]
    BY SyncAssumption DEF Flat
  <2>3. e \in [status : {"live"}, day : Days, legs : [Accounts -> Int]]
    <3>. HIDE DEF legs
    <3>. QED  BY <2>2, SyncAssumption
  <2>4. m.there /\ m.one = f /\ m.two = NoFeed /\ m \in MetaRow
    BY <1>6
  <2>5. meta[u].one = NoFeed /\ meta[u].two = NoFeed
    BY <1>5, <2>1 DEF MetaAgrees
  <2>6. meta' = [meta EXCEPT ![u] = m] /\ ledger' = [ledger EXCEPT ![u] = e]
        /\ run' = [run EXCEPT ![r] = Past(r, f)] /\ kept' = kept
    BY <2>1
  <2>. HIDE DEF m, e
  <2>. QED  BY <1>2, <1>3, <2>3, <2>4, <2>5, <2>6
<1>. QED  BY <1>7, <1>8, <1>9

\* The ledger keeps its types, and a meta row that is not there holds nothing.
LEMMA LedgerStep ==
  ASSUME Shape, LedgerShaped, MetaAgrees, KnowsItsRows, [Next]_vars
  PROVE  LedgerShaped' /\ MetaAgrees'
<1>0. NoMeta.one = NoFeed /\ NoMeta.two = NoFeed
  BY DEF NoMeta
<1>1. CASE UNCHANGED <<ledger, meta>>
  BY <1>1 DEF LedgerShaped, MetaAgrees
<1>2. ASSUME NEW r \in Runs, Link(r) \/ Pair(r) \/ Import(r) PROVE LedgerShaped' /\ MetaAgrees'
  <2>1. CASE UNCHANGED <<ledger, meta>>
    BY <1>1, <2>1
  <2>2. CASE ~UNCHANGED <<ledger, meta>>
    <3>1. PICK t \in Txns, m \in MetaRow :
            /\ meta' = [meta EXCEPT ![t] = m] /\ m.there
            /\ m.two # NoFeed => m.one # NoFeed
            /\ \/ ledger' = ledger /\ ledger[t].status # "free"
               \/ \E e \in [status : {"live"}, day : Days, legs : [Accounts -> Int]] :
                    ledger' = [ledger EXCEPT ![t] = e]
      BY <1>2, <2>2, LinkTells DEF KnowsItsRows
    <3>2. meta'[t] = m /\ \A u \in Txns \ {t} : meta'[u] = meta[u]
      BY <3>1 DEF Shape
    <3>3. CASE ledger' = ledger /\ ledger[t].status # "free"
      BY <3>1, <3>2, <3>3 DEF LedgerShaped, MetaAgrees
    <3>4. ASSUME NEW e \in [status : {"live"}, day : Days, legs : [Accounts -> Int]],
                 ledger' = [ledger EXCEPT ![t] = e]
          PROVE  LedgerShaped' /\ MetaAgrees'
      <4>1. e.status = "live" /\ e.day \in Days /\ e.legs \in [Accounts -> Int]
            /\ e = [status |-> e.status, day |-> e.day, legs |-> e.legs]
        OBVIOUS
      <4>2. e \in [status : {"free", "live", "deleted"}, day : Days, legs : [Accounts -> Int]]
        BY <4>1
      <4>3. LedgerShaped'
        BY <3>4, <4>2 DEF LedgerShaped
      <4>4. ledger'[t].status = "live" /\ \A u \in Txns \ {t} : ledger'[u] = ledger[u]
        BY <3>4, <4>1 DEF LedgerShaped
      <4>. QED  BY <3>1, <3>2, <4>3, <4>4 DEF MetaAgrees
    <3>. QED  BY <3>1, <3>3, <3>4
  <2>. QED  BY <2>1, <2>2
<1>3. ASSUME NEW t \in Txns, Edit(t) PROVE LedgerShaped' /\ MetaAgrees'
  <2>. DEFINE legs == [a \in Accounts |-> 2 * ledger[t].legs[a]]
  <2>1. legs \in [Accounts -> Int]
    BY DEF LedgerShaped
  <2>2. ledger' = [ledger EXCEPT ![t].legs = legs] /\ meta' = meta
    BY <1>3 DEF Edit
  <2>. HIDE DEF legs
  <2>3. LedgerShaped' /\ \A u \in Txns : ledger'[u].status = ledger[u].status
    BY <2>1, <2>2 DEF LedgerShaped
  <2>. QED  BY <2>2, <2>3 DEF MetaAgrees
<1>4. ASSUME NEW t \in Txns, Delete(t) PROVE LedgerShaped' /\ MetaAgrees'
  <2>1. ledger' = [ledger EXCEPT ![t].status = "deleted"] /\ meta' = [meta EXCEPT ![t] = NoMeta]
    BY <1>4 DEF Delete
  <2>2. LedgerShaped' /\ \A u \in Txns \ {t} : ledger'[u] = ledger[u]
    BY <2>1 DEF LedgerShaped
  <2>3. meta'[t] = NoMeta /\ \A u \in Txns \ {t} : meta'[u] = meta[u]
    BY <2>1, SMTT(40) DEF Shape
  <2>. QED  BY <1>0, <2>2, <2>3 DEF MetaAgrees
<1>. QED  BY <1>1, <1>2, <1>3, <1>4, ZenonT(60) DEF Next, Work, vars, data, Fetch, Load, BeginAccount, Skip,
     FindManual, FindTransfer, ImportSkipped, ImportFails, EndAccount, Finish, Die, Release, Connect, Show,
     SetLockDate, Tick

\* What is recorded stays recorded, once.
LEMMA RecordsStep ==
  ASSUME Shape, LedgerShaped, MetaAgrees, KnowsItsRows, RecordedOnce, [Next]_vars
  PROVE  RecordedOnce' /\ StaysKnown
<1>1. CASE UNCHANGED <<meta, kept>>
  BY <1>1 DEF RecordedOnce, StaysKnown, Known, Holders
<1>2. ASSUME NEW r \in Runs, Link(r) \/ Pair(r) \/ Import(r) PROVE RecordedOnce' /\ StaysKnown
  <2>1. run[r].feed \in Feeds /\ ~Known(run[r].feed) /\ UNCHANGED kept
    BY <1>2, LinkTells DEF KnowsItsRows
  <2>2. CASE UNCHANGED meta
    BY <1>1, <2>1, <2>2
  <2>3. CASE ~UNCHANGED meta
    <3>. DEFINE f == run[r].feed
    <3>1. PICK t \in Txns, m \in MetaRow :
            /\ meta' = [meta EXCEPT ![t] = m]
            /\ \/ m.one = f /\ meta[t].one = NoFeed /\ m.two = meta[t].two
               \/ m.two = f /\ meta[t].two = NoFeed /\ m.one = meta[t].one
      BY <1>2, <2>3, LinkTells DEF KnowsItsRows
    <3>. HIDE DEF f
    <3>2. f \in Feeds /\ ~Known(f)
      BY <2>1 DEF f
    <3>. QED  BY <2>1, <3>1, <3>2, MetaGains DEF StaysKnown
  <2>. QED  BY <2>2, <2>3
<1>3. ASSUME NEW t \in Txns, Delete(t) PROVE RecordedOnce' /\ StaysKnown
  BY <1>3, MetaMoves DEF StaysKnown
<1>. QED  BY <1>1, <1>2, <1>3 DEF Next, Work, vars, data, Fetch, Load, BeginAccount, Skip,
     FindManual, FindTransfer, ImportSkipped, ImportFails, EndAccount, Finish, Die, Release, Edit,
     Connect, Show, SetLockDate, Tick

\* Steps of a run that record nothing: what it knows and has in hand stays right.
LEMMA QuietStep ==
  ASSUME Shape, NEW r \in Runs, Knows(r), Has(r), UNCHANGED <<meta, kept, ledger>>,
         \/ Load(r) \/ BeginAccount(r) \/ Skip(r) \/ FindManual(r) \/ FindTransfer(r)
         \/ Link(r) \/ Pair(r) \/ ImportSkipped(r) \/ ImportFails(r) \/ EndAccount(r)
  PROVE  Knows(r)' /\ Has(r)'
<1>0. /\ \A g : Known(g)' <=> Known(g)
      /\ run \in [Runs -> RunRecord] /\ run[r].todo \subseteq Feeds
  BY DEF Known, Holders, Shape, RunRecord
<1>1. CASE Load(r)
  BY <1>0, <1>1 DEF Load, Knows, Has, RunRecord
<1>2. CASE BeginAccount(r) \/ EndAccount(r)
  <2>1. run'[r].at \in {"rows", "accounts"} /\ run'[r].todo = run[r].todo /\ run'[r].known = run[r].known
        /\ run[r].at \in {"rows", "accounts"}
    <3>1. CASE EndAccount(r)
      BY <1>0, <3>1 DEF EndAccount, RunRecord
    <3>2. CASE BeginAccount(r)
      <4>1. PICK a : run' = [run EXCEPT ![r].at = "rows", ![r].acct = a, ![r].open = run[r].open \ {a}]
        BY <3>2 DEF BeginAccount
      <4>2. run[r].at = "accounts"
        BY <3>2 DEF BeginAccount
      <4>3. /\ run'[r].at = "rows" /\ run'[r].todo = run[r].todo /\ run'[r].known = run[r].known
        BY <1>0, <4>1 DEF RunRecord
      <4>. QED  BY <4>2, <4>3
    <3>. QED  BY <1>2, <3>1, <3>2
  <2>. QED  BY <1>0, <2>1 DEF Knows, Has
<1>3. CASE Skip(r)
  <2>1. /\ run'[r].at = "rows" /\ run'[r].todo \subseteq run[r].todo /\ run'[r].known = run[r].known
        /\ run[r].at = "rows"
    BY <1>0, <1>3 DEF Skip, RunRecord
  <2>. QED  BY <1>0, <2>1 DEF Knows, Has
<1>4. CASE FindManual(r)
  <2>1. run[r].at = "rows"
    BY <1>4 DEF FindManual
  <2>2. PICK f \in Rows(r) :
          /\ f \notin run[r].known
          /\ \/ \E t \in ManualMatches(f) :
                  run' = [run EXCEPT ![r].at = "linking", ![r].feed = f, ![r].txn = t,
                                     ![r].meta = meta[t].there]
             \/ run' = [run EXCEPT ![r].at = "pairs", ![r].feed = f]
    BY <1>4 DEF FindManual
  <2>3. f \in Feeds /\ ~Known(f)
    BY <1>0, <2>1, <2>2 DEF Knows, Rows
  <2>4. CASE run' = [run EXCEPT ![r].at = "pairs", ![r].feed = f]
    <3>1. /\ run'[r].at = "pairs" /\ run'[r].feed = f /\ run'[r].todo = run[r].todo
          /\ run'[r].known = run[r].known
      BY <1>0, <2>4 DEF RunRecord
    <3>. QED  BY <1>0, <2>1, <2>3, <3>1 DEF Knows, Has
  <2>5. CASE \E t \in ManualMatches(f) :
               run' = [run EXCEPT ![r].at = "linking", ![r].feed = f, ![r].txn = t,
                                  ![r].meta = meta[t].there]
    <3>1. PICK t \in ManualMatches(f) :
               run' = [run EXCEPT ![r].at = "linking", ![r].feed = f, ![r].txn = t,
                                  ![r].meta = meta[t].there]
      BY <2>5
    <3>2. /\ run'[r].at = "linking" /\ run'[r].feed = f /\ run'[r].txn = t
          /\ run'[r].todo = run[r].todo /\ run'[r].known = run[r].known
      BY <1>0, <3>1 DEF RunRecord
    <3>3. t \in Txns /\ ledger[t].status = "live" /\ meta[t].one = NoFeed
      BY DEF ManualMatches, Nearest, Live
    <3>. QED  BY <1>0, <2>1, <2>3, <3>2, <3>3 DEF Knows, Has
  <2>. QED  BY <2>2, <2>4, <2>5
<1>5. CASE FindTransfer(r)
  <2>. DEFINE S == TransferMatches(ConnOf[r], run[r].feed)
  <2>1. /\ run[r].at = "pairs"
        /\ \/ \E t \in S : run' = [run EXCEPT ![r].at = "pairing", ![r].txn = t]
           \/ run' = [run EXCEPT ![r].at = "importing"]
    BY <1>5 DEF FindTransfer
  <2>2. \A t \in S : /\ t \in Txns /\ ledger[t].status = "live"
                     /\ meta[t].one # NoFeed /\ meta[t].two = NoFeed
    BY DEF TransferMatches, Nearest, Live
  <2>. HIDE DEF S
  <2>3. CASE run' = [run EXCEPT ![r].at = "importing"]
    <3>1. /\ run'[r].at = "importing" /\ run'[r].feed = run[r].feed /\ run'[r].todo = run[r].todo
          /\ run'[r].known = run[r].known
      BY <1>0, <2>3 DEF RunRecord
    <3>. QED  BY <1>0, <2>1, <3>1 DEF Knows, Has
  <2>4. ASSUME NEW t \in S, run' = [run EXCEPT ![r].at = "pairing", ![r].txn = t]
        PROVE  Knows(r)' /\ Has(r)'
    <3>1. /\ run'[r].at = "pairing" /\ run'[r].feed = run[r].feed /\ run'[r].txn = t
          /\ run'[r].todo = run[r].todo /\ run'[r].known = run[r].known
      BY <1>0, <2>4 DEF RunRecord
    <3>. QED  BY <1>0, <2>1, <2>2, <3>1 DEF Knows, Has
  <2>. QED  BY <2>1, <2>3, <2>4
<1>6. CASE Link(r) \/ Pair(r) \/ ImportSkipped(r)
  <2>. DEFINE f == run[r].feed
  <2>1. run[r].at \in {"linking", "pairing", "importing"}
    BY <1>6 DEF Link, Pair, ImportSkipped
  <2>2. \/ run' = [run EXCEPT ![r] = Past(r, f)]
        \/ run' = [run EXCEPT ![r] = Abandoned(r)]
        \/ run' = [run EXCEPT ![r].at = "pairs", ![r].txn = NoTxn, ![r].meta = FALSE]
    BY <1>6 DEF Link, Pair, ImportSkipped
  <2>. HIDE DEF f
  <2>3. CASE run' = [run EXCEPT ![r] = Past(r, f)]
    <3>1. /\ run'[r].at = "rows" /\ run'[r].todo = run[r].todo \ {f}
          /\ run'[r].known = run[r].known \cup {f}
      BY <2>3, PastTells
    <3>. QED  BY <1>0, <2>1, <3>1 DEF Knows, Has
  <2>4. CASE run' = [run EXCEPT ![r] = Abandoned(r)]
    <3>1. /\ run'[r].at = "accounts" /\ run'[r].todo \subseteq run[r].todo
          /\ run'[r].known = run[r].known
      BY <2>4, AbandonedTells
    <3>. QED  BY <1>0, <2>1, <3>1 DEF Knows, Has
  <2>5. CASE run' = [run EXCEPT ![r].at = "pairs", ![r].txn = NoTxn, ![r].meta = FALSE]
    <3>1. /\ run'[r].at = "pairs" /\ run'[r].feed = run[r].feed /\ run'[r].todo = run[r].todo
          /\ run'[r].known = run[r].known
      BY <1>0, <2>5 DEF RunRecord
    <3>. QED  BY <1>0, <2>1, <3>1 DEF Knows, Has
  <2>. QED  BY <2>2, <2>3, <2>4, <2>5
<1>7. CASE ImportFails(r)
  <2>1. /\ run[r].at = "importing" /\ run'[r].at = "rows" /\ run'[r].todo \subseteq run[r].todo
        /\ run'[r].known = run[r].known
    BY <1>0, <1>7 DEF ImportFails, Past, RunRecord
  <2>. QED  BY <1>0, <2>1 DEF Knows, Has
<1>. QED  BY <1>1, <1>2, <1>3, <1>4, <1>5, <1>6, <1>7

\* A step that records the row in hand: the run knows that row from then on.
LEMMA RecordingStep ==
  ASSUME Shape, LedgerShaped, MetaAgrees, RecordedOnce, NEW r \in Runs, Knows(r), Has(r),
         Link(r) \/ Pair(r) \/ Import(r), ~UNCHANGED <<ledger, meta>>
  PROVE  Knows(r)' /\ Has(r)'
<1>. DEFINE f == run[r].feed
<1>1. PICK t \in Txns, m \in MetaRow :
        /\ meta' = [meta EXCEPT ![t] = m] /\ f \in Feeds /\ ~Known(f) /\ UNCHANGED kept
        /\ \/ m.one = f /\ meta[t].one = NoFeed /\ m.two = meta[t].two
           \/ m.two = f /\ meta[t].two = NoFeed /\ m.one = meta[t].one
        /\ run' = [run EXCEPT ![r] = Past(r, f)]
  BY LinkTells
<1>2. run[r].at \in {"linking", "pairing", "importing"} /\ run[r].todo \subseteq Feeds
  BY DEF Link, Pair, Import, Shape, RunRecord
<1>. HIDE DEF f
<1>3. \A g \in Feeds : Known(g)' <=> Known(g) \/ g = f
  BY <1>1, MetaGains
<1>4. /\ run'[r].at = "rows" /\ run'[r].todo = run[r].todo \ {f}
      /\ run'[r].known = run[r].known \cup {f}
  BY <1>1, PastTells
<1>. QED  BY <1>2, <1>3, <1>4 DEF Knows, Has

\* The runs know their rows, as long as those of one connection alone work.
LEMMA RowsStep ==
  ASSUME NEW c \in Conns, Only(c), Only(c)', Shape, LedgerShaped, MetaAgrees, LockAgrees,
         KnowsItsRows, RecordedOnce, [Next]_vars
  PROVE  KnowsItsRows'
<1>1. ASSUME NEW r \in Runs, Fetch(r) PROVE KnowsItsRows'
  <2>1. /\ run'[r].at = "fetched" /\ lock[ConnOf[r]] = NoRun
        /\ \A s \in Runs \ {r} : run'[s] = run[s]
    BY <1>1 DEF Fetch, Off, Shape
  <2>2. ConnOf[r] = c
    BY <2>1 DEF Only
  <2>3. Knows(r)' /\ Has(r)'
    BY <2>1 DEF Knows, Has
  <2>. QED  BY <2>1, <2>2, <2>3, OwnSuffices
<1>2. ASSUME NEW r \in Runs, Finish(r) \/ Die(r) PROVE KnowsItsRows'
  <2>1. run[r].at # "off" /\ run'[r].at = "off" /\ \A s \in Runs \ {r} : run'[s] = run[s]
    BY <1>2 DEF Finish, Die, Release, Off, Shape
  <2>2. Knows(r)' /\ Has(r)'
    BY <2>1 DEF Knows, Has
  <2>. QED  BY <2>1, <2>2, OwnSuffices
<1>3. ASSUME NEW r \in Runs, Work(r) \/ ImportFails(r), ~Finish(r) PROVE KnowsItsRows'
  <2>1. /\ run[r].at # "off" /\ \A s \in Runs \ {r} : run'[s] = run[s]
    BY <1>3, WorkTells
  <2>2. Knows(r) /\ Has(r)
    BY DEF KnowsItsRows
  <2>3. Knows(r)' /\ Has(r)'
    <3>1. CASE (Link(r) \/ Pair(r) \/ Import(r)) /\ ~UNCHANGED <<ledger, meta>>
      BY <2>2, <3>1, RecordingStep
    <3>2. CASE Import(r) /\ UNCHANGED <<ledger, meta>>
      <4>1. run[r].feed \in Feeds /\ ~Known(run[r].feed) /\ NoFeed \notin Feeds
        BY <2>2, <3>2, LinkTells, SyncAssumption
      <4>2. PICK t \in Txns : meta' = [meta EXCEPT ![t] = [there |-> TRUE, one |-> run[r].feed, two |-> NoFeed]]
        BY <3>2 DEF Import
      <4>3. meta'[t].one = run[r].feed
        BY <4>2 DEF Shape
      <4>. QED  BY <3>2, <4>1, <4>3, KnownIs
    <3>3. CASE (Link(r) \/ Pair(r)) /\ UNCHANGED <<ledger, meta>>
      <4>1. UNCHANGED kept
        BY <3>3 DEF Link, Pair
      <4>. QED  BY <2>2, <3>3, <4>1, QuietStep
    <3>4. CASE \/ Load(r) \/ BeginAccount(r) \/ Skip(r) \/ FindManual(r) \/ FindTransfer(r)
               \/ ImportSkipped(r) \/ ImportFails(r) \/ EndAccount(r)
      <4>1. UNCHANGED <<meta, kept, ledger>>
        BY <3>4 DEF Load, BeginAccount, Skip, FindManual, FindTransfer, ImportSkipped, ImportFails,
                    EndAccount, data
      <4>. QED  BY <2>2, <3>4, <4>1, QuietStep
    <3>. QED  BY <1>3, <3>1, <3>2, <3>3, <3>4 DEF Work
  <2>. QED  BY <2>1, <2>3, OwnSuffices
<1>4. CASE UNCHANGED <<run, meta, kept, ledger>>
  <2>1. \A g : Known(g)' <=> Known(g)
    BY <1>4 DEF Known, Holders
  <2>. QED  BY <1>4, <2>1 DEF KnowsItsRows, Knows, Has
<1>5. ASSUME NEW u \in Txns, Edit(u) PROVE KnowsItsRows'
  <2>1. /\ UNCHANGED <<run, meta, kept>> /\ \A t \in Txns : ledger'[t].status = ledger[t].status
    BY <1>5 DEF Edit, LedgerShaped
  <2>2. \A g : Known(g)' <=> Known(g)
    BY <2>1 DEF Known, Holders
  <2>. QED  BY <2>1, <2>2 DEF KnowsItsRows, Knows, Has
<1>6. ASSUME NEW u \in Txns, Delete(u) PROVE KnowsItsRows'
  <2>1. /\ \A g \in Feeds : Known(g)' <=> Known(g)
        /\ meta'[u] = NoMeta /\ \A t \in Txns \ {u} : meta'[t] = meta[t]
    BY <1>6, MetaMoves
  <2>2. /\ run' = run /\ ledger'[u].status = "deleted"
        /\ \A t \in Txns \ {u} : ledger'[t] = ledger[t]
    BY <1>6 DEF Delete, LedgerShaped
  <2>3. NoMeta.one = NoFeed /\ ~NoMeta.there
    BY DEF NoMeta
  <2>4. ASSUME NEW r \in Runs PROVE Knows(r)' /\ Has(r)'
    <3>1. Knows(r) /\ Has(r) /\ run[r].todo \subseteq Feeds
      BY DEF KnowsItsRows, Shape, RunRecord
    <3>2. Knows(r)'
      BY <2>1, <2>2, <3>1 DEF Knows
    <3>3. Has(r)'
      BY <2>1, <2>2, <2>3, <3>1 DEF Has
    <3>. QED  BY <3>2, <3>3
  <2>. QED  BY <2>4 DEF KnowsItsRows
<1>. QED  BY <1>1, <1>2, <1>3, <1>4, <1>5, <1>6 DEF Next, Work, vars, data, Connect, Show, SetLockDate, Tick

\* No row is recorded when the syncs start.
LEMMA FeedStart == Init => FeedInv
<1>. SUFFICES ASSUME Init PROVE FeedInv
  OBVIOUS
<1>. USE SyncAssumption
<1>1. Shape
  BY ShapeInit
<1>2. LedgerShaped
  BY DEF Init, LedgerShaped, Flat, Days
<1>3. /\ NoMeta.one = NoFeed /\ NoMeta.two = NoFeed
      /\ kept = {} /\ \A t \in Txns : meta[t].one = NoFeed /\ meta[t].two = NoFeed
  BY DEF Init, NoMeta
<1>4. MetaAgrees
  <2>1. ASSUME NEW t \in Txns, ~meta[t].there PROVE meta[t] = NoMeta
    <3>1. meta[t] = [NoMeta EXCEPT !.there = t \in DOMAIN Entered /\ Entered[t].meta]
      BY DEF Init
    <3>. QED  BY <2>1, <3>1 DEF NoMeta
  <2>2. ASSUME NEW t \in Txns, ledger[t].status = "free" PROVE ~meta[t].there
    BY <2>2 DEF Init, NoMeta
  <2>. QED  BY <1>3, <2>1, <2>2 DEF MetaAgrees
<1>5. LockAgrees
  BY DEF Init, LockAgrees, Off
<1>6. KnowsItsRows
  BY DEF Init, KnowsItsRows, Knows, Has, Off
<1>7. RecordedOnce
  BY <1>3 DEF RecordedOnce
<1>. QED  BY <1>1, <1>2, <1>4, <1>5, <1>6, <1>7 DEF FeedInv

\* A row that no two columns hold is held once.
LEMMA OnceHeld == RecordedOnce => FeedOnce
<1>. SUFFICES ASSUME RecordedOnce, NEW f \in Feeds PROVE Cardinality(Holders(f)) <= 1
  BY DEF FeedOnce
<1>1. \A x, y \in Holders(f) : x = y
  BY DEF Holders, RecordedOnce
<1>2. CASE Holders(f) = {}
  BY <1>2, FS_EmptySet
<1>3. ASSUME NEW x \in Holders(f) PROVE Cardinality(Holders(f)) <= 1
  <2>1. Holders(f) = {x}
    BY <1>1
  <2>. QED  BY <2>1, FS_Singleton, SMTT(40)
<1>. QED  BY <1>2, <1>3

\* Runs work for connections that have been set up.
LEMMA ConnectedStep ==
  ASSUME Shape, ConnectedRuns, [Next]_vars
  PROVE  ConnectedRuns' /\ conns \subseteq conns'
<1>1. ASSUME NEW r \in Runs, Fetch(r) PROVE ConnectedRuns' /\ conns \subseteq conns'
  BY <1>1 DEF Fetch, ConnectedRuns, Shape
<1>2. ASSUME NEW r \in Runs, Finish(r) \/ Die(r) PROVE ConnectedRuns' /\ conns \subseteq conns'
  BY <1>2 DEF Finish, Die, Release, Off, ConnectedRuns, Shape
<1>3. ASSUME NEW r \in Runs, Work(r) \/ ImportFails(r), ~Finish(r)
      PROVE  ConnectedRuns' /\ conns \subseteq conns'
  <2>1. run[r].at # "off" /\ \A s \in Runs \ {r} : run'[s] = run[s]
    BY <1>3, WorkTells
  <2>2. UNCHANGED conns
    BY <1>3 DEF Work, Load, BeginAccount, Skip, FindManual, Link, FindTransfer, Pair, Import,
                ImportSkipped, ImportFails, EndAccount
  <2>. QED  BY <2>1, <2>2 DEF ConnectedRuns
<1>4. CASE UNCHANGED run /\ conns \subseteq conns'
  BY <1>4 DEF ConnectedRuns
<1>. QED
  BY <1>1, <1>2, <1>3, <1>4 DEF Next, Work, vars, data, Connect, Show, SetLockDate, Tick, Edit, Delete

\* The runs of a book with one connection are all its own, before a step and after it.
LEMMA AloneTells ==
  ASSUME Shape', ConnectedRuns, ConnectedRuns', conns \subseteq conns', Alone', NEW r \in Runs
  PROVE  Alone /\ \E c \in Conns : Only(c) /\ Only(c)'
<1>1. Alone
  BY DEF Alone
<1>2. CASE conns' = {}
  <2>1. ConnOf[r] \in Conns
    BY SyncAssumption
  <2>2. Only(ConnOf[r]) /\ Only(ConnOf[r])'
    BY <1>2 DEF Only, ConnectedRuns
  <2>. QED  BY <1>1, <2>1, <2>2
<1>3. ASSUME NEW c \in conns' PROVE c \in Conns /\ Only(c) /\ Only(c)'
  BY <1>3 DEF Only, ConnectedRuns, Alone, Shape
<1>. QED  BY <1>1, <1>2, <1>3

\* A step of a book with one connection.
LEMMA FeedStep ==
  ASSUME FeedInv, ConnectedRuns, Alone', [Next]_vars
  PROVE  FeedInv'
<1>1. Shape'
  BY ShapeStep DEF FeedInv
<1>2. LedgerShaped' /\ MetaAgrees'
  BY LedgerStep DEF FeedInv
<1>3. LockAgrees'
  BY LockStep DEF FeedInv
<1>4. KnowsItsRows'
  <2>1. ASSUME NEW r \in Runs PROVE KnowsItsRows'
    <3>1. PICK c \in Conns : Only(c) /\ Only(c)'
      BY <1>1, ConnectedStep, AloneTells DEF FeedInv
    <3>. QED  BY <3>1, RowsStep DEF FeedInv
  <2>. QED  BY <2>1 DEF KnowsItsRows
<1>5. RecordedOnce'
  BY RecordsStep DEF FeedInv
<1>. QED  BY <1>1, <1>2, <1>3, <1>4, <1>5 DEF FeedInv

\* The inductive invariant of a book with one connection: the advisory lock makes its
\* syncs take turns, and a sync knows of each of its rows whether it is recorded.
THEOREM FeedInvariant == Spec => [](Shape /\ ConnectedRuns /\ (Alone => FeedInv))
<1>1. Init => Shape /\ ConnectedRuns /\ (Alone => FeedInv)
  BY ShapeInit, FeedStart DEF Init, ConnectedRuns, Off
<1>2. Shape /\ ConnectedRuns /\ (Alone => FeedInv) /\ [Next]_vars
        => (Shape /\ ConnectedRuns /\ (Alone => FeedInv))'
  <2>. SUFFICES ASSUME Shape, ConnectedRuns, Alone => FeedInv, [Next]_vars
                PROVE  (Shape /\ ConnectedRuns /\ (Alone => FeedInv))'
    OBVIOUS
  <2>1. Shape' /\ ConnectedRuns' /\ conns \subseteq conns'
    BY ShapeStep, ConnectedStep
  <2>2. ASSUME Alone' PROVE FeedInv'
    BY <2>1, <2>2, FeedStep DEF Alone
  <2>. QED  BY <2>1, <2>2
<1>. QED  BY <1>1, <1>2, PTL DEF Spec

\* While a book has one connection, its syncs import or link a row of the bank once,
\* however they die and the user edits and deletes.
THEOREM FeedsOnce == Spec => []FeedOnceAlone
<1>1. (Alone => FeedInv) => FeedOnceAlone
  BY OnceHeld DEF FeedInv, FeedOnceAlone
<1>. QED  BY <1>1, FeedInvariant, PTL

\* And it stays recorded, a deletion keeps the meta row with the id: what the
\* connection has recorded, a later run does not import again.
THEOREM KnownStays == Spec => KnownStaysAlone
<1>1. (Alone => FeedInv) /\ [Next]_vars => [Alone => StaysKnown]_vars
  BY RecordsStep DEF FeedInv
<1>. QED  BY <1>1, FeedInvariant, PTL DEF Spec, KnownStaysAlone
==============================================================================
