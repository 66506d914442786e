------------------------------ MODULE AccountTree ------------------------------
(***************************************************************************)
(* The account tree and the locks of those who change it: AccountService   *)
(* (create, update, move, delete) and addTemplateAccounts (graft).  Locks  *)
(* come in three levels: the advisory lock of the book, row locks, and the *)
(* advisory lock of a sibling name, that is of a (parent, name).           *)
(*                                                                         *)
(* A transaction's writes become visible at its commit, which is its last  *)
(* step; every read sees what is committed by then (READ COMMITTED).       *)
(***************************************************************************)
EXTENDS Integers, Sequences

CONSTANTS
    Guids, Root, Names,
    Reqs, New,          \* New[q][i]: the guid q generates for its i-th key
    Ops,                \* what a client may ask for
    InitTree,
    ForeignKey,         \* accounts.parent_guid has its constraint (the database
                        \*   was made from the Prisma schema)
    MaxAttempts,        \* of withAdoptionRetry
    NoParent, NoReq, Same

Key == [parent : Guids, name : Names, leaf : BOOLEAN]
Request == [kind : {"create", "update", "move", "delete", "graft"},
            acct : Guids, parent : Guids \cup {NoParent, Same}, name : Names \cup {Same},
            keys : Seq(Key), promotes : SUBSET Guids]

ASSUME TreeAssumption ==
    /\ Root \in Guids /\ NoParent \notin Guids /\ NoReq \notin Reqs
    /\ Same \notin Guids \cup Names \cup {NoParent}
    /\ ForeignKey \in BOOLEAN /\ MaxAttempts \in Nat
    /\ Ops \subseteq Request
    \* a move has a new parent, or is to the top
    /\ \A o \in Ops : (o.kind = "move") => o.parent # Same
    /\ New \in [Reqs -> Seq(Guids)]
    \* generateGuid: never the same, and never one of the tree
    /\ \A q, r \in Reqs : \A i \in DOMAIN New[q], j \in DOMAIN New[r] :
          New[q][i] = New[r][j] => q = r /\ i = j
    /\ \A q \in Reqs : \A i \in DOMAIN New[q] : ~InitTree[New[q][i]].live
    /\ \A o \in Ops, q \in Reqs : Len(o.keys) <= Len(New[q])
    \* the keys of a template are different nodes
    /\ \A o \in Ops : \A i, j \in DOMAIN o.keys :
          o.keys[i].parent = o.keys[j].parent /\ o.keys[i].name = o.keys[j].name => i = j
    /\ InitTree \in [Guids -> [live : BOOLEAN, name : Names, parent : Guids \cup {NoParent}]]
    \* a tree to begin with has its names once
    /\ \A g, h \in Guids : (/\ InitTree[g].live /\ InitTree[h].live
                            /\ InitTree[g].parent = InitTree[h].parent
                            /\ InitTree[g].parent \in Guids
                            /\ InitTree[g].name = InitTree[h].name) => g = h
    \* and is one: the book's top is at the top, parents are there, and nobody is
    \* below itself
    /\ InitTree[Root].live /\ InitTree[Root].parent = NoParent
    /\ \A g \in Guids : InitTree[g].parent \in Guids => InitTree[InitTree[g].parent].live
    /\ \A S \in (SUBSET Guids) \ {{}} : \E g \in S : InitTree[g].parent \notin S

VARIABLES
    acct,
    book,       \* advisory locks by the guid of a tree's top, and by sibling name
    name,
    row,        \* the request that locked a row: exclusively, or for a graft's UPDATE
    share,      \* those with FOR KEY SHARE on it: a child refers to it
    pc, op,
    top,        \* per request: the top resolved, what lockAccountKey read,
    cur,        \*   the keys to insert, the one claimed last, those inserted,
    todo, at, made, try     \*   the attempt

locks == <<book, name, row, share>>
plan == <<op, top, cur, todo, at, made, try>>
vars == <<acct, locks, pc, plan>>

None == [kind |-> "none", acct |-> Root, parent |-> Same, name |-> Same, keys |-> <<>>,
         promotes |-> {}]
Row == [live : BOOLEAN, name : Names, parent : Guids \cup {NoParent}]
Pcs == {"ask", "asked", "resolved", "booked", "rowed", "valid", "claimed", "inserted", "done"}
Owner == Reqs \cup {NoReq}

TypeOK ==
    /\ acct \in [Guids -> Row]
    /\ book \in [Guids -> Owner] /\ row \in [Guids -> Owner]
    /\ name \in [Guids \X Names -> Owner]
    /\ share \in [Guids -> SUBSET Reqs]
    /\ pc \in [Reqs -> Pcs]
    /\ op \in [Reqs -> Ops \cup {None}]
    /\ top \in [Reqs -> Guids] /\ cur \in [Reqs -> Row]
    /\ todo \in [Reqs -> SUBSET Nat] /\ made \in [Reqs -> SUBSET Nat]
    /\ at \in [Reqs -> Nat] /\ try \in [Reqs -> Nat]

Init ==
    /\ acct = InitTree
    /\ book = [g \in Guids |-> NoReq] /\ row = [g \in Guids |-> NoReq]
    /\ name = [k \in Guids \X Names |-> NoReq]
    /\ share = [g \in Guids |-> {}]
    /\ pc = [q \in Reqs |-> "ask"] /\ op = [q \in Reqs |-> None]
    /\ top = [q \in Reqs |-> Root] /\ cur = [q \in Reqs |-> InitTree[Root]]
    /\ todo = [q \in Reqs |-> {}] /\ at = [q \in Reqs |-> 0] /\ made = [q \in Reqs |-> {}] /\ try = [q \in Reqs |-> 1]

--------------------------------------------------------------------------------
(* The tree. *)

Upward(S) == \A g \in S : acct[g].parent \in S \cup {NoParent}

\* The walk up from x comes by y.
Reaches(x, y) == \A S \in SUBSET Guids : x \in S /\ Upward(S) => y \in S

\* resolveBookLockGuidForAccount: the top of the tree that x is in.
TopOf(x) == IF \E y \in Guids : Reaches(x, y) /\ acct[y].parent = NoParent
            THEN CHOOSE y \in Guids : Reaches(x, y) /\ acct[y].parent = NoParent
            ELSE x

Sibling(g, p, n) == acct[g].live /\ acct[g].parent = p /\ acct[g].name = n
Taken(p, n) == \E g \in Guids : Sibling(g, p, n)
InBook(g) == acct[g].live /\ Reaches(g, Root)

--------------------------------------------------------------------------------
(* The requests. *)

Reparents(q) == op[q].kind = "move" \/ (op[q].kind = "update" /\ op[q].parent # Same)
Moves(q) == op[q].kind \in {"update", "move"}
Inserts(q) == op[q].kind \in {"create", "graft"}

\* Where an update or a move lands its account.
DestParent(q) == IF op[q].parent = Same THEN cur[q].parent ELSE op[q].parent
DestName(q) == IF op[q].name = Same THEN cur[q].name ELSE op[q].name
\* claimSiblingName does nothing for an account at the top.
Claims(q) == /\ DestParent(q) # NoParent
             /\ DestParent(q) # cur[q].parent \/ DestName(q) # cur[q].name

\* The UPDATE changes the foreign key.
Refers(q) == ForeignKey /\ DestParent(q) \notin {NoParent, cur[q].parent}

\* The first of the keys to insert; a graft has sorted them (sortByLockOrder).
First(q, i) == i \in todo[q] /\ \A j \in todo[q] : i <= j
KeyOf(q, i) == <<op[q].keys[i].parent, op[q].keys[i].name>>
TakenKey(q, i) == Taken(op[q].keys[i].parent, op[q].keys[i].name)
At(q, place) == pc[q] = place
Goto(q, place) == pc' = [pc EXCEPT ![q] = place]

\* End of a transaction: advisory locks, row locks and references are released.
Release(q) ==
    /\ book' = [g \in Guids |-> IF book[g] = q THEN NoReq ELSE book[g]]
    /\ name' = [k \in Guids \X Names |-> IF name[k] = q THEN NoReq ELSE name[k]]
    /\ row' = [g \in Guids |-> IF row[g] = q THEN NoReq ELSE row[g]]
    /\ share' = [g \in Guids |-> share[g] \ {q}]
Fail(q) == Goto(q, "done") /\ Release(q)

\* A row that somebody else has FOR UPDATE, or deletes, cannot be referred to.
Referable(q, p) == row[p] \in Reqs \ {q} => op[row[p]].kind = "graft"

--------------------------------------------------------------------------------
(* Before the transaction. *)

\* The route: the account, and a new parent, are of the active book, and so is
\* what a template is grafted to.
Ask(q) ==
    /\ At(q, "ask")
    /\ \E o \in Ops :
          /\ (o.kind \in {"update", "move", "delete"}) => InBook(o.acct)
          /\ (o.kind \in {"update", "move"} /\ o.parent \in Guids) => InBook(o.parent)
          /\ \A i \in DOMAIN o.keys : InBook(o.keys[i].parent)
          /\ op' = [op EXCEPT ![q] = o] /\ todo' = [todo EXCEPT ![q] = DOMAIN o.keys]
    /\ Goto(q, "asked")
    /\ UNCHANGED <<acct, locks, top, cur, at, made, try>>

\* The service: the account or the parent is there, a delete finds no child;
\* a reparent resolves the lock of its book.
Resolve(q) ==
    /\ At(q, "asked")
    /\ LET a == op[q].acct IN
       IF \/ op[q].kind \in {"update", "move", "delete"} /\ ~acct[a].live
          \/ op[q].kind = "create" /\ ~acct[op[q].keys[1].parent].live
          \/ op[q].kind = "delete" /\ \E g \in Guids : acct[g].live /\ acct[g].parent = a
       THEN Goto(q, "done") /\ UNCHANGED top
       ELSE /\ Goto(q, "resolved")
            /\ top' = [top EXCEPT ![q] = IF Reparents(q) THEN TopOf(a) ELSE Root]
    /\ UNCHANGED <<acct, locks, op, cur, todo, at, made, try>>

--------------------------------------------------------------------------------
(* Level 1. *)

\* Mutant: no lock.
TryNothing(q) ==
    /\ At(q, "resolved") /\ Moves(q)
    /\ Goto(q, "booked")
    /\ UNCHANGED <<acct, locks, plan>>

\* tryAcquireBookLock: BookBusyError when somebody has it.  A rename does
\* without.
TryBook(q) ==
    /\ At(q, "resolved") /\ Moves(q)
    /\ \/ ~Reparents(q) /\ Goto(q, "booked") /\ UNCHANGED book
       \/ /\ Reparents(q) /\ book[top[q]] = NoReq
          /\ book' = [book EXCEPT ![top[q]] = q] /\ Goto(q, "booked")
       \/ /\ Reparents(q) /\ book[top[q]] # NoReq
          /\ Goto(q, "done") /\ UNCHANGED book
    /\ UNCHANGED <<acct, name, row, share, plan>>

\* Mutant: a name before the rows.
NameFirst(q) ==
    /\ At(q, "resolved") /\ op[q].kind = "graft"
    /\ book[Root] = NoReq /\ name[KeyOf(q, 1)] = NoReq
    /\ book' = [book EXCEPT ![Root] = q] /\ name' = [name EXCEPT ![KeyOf(q, 1)] = q]
    /\ Goto(q, "booked")
    /\ UNCHANGED <<acct, row, share, plan>>

\* acquireBookLock.
WaitBook(q) ==
    /\ At(q, "resolved") /\ op[q].kind = "graft"
    /\ book[Root] = NoReq
    /\ book' = [book EXCEPT ![Root] = q]
    /\ Goto(q, "booked")
    /\ UNCHANGED <<acct, name, row, share, plan>>

\* Phase 2: the rows of existing accounts that a template makes placeholders;
\* the nodes that are missing are left to phase 3.
Promoted(q) == {g \in op[q].promotes : acct[g].live}
               \cup {g \in Guids : \E i \in DOMAIN op[q].keys :
                        /\ ~op[q].keys[i].leaf
                        /\ Sibling(g, op[q].keys[i].parent, op[q].keys[i].name)}
Promote(q) ==
    /\ At(q, "booked") /\ op[q].kind = "graft"
    /\ \A g \in Promoted(q) : row[g] = NoReq
    /\ row' = [g \in Guids |-> IF g \in Promoted(q) THEN q ELSE row[g]]
    /\ todo' = [todo EXCEPT ![q] = {i \in DOMAIN op[q].keys : ~TakenKey(q, i)}]
    /\ Goto(q, "valid")
    /\ UNCHANGED <<acct, book, name, share, op, top, cur, at, made, try>>

--------------------------------------------------------------------------------
(* Level 2, and the checks under it. *)

\* Mutant: the key is computed from what was read before the transaction.
LockAfterRead(q) ==
    /\ At(q, "booked") /\ Moves(q)
    /\ row[op[q].acct] = NoReq /\ share[op[q].acct] = {}
    /\ row' = [row EXCEPT ![op[q].acct] = q]
    /\ cur' = [cur EXCEPT ![q] = InitTree[op[q].acct]]
    /\ Goto(q, "rowed")
    /\ UNCHANGED <<acct, book, name, share, op, top, todo, at, made, try>>

\* lockAccountKey: SELECT ... FOR UPDATE, then the row.
LockRow(q) ==
    /\ At(q, "booked") /\ Moves(q)
    /\ row[op[q].acct] = NoReq /\ share[op[q].acct] = {}
    /\ IF acct[op[q].acct].live
       THEN /\ row' = [row EXCEPT ![op[q].acct] = q]
            /\ cur' = [cur EXCEPT ![q] = acct[op[q].acct]]
            /\ Goto(q, "rowed")
            /\ UNCHANGED <<book, name, share>>
       ELSE Fail(q) /\ UNCHANGED cur
    /\ UNCHANGED <<acct, op, top, todo, at, made, try>>

\* assertReparentIsAcyclic.
Validate(q) ==
    /\ At(q, "rowed")
    /\ IF op[q].parent \in Guids
             => acct[op[q].parent].live /\ ~Reaches(op[q].parent, op[q].acct)
       THEN Goto(q, "valid") /\ UNCHANGED locks
       ELSE Fail(q)
    /\ UNCHANGED <<acct, plan>>

--------------------------------------------------------------------------------
(* Level 3, and the writes. *)

\* claimSiblingName for an update or a move: wait for the key, look again.
Claim(q) ==
    /\ At(q, "valid") /\ Moves(q)
    /\ LET k == <<DestParent(q), DestName(q)>> IN
       \/ ~Claims(q) /\ Goto(q, "claimed") /\ UNCHANGED locks
       \/ /\ Claims(q) /\ name[k] = NoReq
          /\ IF \E g \in Guids \ {op[q].acct} : Sibling(g, DestParent(q), DestName(q))
             THEN Fail(q)
             ELSE /\ name' = [name EXCEPT ![k] = q]
                  /\ Goto(q, "claimed") /\ UNCHANGED <<book, row, share>>
    /\ UNCHANGED <<acct, plan>>

\* UPDATE accounts, and COMMIT.  A new parent is referred to.
Write(q) ==
    /\ At(q, "claimed") /\ Moves(q)
    /\ LET a == op[q].acct
           p == DestParent(q)
       IN  /\ Refers(q) => Referable(q, p)
           /\ IF Refers(q) /\ ~acct[p].live THEN UNCHANGED acct
              ELSE acct' = [acct EXCEPT ![a] =
                      [live |-> @.live,
                       name |-> IF op[q].name = Same THEN @.name ELSE op[q].name,
                       parent |-> IF op[q].parent = Same THEN @.parent ELSE op[q].parent]]
    /\ Fail(q)
    /\ UNCHANGED plan

\* A create is at its key, or a graft at the next of its own.
AtKeys(q) == Inserts(q) /\ pc[q] = (IF op[q].kind = "create" THEN "resolved" ELSE "valid")

\* The key is waited for and looked up again; a graft leaves a leaf that
\* somebody created meanwhile, and starts again when it has children below it.
ClaimKey(q) ==
    /\ AtKeys(q)
    /\ \E i \in todo[q] :
          /\ First(q, i) /\ name[KeyOf(q, i)] = NoReq
          /\ \/ /\ ~TakenKey(q, i)
                /\ name' = [name EXCEPT ![KeyOf(q, i)] = q] /\ at' = [at EXCEPT ![q] = i]
                /\ Goto(q, "claimed") /\ UNCHANGED <<book, row, share, todo, made, try>>
             \/ /\ TakenKey(q, i) /\ op[q].kind = "graft" /\ op[q].keys[i].leaf
                /\ name' = [name EXCEPT ![KeyOf(q, i)] = q]
                /\ todo' = [todo EXCEPT ![q] = @ \ {i}]
                /\ UNCHANGED <<pc, book, row, share, at, made, try>>
             \/ /\ TakenKey(q, i) /\ op[q].kind = "graft" /\ ~op[q].keys[i].leaf
                /\ try[q] < MaxAttempts
                /\ Goto(q, "resolved") /\ Release(q)
                /\ try' = [try EXCEPT ![q] = @ + 1] /\ made' = [made EXCEPT ![q] = {}]
                /\ UNCHANGED <<todo, at>>
             \/ /\ TakenKey(q, i)
                /\ op[q].kind = "create" \/ (~op[q].keys[i].leaf /\ try[q] >= MaxAttempts)
                /\ Fail(q) /\ UNCHANGED <<todo, at, made, try>>
    /\ UNCHANGED <<acct, op, top, cur>>

\* INSERT: the parent is referred to until the commit.
Insert(q) ==
    /\ At(q, "claimed") /\ Inserts(q)
    /\ LET p == op[q].keys[at[q]].parent IN
       /\ ForeignKey => Referable(q, p)
       /\ IF ForeignKey /\ ~acct[p].live
          THEN Fail(q) /\ UNCHANGED <<todo, made>>
          ELSE /\ share' = IF ForeignKey THEN [share EXCEPT ![p] = @ \cup {q}] ELSE share
               /\ made' = [made EXCEPT ![q] = @ \cup {at[q]}]
               /\ todo' = [todo EXCEPT ![q] = @ \ {at[q]}]
               /\ Goto(q, IF op[q].kind = "create" THEN "inserted" ELSE "valid")
               /\ UNCHANGED <<book, name, row>>
    /\ UNCHANGED <<acct, op, top, cur, at, try>>

Commit(q) ==
    /\ Inserts(q) /\ pc[q] = (IF op[q].kind = "create" THEN "inserted" ELSE "valid")
    /\ todo[q] = {}
    /\ acct' = [g \in Guids |->
          IF \E i \in made[q] : New[q][i] = g
          THEN LET k == op[q].keys[CHOOSE i \in made[q] : New[q][i] = g]
               IN  [live |-> TRUE, name |-> k.name, parent |-> k.parent]
          ELSE acct[g]]
    /\ Fail(q)
    /\ UNCHANGED plan

--------------------------------------------------------------------------------
(* AccountService.delete, one statement. *)

LockDeleted(q) ==
    /\ At(q, "resolved") /\ op[q].kind = "delete"
    /\ row[op[q].acct] = NoReq /\ share[op[q].acct] = {}
    /\ IF acct[op[q].acct].live
       THEN /\ row' = [row EXCEPT ![op[q].acct] = q] /\ Goto(q, "rowed")
            /\ UNCHANGED <<book, name, share>>
       ELSE Fail(q)
    /\ UNCHANGED <<acct, plan>>

Children(q) == {g \in Guids : acct[g].live /\ acct[g].parent = op[q].acct}

\* The constraint is ON DELETE SET NULL, Prisma's for an optional relation.
Delete(q) ==
    /\ At(q, "rowed") /\ op[q].kind = "delete"
    /\ ForeignKey => \A g \in Children(q) : row[g] = NoReq
    /\ acct' = [g \in Guids |->
          IF g = op[q].acct THEN [acct[g] EXCEPT !.live = FALSE, !.parent = NoParent]
          ELSE IF ForeignKey /\ g \in Children(q) THEN [acct[g] EXCEPT !.parent = NoParent]
          ELSE acct[g]]
    /\ Fail(q)
    /\ UNCHANGED plan

Next == \E q \in Reqs :
    \/ Ask(q) \/ Resolve(q)
    \/ TryBook(q) \/ LockRow(q) \/ (Moves(q) /\ Validate(q)) \/ Claim(q) \/ Write(q)
    \/ WaitBook(q) \/ Promote(q) \/ ClaimKey(q) \/ Insert(q) \/ Commit(q)
    \/ LockDeleted(q) \/ Delete(q)

Spec == Init /\ [][Next]_vars

--------------------------------------------------------------------------------
(* Properties. *)

\* claimSiblingName and its callers: no two accounts of one name under one
\* parent, although no index of the database forbids it.
UniqueSiblings ==
    \A g, h \in Guids : \A p \in Guids, n \in Names :
        Sibling(g, p, n) /\ Sibling(h, p, n) => g = h

\* assertReparentIsAcyclic under the lock of the book: "the classic ... race
\* impossible".
TreeIsAcyclic ==
    \A S \in (SUBSET Guids) \ {{}} : \E g \in S : acct[g].parent \notin S

\* Who waits for whom.
RowWait(q, g) == {row[g]} \cup share[g]
WaitsFor(q) ==
    (CASE At(q, "resolved") /\ op[q].kind = "graft" -> {book[Root]}
       [] At(q, "booked") /\ op[q].kind = "graft" -> {row[g] : g \in Promoted(q)}
       [] \/ At(q, "booked") /\ Moves(q)
          \/ At(q, "resolved") /\ op[q].kind = "delete" -> RowWait(q, op[q].acct)
       [] At(q, "valid") /\ Moves(q) /\ Claims(q) -> {name[<<DestParent(q), DestName(q)>>]}
       [] At(q, "claimed") /\ Moves(q) /\ Refers(q) /\ ~Referable(q, DestParent(q)) ->
             {row[DestParent(q)]}
       [] AtKeys(q) -> {name[KeyOf(q, i)] : i \in {j \in todo[q] : First(q, j)}}
       [] /\ At(q, "claimed") /\ Inserts(q) /\ ForeignKey
          /\ ~Referable(q, op[q].keys[at[q]].parent) -> {row[op[q].keys[at[q]].parent]}
       [] At(q, "rowed") /\ op[q].kind = "delete" /\ ForeignKey -> {row[g] : g \in Children(q)}
       [] OTHER -> {}) \ {NoReq, q}

\* lockAccountKey: "keeps the wait-for graph acyclic".
NoWaitCycle == \A S \in (SUBSET Reqs) \ {{}} : \E q \in S : WaitsFor(q) \cap S = {}

\* What makes UniqueSiblings inductive.  Who has locked the row of an account
\* knows what is in it:
RowIsFrozen(q) ==
    /\ (Moves(q) /\ pc[q] \in {"rowed", "valid", "claimed"})
          => row[op[q].acct] = q /\ acct[op[q].acct] = cur[q] /\ cur[q].live
    /\ (op[q].kind = "delete" /\ pc[q] = "rowed") => row[op[q].acct] = q

\* who has claimed a name has it to itself, an account of its own apart;
Inserting(q) == made[q] \cup IF pc[q] = "claimed" THEN {at[q]} ELSE {}
ClaimIsFree(q) ==
    /\ (Moves(q) /\ pc[q] = "claimed" /\ Claims(q))
          => /\ name[<<DestParent(q), DestName(q)>>] = q
             /\ \A g \in Guids \ {op[q].acct} : ~Sibling(g, DestParent(q), DestName(q))
    /\ pc[q] \in {"ask", "asked", "resolved", "booked"} => made[q] = {}
    /\ todo[q] \subseteq DOMAIN op[q].keys
    /\ (Inserts(q) /\ pc[q] \in {"valid", "claimed", "inserted"})
          => \A i \in Inserting(q) :
                /\ i \in DOMAIN op[q].keys
                /\ name[KeyOf(q, i)] = q /\ ~TakenKey(q, i)

\* and a guid that was generated is nobody's before the commit.
FreshIsFree(q) == \A i \in DOMAIN New[q] : acct[New[q][i]].live => pc[q] = "done"

Local(q) == RowIsFrozen(q) /\ ClaimIsFree(q) /\ FreshIsFree(q)
SiblingInv == TypeOK /\ (\A q \in Reqs : Local(q)) /\ UniqueSiblings

\* What makes NoWaitCycle inductive: who can have a lock of each level, and that
\* a graft has its book until the end.
IsGraft(q) == op[q].kind = "graft"
HoldsBook(q) == \/ Reparents(q) /\ pc[q] \in {"booked", "rowed", "valid", "claimed"}
                \/ IsGraft(q) /\ pc[q] \in {"booked", "valid", "claimed"}
HoldsRow(q) == \/ Moves(q) /\ pc[q] \in {"rowed", "valid", "claimed"}
               \/ op[q].kind = "delete" /\ pc[q] = "rowed"
               \/ IsGraft(q) /\ pc[q] \in {"valid", "claimed"}
HoldsName(q) == \/ Moves(q) /\ pc[q] = "claimed"
                \/ op[q].kind = "create" /\ pc[q] \in {"claimed", "inserted"}
                \/ IsGraft(q) /\ pc[q] \in {"valid", "claimed"}
Holds(q) ==
    /\ \A g \in Guids : /\ book[g] = q => HoldsBook(q)
                        /\ row[g] = q => HoldsRow(q)
    /\ \A k \in Guids \X Names : name[k] = q => HoldsName(q)
    /\ (IsGraft(q) /\ pc[q] \in {"booked", "valid", "claimed"}) => book[Root] = q
LockInv == TypeOK /\ (\A q \in Reqs : Holds(q)) /\ (~ForeignKey => \A g \in Guids : share[g] = {})

\* What makes TreeIsAcyclic inductive, as long as nobody deletes an account or
\* moves one to the top, which makes a tree of its own below it, with a lock of
\* its own: the accounts of a request stay in the book,
NobodyLeaves == \A o \in Ops : o.kind # "delete" /\ o.parent # NoParent
RootOnTop == acct[Root].live /\ acct[Root].parent = NoParent
ParentsAreLive == \A g \in Guids : acct[g].parent \in Guids => acct[acct[g].parent].live
InItsBook(q) ==
    /\ Moves(q) => InBook(op[q].acct) /\ (op[q].parent \in Guids => InBook(op[q].parent))
    /\ \A i \in DOMAIN op[q].keys : acct[op[q].keys[i].parent].live

\* and one request at a time has checked its new parent and is to land below it.
GoesByItsLock(q) ==
    /\ pc[q] \in {"resolved", "booked", "rowed", "valid", "claimed"} => top[q] = Root
    /\ pc[q] \in {"booked", "rowed", "valid", "claimed"} => book[Root] = q
    /\ pc[q] \in {"valid", "claimed"} => ~Reaches(op[q].parent, op[q].acct)
TreeInv ==
    /\ RootOnTop /\ ParentsAreLive /\ TreeIsAcyclic
    /\ \A q \in Reqs : /\ (pc[q] # "ask") => InItsBook(q)
                       /\ Reparents(q) => GoesByItsLock(q)
================================================================================
