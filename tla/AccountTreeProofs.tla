--------------------------- MODULE AccountTreeProofs ---------------------------
(***************************************************************************)
(* Sibling names are unique in the account tree; its locks are not waited  *)
(* for in a circle unless the foreign key adds references; and no account  *)
(* is below itself unless some leave the book: for any number of requests, *)
(* accounts and names.                                                     *)
(***************************************************************************)
EXTENDS AccountTree, TLAPS

\* What a request says is of the types the schemas parse it to.
LEMMA Typed ==
    ASSUME TypeOK, NEW q \in Reqs
    PROVE  /\ op[q] \in [kind : {"create", "update", "move", "delete", "graft", "none"},
                         acct : Guids, parent : Guids \cup {NoParent, Same},
                         name : Names \cup {Same}, keys : Seq(Key), promotes : SUBSET Guids]
           /\ cur[q] \in Row /\ acct[op[q].acct] \in Row
           /\ DestParent(q) \in Guids \cup {NoParent}
           /\ DestName(q) \in Names
           /\ \A i \in DOMAIN op[q].keys : op[q].keys[i] \in Key
           /\ \A i \in DOMAIN op[q].keys : i \in DOMAIN New[q] \/ op[q] = None
<1>1. op[q] \in Ops \cup {None}
  BY DEF TypeOK
<1>2. None \in [kind : {"create", "update", "move", "delete", "graft", "none"},
                acct : Guids, parent : Guids \cup {NoParent, Same},
                name : Names \cup {Same}, keys : Seq(Key), promotes : SUBSET Guids]
  BY TreeAssumption DEF None
<1>3. op[q] \in [kind : {"create", "update", "move", "delete", "graft", "none"},
                 acct : Guids, parent : Guids \cup {NoParent, Same},
                 name : Names \cup {Same}, keys : Seq(Key), promotes : SUBSET Guids]
  BY <1>1, <1>2, TreeAssumption DEF Request
<1>4. cur[q] \in Row /\ acct[op[q].acct] \in Row
  BY <1>3 DEF TypeOK
<1>5. DestParent(q) \in Guids \cup {NoParent} /\ DestName(q) \in Names
  BY <1>3, <1>4 DEF DestParent, DestName, Row
<1>6. \A i \in DOMAIN op[q].keys : op[q].keys[i] \in Key
  BY <1>3
<1>7. \A i \in DOMAIN op[q].keys : i \in DOMAIN New[q] \/ op[q] = None
  <2>1. CASE op[q] \in Ops
    <3>1. Len(op[q].keys) <= Len(New[q]) /\ op[q].keys \in Seq(Key) /\ New[q] \in Seq(Guids)
      BY <2>1, <1>3, TreeAssumption
    <3>2. QED
      BY <3>1
  <2>2. QED
    BY <1>1, <2>1
<1>8. QED
  BY <1>3, <1>4, <1>5, <1>6, <1>7

\* A failing or finished request keeps the types.
LEMMA ReleaseTyped ==
    ASSUME TypeOK, NEW q \in Reqs, Release(q)
    PROVE  /\ book' \in [Guids -> Owner] /\ row' \in [Guids -> Owner]
           /\ name' \in [Guids \X Names -> Owner]
           /\ share' \in [Guids -> SUBSET Reqs]
BY DEF TypeOK, Release, Owner

LEMMA TypeOKInit == Init => TypeOK
BY TreeAssumption DEF Init, TypeOK, Pcs, Owner, Row, None

\* A claim of the i-th key: inserted, left, started again or given up.
ClaimsNth(q, i) ==
    /\ First(q, i) /\ name[KeyOf(q, i)] = NoReq
    /\ \/ /\ ~TakenKey(q, i)
          /\ name' = [name EXCEPT ![KeyOf(q, i)] = q] /\ at' = [at EXCEPT ![q] = i]
          /\ Goto(q, "claimed") /\ UNCHANGED <<book, row, share, todo, made, try>>
       \/ /\ op[q].kind = "graft"
          /\ name' = [name EXCEPT ![KeyOf(q, i)] = q]
          /\ todo' = [todo EXCEPT ![q] = @ \ {i}]
          /\ UNCHANGED <<pc, book, row, share, at, made, try>>
       \/ /\ Goto(q, "resolved") /\ Release(q)
          /\ try' = [try EXCEPT ![q] = @ + 1] /\ made' = [made EXCEPT ![q] = {}]
          /\ UNCHANGED <<todo, at>>
       \/ Fail(q) /\ UNCHANGED <<todo, at, made, try>>

LEMMA ClaimKeyCases == \A q \in Reqs : ClaimKey(q) => \E i \in todo[q] : ClaimsNth(q, i)
BY DEF ClaimKey, ClaimsNth

LEMMA TypeOKNext == SiblingInv /\ [Next]_vars => TypeOK'
<1> SUFFICES ASSUME TypeOK, \A q \in Reqs : Local(q), [Next]_vars PROVE TypeOK'
  BY DEF SiblingInv
<1> USE DEF TypeOK
<1>1. ASSUME NEW q \in Reqs, Ask(q) PROVE TypeOK'
  <2>1. PICK o \in Ops : op' = [op EXCEPT ![q] = o] /\ todo' = [todo EXCEPT ![q] = DOMAIN o.keys]
    BY <1>1 DEF Ask
  <2>2. DOMAIN o.keys \subseteq Nat
    BY TreeAssumption DEF Request
  <2>3. QED
    BY <1>1, <2>1, <2>2 DEF Ask, locks, Goto, Pcs
<1>2. ASSUME NEW q \in Reqs, Resolve(q) PROVE TypeOK'
  <2>1. TopOf(op[q].acct) \in Guids
    BY Typed DEF TopOf
  <2>2. top' \in [Reqs -> Guids]
    BY <1>2, <2>1, TreeAssumption DEF Resolve
  <2>3. pc' \in [Reqs -> Pcs]
    BY <1>2 DEF Resolve, Goto, Pcs
  <2>4. QED
    BY <1>2, <2>2, <2>3 DEF Resolve, locks
<1>3. ASSUME NEW q \in Reqs, TryBook(q) PROVE TypeOK'
  <2>1. pc' \in [Reqs -> Pcs]
    BY <1>3 DEF TryBook, Goto, Pcs
  <2>2. book' = book \/ book' = [book EXCEPT ![top[q]] = q]
    BY <1>3 DEF TryBook
  <2>3. book' \in [Guids -> Owner]
    BY <2>2 DEF Owner
  <2>4. QED
    BY <1>3, <2>1, <2>3 DEF TryBook, plan
<1>4. ASSUME NEW q \in Reqs, WaitBook(q) PROVE TypeOK'
  BY <1>4 DEF WaitBook, plan, Goto, Pcs, Owner
<1>5. ASSUME NEW q \in Reqs, Promote(q) PROVE TypeOK'
  <2>1. DOMAIN op[q].keys \subseteq Nat
    BY Typed
  <2>2. row' \in [Guids -> Owner]
    BY <1>5 DEF Promote, Owner
  <2>3. todo' \in [Reqs -> SUBSET Nat]
    BY <1>5, <2>1 DEF Promote
  <2>4. pc' \in [Reqs -> Pcs]
    BY <1>5 DEF Promote, Goto, Pcs
  <2>5. QED
    BY <1>5, <2>2, <2>3, <2>4 DEF Promote
<1>6. ASSUME NEW q \in Reqs, LockRow(q) PROVE TypeOK'
  <2>1. CASE acct[op[q].acct].live
    <3>1. cur' \in [Reqs -> Row]
      <4>1. acct[op[q].acct] \in Row
        BY Typed
      <4>2. cur' = [cur EXCEPT ![q] = acct[op[q].acct]]
        BY <1>6, <2>1 DEF LockRow
      <4>3. QED
        BY <4>1, <4>2
    <3>2. row' = [row EXCEPT ![op[q].acct] = q] /\ pc' = [pc EXCEPT ![q] = "rowed"]
      BY <1>6, <2>1 DEF LockRow, Goto
    <3>3. QED
      BY <1>6, <2>1, <3>1, <3>2 DEF LockRow, Pcs, Owner
  <2>2. CASE ~acct[op[q].acct].live
    BY <1>6, <2>2, ReleaseTyped DEF LockRow, Fail, Goto, Pcs
  <2>3. QED
    BY <2>1, <2>2
<1>7. ASSUME NEW q \in Reqs, Validate(q) PROVE TypeOK'
  BY <1>7, ReleaseTyped DEF Validate, plan, locks, Fail, Goto, Pcs
<1>8. ASSUME NEW q \in Reqs, Claim(q) PROVE TypeOK'
  <2>1. CASE Fail(q)
    BY <1>8, <2>1, ReleaseTyped DEF Claim, plan, Fail, Goto, Pcs
  <2>2. CASE UNCHANGED locks
    BY <1>8, <2>2 DEF Claim, plan, locks, Fail, Goto, Pcs
  <2>3. CASE name' = [name EXCEPT ![<<DestParent(q), DestName(q)>>] = q]
             /\ Goto(q, "claimed") /\ UNCHANGED <<book, row, share>>
    BY <1>8, <2>3 DEF Claim, plan, Goto, Pcs, Owner
  <2>4. QED
    BY <1>8, <2>1, <2>2, <2>3 DEF Claim
<1>9. ASSUME NEW q \in Reqs, Write(q) PROVE TypeOK'
  <2>1. acct' \in [Guids -> Row]
    <3>1. CASE UNCHANGED acct
      BY <3>1
    <3>2. CASE acct' # acct
      <4> DEFINE New1 == [live |-> acct[op[q].acct].live,
                 name |-> IF op[q].name = Same THEN acct[op[q].acct].name ELSE op[q].name,
                 parent |-> IF op[q].parent = Same THEN acct[op[q].acct].parent
                                                   ELSE op[q].parent]
      <4>1. New1 \in Row
        BY Typed DEF Row
      <4>2. acct' = [acct EXCEPT ![op[q].acct] = New1]
        BY <1>9, <3>2 DEF Write
      <4>3. QED
        BY <4>1, <4>2
    <3>3. QED
      BY <1>9, <3>1, <3>2 DEF Write
  <2>2. pc' \in [Reqs -> Pcs]
    BY <1>9 DEF Write, Fail, Goto, Pcs
  <2>3. Release(q)
    BY <1>9 DEF Write, Fail
  <2>4. QED
    BY <1>9, <2>1, <2>2, <2>3, ReleaseTyped DEF Write, plan
<1>10. ASSUME NEW q \in Reqs, ClaimKey(q) PROVE TypeOK'
  <2>0. PICK i \in todo[q] : ClaimsNth(q, i)
    BY <1>10, ClaimKeyCases
  <2>1. /\ at' \in [Reqs -> Nat] /\ made' \in [Reqs -> SUBSET Nat] /\ try' \in [Reqs -> Nat]
        /\ todo' \in [Reqs -> SUBSET Nat]
    <3>0. i \in Nat
      OBVIOUS
    <3>1. at' = at \/ at' = [at EXCEPT ![q] = i]
      BY <2>0 DEF ClaimsNth
    <3>2. made' = made \/ made' = [made EXCEPT ![q] = {}]
      BY <2>0 DEF ClaimsNth
    <3>3. try' = try \/ try' = [try EXCEPT ![q] = try[q] + 1]
      BY <2>0 DEF ClaimsNth
    <3>4. todo' = todo \/ todo' = [todo EXCEPT ![q] = todo[q] \ {i}]
      BY <2>0 DEF ClaimsNth
    <3>5. at' \in [Reqs -> Nat]
      BY <3>0, <3>1
    <3>6. made' \in [Reqs -> SUBSET Nat]
      BY <3>2
    <3>7. try' \in [Reqs -> Nat]
      BY <3>3
    <3>8. todo' \in [Reqs -> SUBSET Nat]
      BY <3>4
    <3>9. QED
      BY <3>5, <3>6, <3>7, <3>8
  <2>2. CASE Release(q)
    BY <1>10, <2>0, <2>1, <2>2, ReleaseTyped DEF ClaimKey, ClaimsNth, Fail, Goto, Pcs
  <2>3. CASE name' = [name EXCEPT ![KeyOf(q, i)] = q]
             /\ UNCHANGED <<book, row, share>> /\ (UNCHANGED pc \/ Goto(q, "claimed"))
    BY <1>10, <2>1, <2>3 DEF ClaimKey, Goto, Pcs, Owner
  <2>4. QED
    BY <2>0, <2>2, <2>3 DEF ClaimsNth, Fail
<1>11. ASSUME NEW q \in Reqs, Insert(q) PROVE TypeOK'
  <2>1. CASE Fail(q) /\ UNCHANGED <<todo, made>>
    BY <1>11, <2>1, ReleaseTyped DEF Insert, Fail, Goto, Pcs
  <2>2. CASE ~(Fail(q) /\ UNCHANGED <<todo, made>>)
    <3> DEFINE p == op[q].keys[at[q]].parent
    <3>0. /\ share' = share \/ share' = [share EXCEPT ![p] = share[p] \cup {q}]
          /\ made' = [made EXCEPT ![q] = made[q] \cup {at[q]}]
          /\ todo' = [todo EXCEPT ![q] = todo[q] \ {at[q]}]
      BY <1>11, <2>2 DEF Insert
    <3>4. share' \in [Guids -> SUBSET Reqs]
      <4> HIDE DEF p
      <4>1. QED
        BY <3>0
    <3>5. made' \in [Reqs -> SUBSET Nat]
      BY <3>0
    <3>1. /\ share' \in [Guids -> SUBSET Reqs]
          /\ made' \in [Reqs -> SUBSET Nat] /\ todo' \in [Reqs -> SUBSET Nat]
      BY <3>0, <3>4, <3>5
    <3>2. pc' \in [Reqs -> Pcs]
      BY <1>11, <2>2 DEF Insert, Goto, Pcs
    <3>3. QED
      BY <1>11, <2>2, <3>1, <3>2 DEF Insert
  <2>3. QED
    BY <2>1, <2>2
<1>12. ASSUME NEW q \in Reqs, Commit(q) PROVE TypeOK'
  <2>1. acct' \in [Guids -> Row]
    <3> DEFINE Mine(g) == \E i \in made[q] : New[q][i] = g
               Nth(g) == CHOOSE i \in made[q] : New[q][i] = g
               Fresh(g) == [live |-> TRUE, name |-> op[q].keys[Nth(g)].name,
                            parent |-> op[q].keys[Nth(g)].parent]
    <3>1. acct' = [g \in Guids |-> IF Mine(g) THEN Fresh(g) ELSE acct[g]]
      BY <1>12 DEF Commit
    <3>2. ASSUME NEW g \in Guids, Mine(g) PROVE Fresh(g) \in Row
      <4>1. Nth(g) \in made[q]
        BY <3>2
      <4>2. Nth(g) \in DOMAIN op[q].keys
        BY <1>12, <4>1 DEF Commit, Local, ClaimIsFree, Inserting
      <4>3. op[q].keys[Nth(g)] \in Key
        BY <4>2, Typed
      <4>4. QED
        BY <4>3 DEF Key, Row
    <3>3. QED
      BY <3>1, <3>2
  <2>2. QED
    BY <1>12, <2>1, ReleaseTyped DEF Commit, Fail, Goto, Pcs, plan
<1>13. ASSUME NEW q \in Reqs, LockDeleted(q) PROVE TypeOK'
  <2>1. CASE Fail(q)
    BY <1>13, <2>1, ReleaseTyped DEF LockDeleted, Fail, Goto, Pcs, plan
  <2>2. CASE ~Fail(q)
    <3>1. row' = [row EXCEPT ![op[q].acct] = q] /\ pc' = [pc EXCEPT ![q] = "rowed"]
      BY <1>13, <2>2 DEF LockDeleted, Goto
    <3>2. row' \in [Guids -> Owner] /\ pc' \in [Reqs -> Pcs]
      BY <3>1 DEF Owner, Pcs
    <3>3. QED
      BY <1>13, <2>2, <3>2 DEF LockDeleted, plan
  <2>3. QED
    BY <2>1, <2>2
<1>14. ASSUME NEW q \in Reqs, Delete(q) PROVE TypeOK'
  <2>1. acct' \in [Guids -> Row]
    <3>1. \A g \in Guids : /\ acct[g] \in Row
                           /\ [acct[g] EXCEPT !.live = FALSE, !.parent = NoParent] \in Row
                           /\ [acct[g] EXCEPT !.parent = NoParent] \in Row
      <4>1. \A r \in Row : /\ [r EXCEPT !.live = FALSE, !.parent = NoParent] \in Row
                           /\ [r EXCEPT !.parent = NoParent] \in Row
        BY DEF Row
      <4>2. \A g \in Guids : acct[g] \in Row
        OBVIOUS
      <4>3. QED
        BY <4>1, <4>2
    <3> DEFINE After(g) ==
            IF g = op[q].acct THEN [acct[g] EXCEPT !.live = FALSE, !.parent = NoParent]
            ELSE IF ForeignKey /\ g \in Children(q) THEN [acct[g] EXCEPT !.parent = NoParent]
            ELSE acct[g]
    <3>2. acct' = [g \in Guids |-> After(g)]
      BY <1>14 DEF Delete
    <3>3. \A g \in Guids : After(g) \in Row
      BY <3>1
    <3>4. QED
      <4> HIDE DEF After
      <4>1. QED
        BY <3>2, <3>3
  <2>2. QED
    BY <1>14, <2>1, ReleaseTyped DEF Delete, Fail, Goto, Pcs, plan
<1>15. CASE UNCHANGED vars
  BY <1>15 DEF vars, locks, plan
<1>16. QED
  BY <1>1, <1>2, <1>3, <1>4, <1>5, <1>6, <1>7, <1>8, <1>9, <1>10, <1>11, <1>12, <1>13,
     <1>14, <1>15 DEF Next
--------------------------------------------------------------------------------
(* The invariant. *)

\* A request that a step of another leaves alone.
Keeps(r) ==
    /\ op'[r] = op[r] /\ cur'[r] = cur[r] /\ at'[r] = at[r] /\ made'[r] = made[r]
    /\ pc'[r] = pc[r] /\ todo'[r] = todo[r]
    /\ \A g \in Guids : row[g] = r => row'[g] = r
    /\ \A k \in Guids \X Names : name[k] = r => name'[k] = r

\* Ending a transaction leaves the others alone.
LEMMA ReleaseKeeps ==
    ASSUME TypeOK, NEW q \in Reqs, NEW r \in Reqs \ {q}, Release(q)
    PROVE  /\ \A g \in Guids : row[g] = r => row'[g] = r
           /\ \A k \in Guids \X Names : name[k] = r => name'[k] = r
BY DEF TypeOK, Release

\* A step of another that disturbs nothing a request relies on: the row it has
\* locked, the names it has claimed, the guids it has generated.
Spares(r) ==
    /\ (Moves(r) /\ pc[r] \in {"rowed", "valid", "claimed"})
          => acct'[op[r].acct] = acct[op[r].acct]
    /\ \A p \in Guids, n \in Names :
          name[<<p, n>>] = r => \A g \in Guids : Sibling(g, p, n)' => Sibling(g, p, n)
    /\ \A i \in DOMAIN New[r] : acct'[New[r][i]].live => acct[New[r][i]].live

\* What holds of a request that is left alone.
LEMMA SparedLocal ==
    ASSUME TypeOK, NEW r \in Reqs, Local(r), Keeps(r), Spares(r)
    PROVE  Local(r)'
<1>1. /\ Moves(r)' = Moves(r) /\ Inserts(r)' = Inserts(r) /\ op[r]' = op[r]
      /\ DestParent(r)' = DestParent(r) /\ DestName(r)' = DestName(r)
      /\ Claims(r)' = Claims(r) /\ Inserting(r)' = Inserting(r)
  BY DEF Keeps, Moves, Inserts, DestParent, DestName, Claims, Inserting
<1>2. RowIsFrozen(r)'
  BY <1>1, Typed DEF Local, RowIsFrozen, Keeps, Spares
<1>3. ClaimIsFree(r)'
  <2>1. ASSUME Moves(r)', pc'[r] = "claimed", Claims(r)'
        PROVE  (/\ name[<<DestParent(r), DestName(r)>>] = r
                /\ \A g \in Guids \ {op[r].acct} : ~Sibling(g, DestParent(r), DestName(r)))'
    <3>1. DestParent(r) \in Guids /\ DestName(r) \in Names
      BY <1>1, <2>1, Typed DEF Claims
    <3>2. /\ name[<<DestParent(r), DestName(r)>>] = r
          /\ \A g \in Guids \ {op[r].acct} : ~Sibling(g, DestParent(r), DestName(r))
      BY <1>1, <2>1 DEF Local, ClaimIsFree, Keeps
    <3>3. name'[<<DestParent(r), DestName(r)>>] = r
      BY <3>1, <3>2 DEF Keeps
    <3>4. \A g \in Guids \ {op[r].acct} : ~Sibling(g, DestParent(r), DestName(r))'
      <4>1. \A g \in Guids : (\A p \in Guids, n \in Names :
                 name[<<p, n>>] = r => (Sibling(g, p, n)' => Sibling(g, p, n)))
        BY DEF Spares
      <4>2. QED
        BY <4>1, <3>1, <3>2, <1>1 DEF Sibling
    <3>5. QED
      BY <1>1, <3>3, <3>4
  <2>2. ASSUME Inserts(r)', pc'[r] \in {"valid", "claimed", "inserted"},
               NEW i \in Inserting(r)'
        PROVE  (/\ i \in DOMAIN op[r].keys
                /\ name[KeyOf(r, i)] = r /\ ~TakenKey(r, i))'
    <3>1. /\ i \in DOMAIN op[r].keys
          /\ name[<<op[r].keys[i].parent, op[r].keys[i].name>>] = r
          /\ ~Taken(op[r].keys[i].parent, op[r].keys[i].name)
      BY <1>1, <2>2 DEF Local, ClaimIsFree, Keeps, KeyOf, TakenKey
    <3>2. op[r].keys[i].parent \in Guids /\ op[r].keys[i].name \in Names
      BY <3>1, Typed DEF Key
    <3> DEFINE p == op[r].keys[i].parent
               n == op[r].keys[i].name
    <3>3. name'[<<p, n>>] = r
      BY <3>1, <3>2 DEF Keeps
    <3>4. ~Taken(p, n)'
      <4>1. \A g \in Guids : Sibling(g, p, n)' => Sibling(g, p, n)
        BY <3>1, <3>2, <1>1 DEF Spares, Sibling
      <4>2. QED
        BY <4>1, <3>1, <1>1 DEF Taken, Sibling
    <3>5. QED
      BY <1>1, <3>1, <3>3, <3>4 DEF KeyOf, TakenKey
  <2>3. QED
    BY <1>1, <2>1, <2>2 DEF ClaimIsFree, Local, Keeps
<1>4. FreshIsFree(r)'
  BY DEF Local, FreshIsFree, Keeps, Spares
<1>5. QED
  BY <1>2, <1>3, <1>4 DEF Local

\* A step that leaves the tree alone spares everybody.
LEMMA QuietSpares ==
    ASSUME acct' = acct, NEW r \in Reqs
    PROVE  Spares(r)
BY DEF Spares, Sibling

\* The keys to insert stay keys of the request.
LEMMA TodoKept ==
    ASSUME NEW q \in Reqs, Local(q), UNCHANGED <<todo, op>>
    PROVE  todo'[q] \subseteq DOMAIN op'[q].keys
BY DEF Local, ClaimIsFree

\* A request that is answered relies on nothing.
LEMMA DoneLocal ==
    ASSUME NEW q \in Reqs, pc'[q] = "done", todo'[q] \subseteq DOMAIN op'[q].keys
    PROVE  Local(q)'
BY DEF Local, RowIsFrozen, ClaimIsFree, FreshIsFree
--------------------------------------------------------------------------------
(* The steps that leave the tree alone.  Two parts each: the request's own     *)
(* part of the invariant, and that the others are kept.                        *)

\* Nothing but the request that moves is disturbed.
LEMMA Quiet ==
    ASSUME TypeOK, \A r \in Reqs : Local(r), UniqueSiblings,
           NEW q \in Reqs, acct' = acct, \A r \in Reqs \ {q} : Keeps(r), Local(q)'
    PROVE  (\A r \in Reqs : Local(r)') /\ UniqueSiblings'
<1>1. ASSUME NEW r \in Reqs \ {q} PROVE Local(r)'
  BY <1>1, SparedLocal, QuietSpares
<1>2. UniqueSiblings'
  BY DEF UniqueSiblings, Sibling
<1>3. QED
  BY <1>1, <1>2

\* A request's own guids stay free until it commits.
LEMMA OwnFresh ==
    ASSUME NEW q \in Reqs, Local(q), pc[q] # "done", acct' = acct
    PROVE  FreshIsFree(q)'
BY DEF Local, FreshIsFree

LEMMA FailKeeps ==
    ASSUME TypeOK, NEW q \in Reqs, Fail(q),
           UNCHANGED <<op, top>>,
           \A r \in Reqs \ {q} : /\ cur'[r] = cur[r] /\ at'[r] = at[r] /\ made'[r] = made[r]
                                /\ todo'[r] = todo[r],
           todo'[q] \subseteq DOMAIN op[q].keys
    PROVE  (\A r \in Reqs \ {q} : Keeps(r)) /\ Local(q)'
<1>1. Release(q) /\ pc' = [pc EXCEPT ![q] = "done"]
  BY DEF Fail, Goto
<1>2. pc'[q] = "done" /\ \A r \in Reqs \ {q} : pc'[r] = pc[r]
  BY <1>1 DEF TypeOK
<1>3. ASSUME NEW r \in Reqs \ {q} PROVE Keeps(r)
  BY <1>1, <1>2, ReleaseKeeps DEF Keeps
<1>4. QED
  BY <1>2, <1>3, DoneLocal

LEMMA AskLocal ==
    ASSUME TypeOK, \A r \in Reqs : Local(r), NEW q \in Reqs, Ask(q)
    PROVE  Local(q)' /\ \A r \in Reqs \ {q} : Keeps(r)
<1>1. pc'[q] = "asked" /\ pc[q] = "ask" /\ UNCHANGED <<acct, made>>
  BY DEF Ask, TypeOK, Goto, At
<1>2. todo'[q] \subseteq DOMAIN op'[q].keys
  BY DEF Ask, TypeOK
<1>3. Local(q)'
  BY <1>1, <1>2, OwnFresh DEF Local, RowIsFrozen, ClaimIsFree
<1>4. QED
  BY <1>3 DEF Ask, Keeps, Goto, TypeOK, locks

LEMMA ResolveLocal ==
    ASSUME TypeOK, \A r \in Reqs : Local(r), NEW q \in Reqs, Resolve(q)
    PROVE  Local(q)' /\ \A r \in Reqs \ {q} : Keeps(r)
<1>1. pc'[q] \in {"resolved", "done"} /\ pc[q] = "asked" /\ UNCHANGED <<acct, made, op, todo>>
  BY DEF Resolve, TypeOK, Goto, At
<1>2. Local(q)'
  <2>1. CASE pc'[q] = "done"
    BY <1>1, <2>1, TodoKept, DoneLocal
  <2>2. CASE pc'[q] = "resolved"
    <3>1. FreshIsFree(q)' /\ made'[q] = {}
      BY <1>1, OwnFresh DEF Local, ClaimIsFree
    <3>2. RowIsFrozen(q)'
      BY <2>2 DEF RowIsFrozen
    <3>3. QED
      BY <1>1, <2>2, <3>1, <3>2, TodoKept DEF Local, ClaimIsFree
  <2>3. QED
    BY <1>1, <2>1, <2>2
<1>3. QED
  BY <1>2 DEF Resolve, Keeps, Goto, TypeOK, locks

LEMMA TryBookLocal ==
    ASSUME TypeOK, \A r \in Reqs : Local(r), NEW q \in Reqs, TryBook(q)
    PROVE  Local(q)' /\ \A r \in Reqs \ {q} : Keeps(r)
<1>1. pc'[q] \in {"booked", "done"} /\ pc[q] = "resolved" /\ UNCHANGED <<acct, made, op, todo>>
  BY DEF TryBook, TypeOK, Goto, At, plan
<1>2. Local(q)'
  <2>1. CASE pc'[q] = "done"
    BY <1>1, <2>1, TodoKept, DoneLocal
  <2>2. CASE pc'[q] = "booked"
    <3>1. FreshIsFree(q)' /\ made'[q] = {}
      BY <1>1, OwnFresh DEF Local, ClaimIsFree
    <3>2. RowIsFrozen(q)'
      BY <2>2 DEF RowIsFrozen
    <3>3. QED
      BY <1>1, <2>2, <3>1, <3>2, TodoKept DEF Local, ClaimIsFree
  <2>3. QED
    BY <1>1, <2>1, <2>2
<1>3. QED
  BY <1>2 DEF TryBook, Keeps, Goto, TypeOK, plan

LEMMA WaitBookLocal ==
    ASSUME TypeOK, \A r \in Reqs : Local(r), NEW q \in Reqs, WaitBook(q)
    PROVE  Local(q)' /\ \A r \in Reqs \ {q} : Keeps(r)
<1>1. pc'[q] = "booked" /\ pc[q] = "resolved" /\ UNCHANGED <<acct, made, op, todo>>
  BY DEF WaitBook, TypeOK, Goto, At, plan
<1>2. FreshIsFree(q)' /\ made'[q] = {}
  BY <1>1, OwnFresh DEF Local, ClaimIsFree
<1>3. RowIsFrozen(q)'
  BY <1>1 DEF RowIsFrozen
<1>4. Local(q)'
  BY <1>1, <1>2, <1>3, TodoKept DEF Local, ClaimIsFree
<1>5. QED
  BY <1>4 DEF WaitBook, Keeps, Goto, TypeOK, plan

LEMMA PromoteLocal ==
    ASSUME TypeOK, \A r \in Reqs : Local(r), NEW q \in Reqs, Promote(q)
    PROVE  Local(q)' /\ \A r \in Reqs \ {q} : Keeps(r)
<1>1. /\ pc'[q] = "valid" /\ pc[q] = "booked" /\ UNCHANGED <<acct, made, op>>
      /\ op[q].kind = "graft" /\ todo'[q] \subseteq DOMAIN op'[q].keys
  BY DEF Promote, TypeOK, Goto, At
<1>2. FreshIsFree(q)' /\ made'[q] = {} /\ Inserting(q)' = {}
  BY <1>1, OwnFresh DEF Local, ClaimIsFree, Inserting
<1>3. RowIsFrozen(q)'
  BY <1>1 DEF RowIsFrozen, Moves
<1>4. Local(q)'
  BY <1>1, <1>2, <1>3 DEF Local, ClaimIsFree, Moves
<1>5. ASSUME NEW r \in Reqs \ {q}, NEW g \in Guids, row[g] = r PROVE row'[g] = r
  BY <1>5, TreeAssumption DEF Promote
<1>6. QED
  BY <1>4, <1>5 DEF Promote, Keeps, Goto, TypeOK

LEMMA LockRowLocal ==
    ASSUME TypeOK, \A r \in Reqs : Local(r), NEW q \in Reqs, LockRow(q)
    PROVE  Local(q)' /\ \A r \in Reqs \ {q} : Keeps(r)
<1> DEFINE a == op[q].acct
<1>1. CASE acct[a].live
  <2>1. /\ row' = [row EXCEPT ![a] = q] /\ cur' = [cur EXCEPT ![q] = acct[a]]
        /\ pc' = [pc EXCEPT ![q] = "rowed"]
        /\ UNCHANGED <<acct, book, name, share, op, top, todo, at, made, try>>
        /\ Moves(q) /\ row[a] = NoReq /\ pc[q] = "booked"
    BY <1>1 DEF LockRow, Goto, At
  <2>2. a \in Guids
    BY Typed
  <2>3. row'[a] = q /\ cur'[q] = acct[a] /\ pc'[q] = "rowed" /\ Moves(q)'
    BY <2>1, <2>2 DEF TypeOK, Moves
  <2>4. RowIsFrozen(q)'
    BY <1>1, <2>1, <2>3 DEF RowIsFrozen, Moves
  <2>5. FreshIsFree(q)'
    BY <2>1, OwnFresh
  <2>6. ~Inserts(q)'
    BY <2>1 DEF Inserts, Moves
  <2>7. Local(q)'
    BY <2>1, <2>3, <2>4, <2>5, <2>6, TodoKept DEF Local, ClaimIsFree
  <2>8. ASSUME NEW r \in Reqs \ {q} PROVE Keeps(r)
    <3>1. \A g \in Guids : row[g] = r => row'[g] = r
      BY <2>1, TreeAssumption DEF TypeOK
    <3>2. QED
      BY <2>1, <3>1 DEF Keeps, TypeOK
  <2>9. QED
    BY <2>7, <2>8
<1>2. CASE ~acct[a].live
  BY <1>2, TodoKept, FailKeeps DEF LockRow
<1>3. QED
  BY <1>1, <1>2

LEMMA ValidateLocal ==
    ASSUME TypeOK, \A r \in Reqs : Local(r), NEW q \in Reqs, Moves(q), Validate(q)
    PROVE  Local(q)' /\ \A r \in Reqs \ {q} : Keeps(r)
<1>1. CASE Fail(q)
  BY <1>1, TodoKept, FailKeeps DEF Validate, plan
<1>2. CASE Goto(q, "valid") /\ UNCHANGED locks
  <2>1. /\ pc' = [pc EXCEPT ![q] = "valid"] /\ pc[q] = "rowed"
        /\ UNCHANGED <<acct, row, name, op, cur, todo, at, made>>
    BY <1>2 DEF Validate, Goto, At, plan, locks
  <2>2. pc'[q] = "valid" /\ Moves(q)' /\ ~Inserts(q)'
    BY <2>1 DEF TypeOK, Moves, Inserts
  <2>3. FreshIsFree(q)'
    BY <2>1, OwnFresh
  <2>4. RowIsFrozen(q)'
    BY <2>1, <2>2 DEF Local, RowIsFrozen
  <2>5. Local(q)'
    BY <2>1, <2>2, <2>3, <2>4, TodoKept DEF Local, ClaimIsFree
  <2>6. QED
    BY <2>1, <2>5 DEF Keeps, TypeOK
<1>3. QED
  BY <1>1, <1>2 DEF Validate

LEMMA ClaimLocal ==
    ASSUME TypeOK, \A r \in Reqs : Local(r), NEW q \in Reqs, Claim(q)
    PROVE  Local(q)' /\ \A r \in Reqs \ {q} : Keeps(r)
<1> DEFINE k == <<DestParent(q), DestName(q)>>
<1>1. CASE Fail(q)
  BY <1>1, TodoKept, FailKeeps DEF Claim, plan
<1>2. CASE ~Fail(q)
  <2>1. /\ pc' = [pc EXCEPT ![q] = "claimed"] /\ pc[q] = "valid" /\ Moves(q)
        /\ UNCHANGED <<acct, row, op, cur, todo, at, made>>
        /\ \/ ~Claims(q) /\ name' = name
           \/ /\ Claims(q) /\ name[k] = NoReq /\ name' = [name EXCEPT ![k] = q]
              /\ \A g \in Guids \ {op[q].acct} : ~Sibling(g, DestParent(q), DestName(q))
    BY <1>2 DEF Claim, Goto, At, plan, locks
  <2>2. /\ pc'[q] = "claimed" /\ Moves(q)' /\ ~Inserts(q)' /\ op'[q] = op[q]
        /\ DestParent(q)' = DestParent(q) /\ DestName(q)' = DestName(q)
        /\ Claims(q)' = Claims(q)
    BY <2>1 DEF TypeOK, Moves, Inserts, DestParent, DestName, Claims
  <2>3. FreshIsFree(q)'
    BY <2>1, OwnFresh
  <2>4. RowIsFrozen(q)'
    BY <2>1, <2>2 DEF Local, RowIsFrozen
  <2>5. ClaimIsFree(q)'
    <3>1. CASE ~Claims(q)
      BY <2>1, <2>2, <3>1, TodoKept DEF ClaimIsFree
    <3>2. CASE Claims(q)
      <4>1. k \in Guids \X Names
        BY <3>2, Typed DEF Claims
      <4>2. name'[k] = q
        BY <2>1, <3>2, <4>1 DEF TypeOK
      <4>3. \A g \in Guids \ {op[q].acct} : ~Sibling(g, DestParent(q), DestName(q))'
        BY <2>1, <2>2, <3>2 DEF Sibling
      <4>4. QED
        BY <2>1, <2>2, <4>2, <4>3, TodoKept DEF ClaimIsFree
    <3>3. QED
      BY <3>1, <3>2
  <2>6. ASSUME NEW r \in Reqs \ {q} PROVE Keeps(r)
    <3>1. r # NoReq
      BY TreeAssumption
    <3>2. \A j \in Guids \X Names : name[j] = r => name'[j] = r
      BY <2>1, <3>1 DEF TypeOK
    <3>3. QED
      BY <2>1, <3>2 DEF Keeps, TypeOK
  <2>7. QED
    BY <2>3, <2>4, <2>5, <2>6 DEF Local
<1>3. QED
  BY <1>1, <1>2

\* The keys of a create or of a graft.
LEMMA KeysTyped ==
    ASSUME TypeOK, NEW q \in Reqs, NEW i \in DOMAIN op[q].keys
    PROVE  KeyOf(q, i) \in Guids \X Names
<1>1. op[q].keys[i] \in Key
  BY Typed
<1>2. QED
  BY <1>1 DEF KeyOf, Key

\* What a request has inserted stays its own while it keeps the names of it.
LEMMA InsertedStays ==
    ASSUME TypeOK, NEW q \in Reqs, Local(q), Inserts(q), pc[q] \in {"resolved", "valid", "claimed"},
           NEW i \in Inserting(q), UNCHANGED <<acct, op>>,
           \A k \in Guids \X Names : name[k] = q => name'[k] = q
    PROVE  (i \in DOMAIN op[q].keys /\ name[KeyOf(q, i)] = q /\ ~TakenKey(q, i))'
<1>1. i \in DOMAIN op[q].keys /\ name[KeyOf(q, i)] = q /\ ~TakenKey(q, i)
  BY DEF Local, ClaimIsFree, Inserting
<1>2. KeyOf(q, i) \in Guids \X Names
  BY <1>1, KeysTyped
<1>3. KeyOf(q, i)' = KeyOf(q, i) /\ (TakenKey(q, i)' <=> TakenKey(q, i))
  BY DEF KeyOf, TakenKey, Taken, Sibling
<1>4. name'[KeyOf(q, i)] = q
  BY <1>1, <1>2
<1>5. QED
  BY <1>1, <1>3, <1>4

LEMMA ClaimKeyLocal ==
    ASSUME TypeOK, \A r \in Reqs : Local(r), NEW q \in Reqs, ClaimKey(q)
    PROVE  Local(q)' /\ \A r \in Reqs \ {q} : Keeps(r)
<1>1. PICK i \in todo[q] : ClaimsNth(q, i)
  BY ClaimKeyCases
<1>2. PICK k \in Guids \X Names : k = KeyOf(q, i) /\ name[k] = NoReq
  BY <1>1, KeysTyped DEF Local, ClaimIsFree, ClaimsNth
<1>0. /\ Inserts(q) /\ ~Moves(q) /\ pc[q] \in {"resolved", "valid"}
      /\ op[q].kind = "graft" => pc[q] = "valid"
      /\ UNCHANGED <<acct, op, cur>> /\ op[q].kind # "delete"
      /\ i \in DOMAIN op[q].keys /\ todo[q] \subseteq DOMAIN op[q].keys
  BY DEF ClaimKey, AtKeys, Inserts, Moves, Local, ClaimIsFree
<1>3. FreshIsFree(q)'
  BY <1>0, OwnFresh
<1>4. ~Moves(q)' /\ RowIsFrozen(q)'
  BY <1>0 DEF RowIsFrozen, Moves
<1>5. CASE /\ ~TakenKey(q, i)
           /\ name' = [name EXCEPT ![KeyOf(q, i)] = q] /\ at' = [at EXCEPT ![q] = i]
           /\ Goto(q, "claimed") /\ UNCHANGED <<book, row, share, todo, made, try>>
  <2>1. name' = [name EXCEPT ![k] = q]
    BY <1>2, <1>5
  <2>2. pc'[q] = "claimed" /\ name'[k] = q /\ at'[q] = i
    BY <1>5, <2>1 DEF Goto, TypeOK
  <2>3. \A j \in Guids \X Names : name[j] = q => name'[j] = q
    BY <2>1 DEF TypeOK
  <2>4. \A r \in Reqs \ {q} : \A j \in Guids \X Names : name[j] = r => name'[j] = r
    BY <1>2, <2>1, TreeAssumption DEF TypeOK
  <2>5. ASSUME NEW j \in Inserting(q)'
        PROVE  (j \in DOMAIN op[q].keys /\ name[KeyOf(q, j)] = q /\ ~TakenKey(q, j))'
    <3>1. j \in Inserting(q) \/ j = i
      BY <1>5, <2>2 DEF Inserting
    <3>2. CASE j \in Inserting(q)
      BY <1>0, <2>3, <3>2, InsertedStays
    <3>3. CASE j = i
      <4>1. KeyOf(q, i)' = k /\ (TakenKey(q, i)' <=> TakenKey(q, i))
        BY <1>0, <1>2 DEF KeyOf, TakenKey, Taken, Sibling
      <4>2. QED
        BY <1>0, <1>5, <2>2, <3>3, <4>1
    <3>4. QED
      BY <3>1, <3>2, <3>3
  <2>6. ClaimIsFree(q)'
    BY <1>0, <1>4, <1>5, <2>2, <2>5 DEF ClaimIsFree
  <2>7. \A r \in Reqs \ {q} : Keeps(r)
    BY <1>0, <1>5, <2>4 DEF Keeps, Goto, TypeOK
  <2>8. QED
    BY <1>3, <1>4, <2>6, <2>7 DEF Local
<1>6. CASE /\ op[q].kind = "graft"
           /\ name' = [name EXCEPT ![KeyOf(q, i)] = q]
           /\ todo' = [todo EXCEPT ![q] = @ \ {i}]
           /\ UNCHANGED <<pc, book, row, share, at, made, try>>
  <2>1. name' = [name EXCEPT ![k] = q]
    BY <1>2, <1>6
  <2>2. pc'[q] = "valid" /\ todo'[q] \subseteq DOMAIN op'[q].keys
    BY <1>0, <1>6 DEF TypeOK
  <2>3. \A j \in Guids \X Names : name[j] = q => name'[j] = q
    BY <2>1 DEF TypeOK
  <2>4. \A r \in Reqs \ {q} : \A j \in Guids \X Names : name[j] = r => name'[j] = r
    BY <1>2, <2>1, TreeAssumption DEF TypeOK
  <2>5. Inserting(q)' = Inserting(q)
    BY <1>6 DEF Inserting
  <2>6. \A j \in Inserting(q)' :
           (j \in DOMAIN op[q].keys /\ name[KeyOf(q, j)] = q /\ ~TakenKey(q, j))'
    BY <1>0, <2>3, <2>5, InsertedStays
  <2>7. ClaimIsFree(q)'
    BY <1>4, <2>2, <2>6 DEF ClaimIsFree
  <2>8. \A r \in Reqs \ {q} : Keeps(r)
    BY <1>0, <1>6, <2>4 DEF Keeps, TypeOK
  <2>9. QED
    BY <1>3, <1>4, <2>7, <2>8 DEF Local
<1>7. CASE /\ Goto(q, "resolved") /\ Release(q)
           /\ made' = [made EXCEPT ![q] = {}] /\ UNCHANGED <<todo, at>>
  <2>1. pc'[q] = "resolved" /\ made'[q] = {}
    BY <1>7 DEF Goto, TypeOK
  <2>2. ClaimIsFree(q)'
    BY <1>0, <1>7, <2>1 DEF ClaimIsFree
  <2>3. ASSUME NEW r \in Reqs \ {q} PROVE Keeps(r)
    BY <1>0, <1>7, ReleaseKeeps DEF Keeps, Goto, TypeOK
  <2>4. QED
    BY <1>3, <1>4, <2>2, <2>3 DEF Local
<1>8. CASE Fail(q) /\ UNCHANGED <<todo, at, made, try>>
  BY <1>0, <1>8, FailKeeps DEF ClaimKey
<1>9. QED
  BY <1>1, <1>5, <1>6, <1>7, <1>8 DEF ClaimsNth

LEMMA InsertLocal ==
    ASSUME TypeOK, \A r \in Reqs : Local(r), NEW q \in Reqs, Insert(q)
    PROVE  Local(q)' /\ \A r \in Reqs \ {q} : Keeps(r)
<1>0. todo[q] \subseteq DOMAIN op[q].keys
  BY DEF Local, ClaimIsFree
<1>1. CASE Fail(q) /\ UNCHANGED <<todo, made>>
  BY <1>0, <1>1, FailKeeps DEF Insert
<1>2. CASE ~(Fail(q) /\ UNCHANGED <<todo, made>>)
  <2>1. /\ pc[q] = "claimed" /\ pc'[q] \in {"inserted", "valid"} /\ Inserts(q)
        /\ made' = [made EXCEPT ![q] = @ \cup {at[q]}]
        /\ \A r \in Reqs \ {q} : pc'[r] = pc[r] /\ todo'[r] = todo[r] /\ made'[r] = made[r]
        /\ UNCHANGED <<acct, row, name, op, cur, at>>
        /\ todo' = [todo EXCEPT ![q] = @ \ {at[q]}]
    BY <1>2 DEF Insert, Goto, At, TypeOK
  <2>2. FreshIsFree(q)'
    BY <2>1, OwnFresh
  <2>3. ~Moves(q)' /\ op[q].kind # "delete"
    BY <2>1 DEF Moves, Inserts
  <2>4. Inserting(q)' = Inserting(q)
    BY <2>1 DEF Inserting, TypeOK
  <2>5. RowIsFrozen(q)'
    BY <2>1, <2>3 DEF RowIsFrozen
  <2>6. ClaimIsFree(q)'
    <3>1. \A i \in Inserting(q)' :
             (i \in DOMAIN op[q].keys /\ name[KeyOf(q, i)] = q /\ ~TakenKey(q, i))'
      BY <2>1, <2>4, InsertedStays
    <3>2. pc'[q] \notin {"ask", "asked", "resolved", "booked"}
      BY <2>1
    <3>3. todo'[q] \subseteq DOMAIN op'[q].keys
      BY <1>0, <2>1 DEF TypeOK
    <3>4. QED
      BY <2>3, <3>1, <3>2, <3>3 DEF ClaimIsFree
  <2>7. QED
    BY <2>1, <2>2, <2>5, <2>6 DEF Local, Keeps
<1>3. QED
  BY <1>1, <1>2

LEMMA LockDeletedLocal ==
    ASSUME TypeOK, \A r \in Reqs : Local(r), NEW q \in Reqs, LockDeleted(q)
    PROVE  Local(q)' /\ \A r \in Reqs \ {q} : Keeps(r)
<1>1. CASE Fail(q)
  BY <1>1, TodoKept, FailKeeps DEF LockDeleted, plan
<1>2. CASE ~Fail(q)
  <2>1. /\ row' = [row EXCEPT ![op[q].acct] = q] /\ row[op[q].acct] = NoReq
        /\ pc' = [pc EXCEPT ![q] = "rowed"] /\ pc[q] = "resolved" /\ op[q].kind = "delete"
        /\ UNCHANGED <<acct, name, op, cur, todo, at, made>>
    BY <1>2 DEF LockDeleted, Goto, At, plan
  <2>2. op[q].acct \in Guids
    BY Typed
  <2>3. pc'[q] = "rowed" /\ row'[op[q].acct] = q /\ ~Moves(q)' /\ ~Inserts(q)'
    BY <2>1, <2>2 DEF TypeOK, Moves, Inserts
  <2>4. FreshIsFree(q)'
    BY <2>1, OwnFresh
  <2>5. RowIsFrozen(q)' /\ ClaimIsFree(q)'
    BY <2>1, <2>3, TodoKept DEF RowIsFrozen, ClaimIsFree
  <2>6. ASSUME NEW r \in Reqs \ {q} PROVE Keeps(r)
    <3>1. \A g \in Guids : row[g] = r => row'[g] = r
      BY <2>1, TreeAssumption DEF TypeOK
    <3>2. QED
      BY <2>1, <3>1 DEF Keeps, TypeOK
  <2>7. QED
    BY <2>4, <2>5, <2>6 DEF Local
<1>3. QED
  BY <1>1, <1>2
--------------------------------------------------------------------------------
(* The steps that change the tree. *)

LEMMA WriteLocal ==
    ASSUME TypeOK, \A r \in Reqs : Local(r), UniqueSiblings, NEW q \in Reqs, Write(q)
    PROVE  (\A r \in Reqs : Local(r)') /\ UniqueSiblings'
<1>0. PICK a \in Guids : a = op[q].acct
  BY Typed
<1>1. /\ pc[q] = "claimed" /\ Moves(q) /\ row[a] = q /\ acct[a] = cur[q] /\ cur[q].live
  BY <1>0 DEF Write, At, Local, RowIsFrozen
<1>2. (\A r \in Reqs \ {q} : Keeps(r)) /\ Local(q)'
  BY TodoKept, FailKeeps DEF Write, plan
<1>3. CASE acct' = acct
  BY <1>2, <1>3, Quiet
<1>4. CASE acct' # acct
  <2> DEFINE moved == [live |-> acct[a].live,
              name |-> IF op[q].name = Same THEN acct[a].name ELSE op[q].name,
              parent |-> IF op[q].parent = Same THEN acct[a].parent ELSE op[q].parent]
  <2>1. acct' = [acct EXCEPT ![a] = moved]
    BY <1>0, <1>4 DEF Write
  <2>2. moved.live /\ moved.name = DestName(q) /\ moved.parent = DestParent(q)
    BY <1>1 DEF DestName, DestParent
  <2>3. /\ acct'[a] = moved
        /\ \A g \in Guids \ {a} : acct'[g] = acct[g]
    <3> HIDE DEF moved
    <3>1. QED
      BY <2>1, <1>1 DEF TypeOK
  <2>4. acct'[a].live /\ acct'[a].name = DestName(q) /\ acct'[a].parent = DestParent(q)
    BY <2>2, <2>3
  <2> HIDE DEF moved
  \* The account that moved has its name to itself.
  <2>5. ASSUME NEW p \in Guids, NEW n \in Names, Sibling(a, p, n)'
        PROVE  /\ p = DestParent(q) /\ n = DestName(q)
               /\ Sibling(a, p, n) \/ name[<<p, n>>] = q
               /\ \A g \in Guids \ {a} : ~Sibling(g, p, n)
    <3>1. p = DestParent(q) /\ n = DestName(q)
      BY <2>4, <2>5 DEF Sibling
    <3>2. CASE Claims(q)
      BY <1>0, <1>1, <3>1, <3>2 DEF Local, ClaimIsFree
    <3>3. CASE ~Claims(q)
      <4>1. DestParent(q) = cur[q].parent /\ DestName(q) = cur[q].name
        BY <3>1, <3>3, TreeAssumption DEF Claims
      <4>2. Sibling(a, p, n)
        BY <1>1, <3>1, <4>1 DEF Sibling
      <4>3. QED
        BY <1>1, <3>1, <4>2 DEF UniqueSiblings
    <3>4. QED
      BY <3>2, <3>3
  <2>6. \A g \in Guids \ {a}, p \in Guids, n \in Names : Sibling(g, p, n)' <=> Sibling(g, p, n)
    BY <2>3 DEF Sibling
  <2>7. UniqueSiblings'
    <3>1. ASSUME NEW g \in Guids, NEW h \in Guids, NEW p \in Guids, NEW n \in Names,
                 Sibling(g, p, n)', Sibling(h, p, n)'
          PROVE  g = h
      <4>1. CASE g # a /\ h # a
        <5>1. Sibling(g, p, n) /\ Sibling(h, p, n)
          BY <2>6, <3>1, <4>1
        <5>2. QED
          BY <5>1 DEF UniqueSiblings
      <4>2. CASE g = a /\ h # a
        BY <2>5, <2>6, <3>1, <4>2
      <4>3. CASE g # a /\ h = a
        BY <2>5, <2>6, <3>1, <4>3
      <4>4. QED
        BY <4>1, <4>2, <4>3
    <3>2. QED
      BY <3>1 DEF UniqueSiblings
  <2>8. ASSUME NEW r \in Reqs \ {q} PROVE Spares(r)
    <3>1. (Moves(r) /\ pc[r] \in {"rowed", "valid", "claimed"})
             => acct'[op[r].acct] = acct[op[r].acct]
      BY <1>0, <1>1, <2>3, Typed DEF Local, RowIsFrozen
    <3>2. ASSUME NEW p \in Guids, NEW n \in Names, name[<<p, n>>] = r,
                 NEW g \in Guids, Sibling(g, p, n)'
          PROVE  Sibling(g, p, n)
      BY <2>5, <2>6, <3>2
    <3>3. ASSUME NEW i \in DOMAIN New[r], acct'[New[r][i]].live PROVE acct[New[r][i]].live
      <4>1. New[r][i] \in Guids
        BY TreeAssumption
      <4>2. QED
        BY <4>1, <1>1, <2>3, <3>3
    <3>4. QED
      BY <3>1, <3>2, <3>3 DEF Spares
  <2>9. QED
    BY <1>2, <2>7, <2>8, SparedLocal
<1>5. QED
  BY <1>3, <1>4

LEMMA CommitLocal ==
    ASSUME TypeOK, \A r \in Reqs : Local(r), UniqueSiblings, NEW q \in Reqs, Commit(q)
    PROVE  (\A r \in Reqs : Local(r)') /\ UniqueSiblings'
<1> DEFINE Mine(g) == \E i \in made[q] : New[q][i] = g
           Nth(g) == CHOOSE i \in made[q] : New[q][i] = g
           K(i) == op[q].keys[i]
<1>1. Inserts(q) /\ pc[q] \in {"inserted", "valid"}
  BY DEF Commit
<1>2. (\A r \in Reqs \ {q} : Keeps(r)) /\ Local(q)'
  BY TodoKept, FailKeeps DEF Commit, plan
<1>3. \A g \in Guids : acct'[g] =
          IF Mine(g) THEN [live |-> TRUE, name |-> K(Nth(g)).name, parent |-> K(Nth(g)).parent]
          ELSE acct[g]
  BY DEF Commit
<1>4. \A i \in made[q] : /\ i \in DOMAIN op[q].keys /\ i \in DOMAIN New[q]
                         /\ name[<<K(i).parent, K(i).name>>] = q
                         /\ ~Taken(K(i).parent, K(i).name)
  <2>1. \A i \in made[q] : /\ i \in DOMAIN op[q].keys
                           /\ name[<<K(i).parent, K(i).name>>] = q
                           /\ ~Taken(K(i).parent, K(i).name)
    BY <1>1 DEF Local, ClaimIsFree, Inserting, KeyOf, TakenKey
  <2>2. op[q] # None
    BY <1>1 DEF Inserts, None
  <2>3. QED
    BY <2>1, <2>2, Typed
<1>5. op[q] \in Ops
  BY <1>1 DEF TypeOK, Inserts, None
<1>6. ASSUME NEW g \in Guids, Mine(g)
      PROVE  Nth(g) \in made[q] /\ New[q][Nth(g)] = g /\ ~acct[g].live
  <2>1. Nth(g) \in made[q] /\ New[q][Nth(g)] = g
    BY <1>6
  <2>2. QED
    BY <1>1, <1>4, <2>1 DEF Local, FreshIsFree
<1> HIDE DEF Mine, Nth
<1>7. ASSUME NEW g \in Guids, NEW p \in Guids, NEW n \in Names, Sibling(g, p, n)'
      PROVE  \/ ~Mine(g) /\ Sibling(g, p, n)
             \/ /\ Mine(g) /\ K(Nth(g)).parent = p /\ K(Nth(g)).name = n
                /\ name[<<p, n>>] = q /\ ~Taken(p, n)
  <2>1. CASE Mine(g)
    <3>1. K(Nth(g)).parent = p /\ K(Nth(g)).name = n
      <4>1. acct'[g] = [live |-> TRUE, name |-> K(Nth(g)).name, parent |-> K(Nth(g)).parent]
        BY <1>3, <2>1
      <4>2. acct'[g].parent = p /\ acct'[g].name = n
        BY <1>7 DEF Sibling
      <4>3. QED
        BY <4>1, <4>2
    <3>2. QED
      BY <1>4, <1>6, <2>1, <3>1
  <2>2. CASE ~Mine(g)
    BY <1>3, <1>7, <2>2 DEF Sibling
  <2>3. QED
    BY <2>1, <2>2
<1>8. UniqueSiblings'
  <2>1. ASSUME NEW g \in Guids, NEW h \in Guids, NEW p \in Guids, NEW n \in Names,
               Sibling(g, p, n)', Sibling(h, p, n)'
        PROVE  g = h
    <3>1. CASE ~Mine(g) /\ ~Mine(h)
      BY <1>7, <2>1, <3>1 DEF UniqueSiblings
    <3>2. CASE Mine(g) /\ Mine(h)
      <4>1. K(Nth(g)).parent = K(Nth(h)).parent /\ K(Nth(g)).name = K(Nth(h)).name
        <5>1. K(Nth(g)).parent = p /\ K(Nth(g)).name = n
          BY <1>7, <2>1, <3>2
        <5>2. K(Nth(h)).parent = p /\ K(Nth(h)).name = n
          BY <1>7, <2>1, <3>2
        <5>3. QED
          BY <5>1, <5>2
      <4>2. Nth(g) \in DOMAIN op[q].keys /\ Nth(h) \in DOMAIN op[q].keys
        BY <1>4, <1>6, <3>2
      <4>3. Nth(g) = Nth(h)
        BY <1>5, <4>1, <4>2, TreeAssumption
      <4>4. QED
        BY <1>6, <3>2, <4>3
    <3>3. CASE Mine(g) /\ ~Mine(h)
      BY <1>7, <2>1, <3>3 DEF Taken
    <3>4. CASE ~Mine(g) /\ Mine(h)
      BY <1>7, <2>1, <3>4 DEF Taken
    <3>5. QED
      BY <3>1, <3>2, <3>3, <3>4
  <2>2. QED
    BY <2>1 DEF UniqueSiblings, Sibling
<1>9. ASSUME NEW r \in Reqs \ {q} PROVE Spares(r)
  <2>1. (Moves(r) /\ pc[r] \in {"rowed", "valid", "claimed"})
           => acct'[op[r].acct] = acct[op[r].acct]
    BY <1>3, <1>6, Typed DEF Local, RowIsFrozen
  <2>2. ASSUME NEW p \in Guids, NEW n \in Names, name[<<p, n>>] = r,
               NEW g \in Guids, Sibling(g, p, n)'
        PROVE  Sibling(g, p, n)
    BY <1>7, <2>2
  <2>3. ASSUME NEW i \in DOMAIN New[r], acct'[New[r][i]].live PROVE acct[New[r][i]].live
    <3>1. New[r][i] \in Guids
      BY TreeAssumption
    <3>2. ~Mine(New[r][i])
      <4>1. SUFFICES ASSUME Mine(New[r][i]) PROVE FALSE
        OBVIOUS
      <4>2. PICK j \in made[q] : New[q][j] = New[r][i]
        BY <4>1 DEF Mine
      <4>3. j \in DOMAIN New[q]
        BY <1>4
      <4>4. QED
        BY <4>2, <4>3, TreeAssumption
    <3>3. QED
      BY <1>3, <2>3, <3>1, <3>2
  <2>4. QED
    BY <2>1, <2>2, <2>3 DEF Spares
<1>10. QED
  BY <1>2, <1>8, <1>9, SparedLocal

LEMMA DeleteLocal ==
    ASSUME TypeOK, \A r \in Reqs : Local(r), UniqueSiblings, NEW q \in Reqs, Delete(q)
    PROVE  (\A r \in Reqs : Local(r)') /\ UniqueSiblings'
<1>1. row[op[q].acct] = q
  BY DEF Delete, At, Local, RowIsFrozen
<1>2. (\A r \in Reqs \ {q} : Keeps(r)) /\ Local(q)'
  BY TodoKept, FailKeeps DEF Delete, plan
<1>3. ASSUME NEW g \in Guids
      PROVE  /\ acct'[g] = acct[g] \/ acct'[g].parent = NoParent
             /\ acct'[g].live => acct[g].live
             /\ acct'[g] # acct[g] => row[g] \in {q, NoReq}
  <2>1. acct[g] \in Row
    BY DEF TypeOK
  <2>2. CASE g = op[q].acct
    <3>1. acct'[g] = [acct[g] EXCEPT !.live = FALSE, !.parent = NoParent]
      BY <2>2 DEF Delete
    <3>2. QED
      BY <1>1, <2>1, <2>2, <3>1 DEF Row
  <2>3. CASE g # op[q].acct /\ ForeignKey /\ g \in Children(q)
    <3>1. acct'[g] = [acct[g] EXCEPT !.parent = NoParent] /\ row[g] = NoReq
      BY <2>3 DEF Delete
    <3>2. QED
      BY <2>1, <3>1 DEF Row
  <2>4. CASE g # op[q].acct /\ ~(ForeignKey /\ g \in Children(q))
    BY <2>4 DEF Delete
  <2>5. QED
    BY <2>2, <2>3, <2>4
<1>4. \A g \in Guids, p \in Guids, n \in Names : Sibling(g, p, n)' => Sibling(g, p, n)
  BY <1>3, TreeAssumption DEF Sibling
<1>5. UniqueSiblings'
  BY <1>4 DEF UniqueSiblings
<1>6. ASSUME NEW r \in Reqs \ {q} PROVE Spares(r)
  <2>1. (Moves(r) /\ pc[r] \in {"rowed", "valid", "claimed"})
           => acct'[op[r].acct] = acct[op[r].acct]
    BY <1>3, Typed, TreeAssumption DEF Local, RowIsFrozen
  <2>2. \A i \in DOMAIN New[r] : acct'[New[r][i]].live => acct[New[r][i]].live
    <3>1. \A i \in DOMAIN New[r] : New[r][i] \in Guids
      BY TreeAssumption
    <3>2. QED
      BY <1>3, <3>1
  <2>3. QED
    BY <1>4, <2>1, <2>2 DEF Spares
<1>7. QED
  BY <1>2, <1>5, <1>6, SparedLocal
--------------------------------------------------------------------------------
(* The theorems. *)

LEMMA SiblingInit == Init => SiblingInv
<1> SUFFICES ASSUME Init PROVE SiblingInv
  OBVIOUS
<1>1. ASSUME NEW q \in Reqs PROVE Local(q)
  <2>1. pc[q] = "ask" /\ made[q] = {} /\ todo[q] = {} /\ acct = InitTree
    BY DEF Init
  <2>2. FreshIsFree(q)
    BY <2>1, TreeAssumption DEF FreshIsFree
  <2>3. QED
    BY <2>1, <2>2 DEF Local, RowIsFrozen, ClaimIsFree
<1>2. UniqueSiblings
  BY TreeAssumption DEF Init, UniqueSiblings, Sibling
<1>3. QED
  BY <1>1, <1>2, TypeOKInit DEF SiblingInv

LEMMA SiblingNext == SiblingInv /\ [Next]_vars => SiblingInv'
<1> SUFFICES ASSUME SiblingInv, [Next]_vars PROVE (\A q \in Reqs : Local(q)') /\ UniqueSiblings'
  BY TypeOKNext DEF SiblingInv
<1>0. TypeOK /\ (\A q \in Reqs : Local(q)) /\ UniqueSiblings
  BY DEF SiblingInv
<1>1. ASSUME NEW q \in Reqs, Ask(q) \/ Resolve(q) \/ TryBook(q) \/ WaitBook(q) \/ Promote(q)
      PROVE  (\A r \in Reqs : Local(r)') /\ UniqueSiblings'
  <2>1. acct' = acct
    BY <1>1 DEF Ask, Resolve, TryBook, WaitBook, Promote
  <2>2. QED
    BY <1>0, <1>1, <2>1, AskLocal, ResolveLocal, TryBookLocal, WaitBookLocal, PromoteLocal, Quiet
<1>2. ASSUME NEW q \in Reqs, \/ LockRow(q) \/ (Moves(q) /\ Validate(q)) \/ Claim(q)
                             \/ ClaimKey(q) \/ Insert(q) \/ LockDeleted(q)
      PROVE  (\A r \in Reqs : Local(r)') /\ UniqueSiblings'
  <2>1. acct' = acct
    BY <1>2 DEF LockRow, Validate, Claim, ClaimKey, Insert, LockDeleted
  <2>2. QED
    BY <1>0, <1>2, <2>1, LockRowLocal, ValidateLocal, ClaimLocal, ClaimKeyLocal, InsertLocal,
       LockDeletedLocal, Quiet, SMTT(40)
<1>3. ASSUME NEW q \in Reqs, Write(q) \/ Commit(q) \/ Delete(q)
      PROVE  (\A r \in Reqs : Local(r)') /\ UniqueSiblings'
  BY <1>0, <1>3, WriteLocal, CommitLocal, DeleteLocal
<1>4. CASE UNCHANGED vars
  BY <1>0, <1>4, SMTT(30) DEF vars, locks, plan, Local, RowIsFrozen, ClaimIsFree, FreshIsFree,
     Moves, Inserts, Claims, DestParent, DestName, Inserting, KeyOf, TakenKey, Taken, Sibling,
     UniqueSiblings
<1>5. QED
  BY <1>1, <1>2, <1>3, <1>4 DEF Next

\* Every variable keeps its type: what a request is at in its keys, and the rows
\* that grafts insert, stay within what the client asked for.
THEOREM Typing == Spec => []TypeOK
<1>1. SiblingInv => TypeOK
  BY DEF SiblingInv
<1>2. QED
  BY <1>1, SiblingInit, SiblingNext, PTL DEF Spec

\* claimSiblingName, lockAccountKey and their callers: however many requests
\* create, rename, move, graft and delete, two live accounts never have one name
\* under one parent, whether or not the database has its foreign key.
THEOREM Siblings == Spec => []UniqueSiblings
<1>1. SiblingInv => UniqueSiblings
  BY DEF SiblingInv
<1>2. QED
  BY <1>1, SiblingInit, SiblingNext, PTL DEF Spec
--------------------------------------------------------------------------------
(* Who has which lock, and who waits.                                          *)

\* A step takes locks for the request that makes it and releases none of another's.
TakesOwn(q) ==
    /\ \A r \in Reqs \ {q} : op'[r] = op[r] /\ pc'[r] = pc[r]
    /\ \A g \in Guids : /\ book'[g] \in {book[g], q, NoReq} /\ row'[g] \in {row[g], q, NoReq}
                        /\ book[g] \notin {q, NoReq} => book'[g] = book[g]
    /\ \A k \in Guids \X Names : name'[k] \in {name[k], q, NoReq}

LEMMA OthersHold ==
    ASSUME TypeOK, NEW q \in Reqs, TakesOwn(q), NEW r \in Reqs \ {q}, Holds(r)
    PROVE  Holds(r)'
<1>1. /\ HoldsBook(r)' = HoldsBook(r) /\ HoldsRow(r)' = HoldsRow(r)
      /\ HoldsName(r)' = HoldsName(r) /\ IsGraft(r)' = IsGraft(r) /\ pc'[r] = pc[r]
  BY DEF TakesOwn, HoldsBook, HoldsRow, HoldsName, IsGraft, Moves, Reparents
<1>2. r # NoReq /\ Root \in Guids
  BY TreeAssumption
<1>3. \A g \in Guids : /\ book'[g] = r => book[g] = r
                       /\ row'[g] = r => row[g] = r
                       /\ book[g] = r => book'[g] = r
  BY <1>2 DEF TakesOwn
<1>4. \A k \in Guids \X Names : name'[k] = r => name[k] = r
  BY <1>2 DEF TakesOwn
<1>5. QED
  BY <1>1, <1>2, <1>3, <1>4 DEF Holds

\* A request that has released what it had holds nothing.
LEMMA ReleasedHolds ==
    ASSUME TypeOK, NEW q \in Reqs, Release(q), pc'[q] \in {"done", "resolved"},
           \A r \in Reqs \ {q} : op'[r] = op[r] /\ pc'[r] = pc[r]
    PROVE  Holds(q)' /\ TakesOwn(q)
<1>1. q # NoReq
  BY TreeAssumption
<1>2. \A g \in Guids : /\ book'[g] = (IF book[g] = q THEN NoReq ELSE book[g])
                       /\ row'[g] = (IF row[g] = q THEN NoReq ELSE row[g])
  BY DEF Release
<1>3. \A k \in Guids \X Names : name'[k] = (IF name[k] = q THEN NoReq ELSE name[k])
  BY DEF Release
<1>4. TakesOwn(q)
  BY <1>2, <1>3 DEF TakesOwn
<1>5. \A g \in Guids : book'[g] # q /\ row'[g] # q
  BY <1>1, <1>2
<1>6. \A k \in Guids \X Names : name'[k] # q
  BY <1>1, <1>3
<1>7. Holds(q)'
  BY <1>5, <1>6 DEF Holds
<1>8. QED
  BY <1>4, <1>7

\* A request keeps what it holds when it stays entitled to it.
LEMMA StillHolds ==
    ASSUME NEW q \in Reqs, Holds(q), HoldsBook(q) => HoldsBook(q)', HoldsRow(q) => HoldsRow(q)',
           HoldsName(q) => HoldsName(q)',
           \A g \in Guids : /\ book'[g] = q => book[g] = q \/ HoldsBook(q)'
                            /\ row'[g] = q => row[g] = q \/ HoldsRow(q)',
           \A k \in Guids \X Names : name'[k] = q => name[k] = q \/ HoldsName(q)',
           (IsGraft(q)' /\ pc'[q] \in {"booked", "valid", "claimed"}) => book'[Root] = q
    PROVE  Holds(q)'
BY DEF Holds

LEMMA FailHolds ==
    ASSUME TypeOK, NEW q \in Reqs, Fail(q), UNCHANGED op
    PROVE  Holds(q)' /\ TakesOwn(q)
<1>1. Release(q) /\ pc'[q] = "done" /\ \A r \in Reqs \ {q} : pc'[r] = pc[r]
  BY DEF Fail, Goto, TypeOK
<1>2. QED
  BY <1>1, ReleasedHolds

\* A request that goes from one place to another.
Goes(q, from, to) ==
    /\ pc[q] = from /\ pc' = [pc EXCEPT ![q] = to] /\ UNCHANGED op

LEMMA GoesTo ==
    ASSUME TypeOK, NEW q \in Reqs, NEW from, NEW to, Goes(q, from, to)
    PROVE  /\ pc[q] = from /\ pc'[q] = to /\ op'[q] = op[q]
           /\ IsGraft(q)' = IsGraft(q) /\ Moves(q)' = Moves(q) /\ Reparents(q)' = Reparents(q)
           /\ \A r \in Reqs \ {q} : op'[r] = op[r] /\ pc'[r] = pc[r]
BY DEF Goes, TypeOK, IsGraft, Moves, Reparents

LEMMA BeginHolds ==
    ASSUME TypeOK, NEW q \in Reqs, Holds(q), Ask(q) \/ Resolve(q)
    PROVE  Holds(q)' /\ TakesOwn(q)
<1>1. /\ pc[q] \in {"ask", "asked"} /\ pc'[q] \in {"asked", "resolved", "done"}
      /\ UNCHANGED locks /\ \A r \in Reqs \ {q} : op'[r] = op[r] /\ pc'[r] = pc[r]
  BY DEF Ask, Resolve, At, Goto, TypeOK
<1>2. ~HoldsBook(q) /\ ~HoldsRow(q) /\ ~HoldsName(q)
  BY <1>1 DEF HoldsBook, HoldsRow, HoldsName
<1>3. QED
  BY <1>1, <1>2, StillHolds DEF TakesOwn, locks

LEMMA TryBookHolds ==
    ASSUME TypeOK, NEW q \in Reqs, Holds(q), TryBook(q)
    PROVE  Holds(q)' /\ TakesOwn(q)
<1>1. PICK to \in {"booked", "done"} : Goes(q, "resolved", to)
  BY DEF TryBook, Goes, Goto, At, plan
<1>2. /\ Moves(q) /\ UNCHANGED <<row, name>>
      /\ \/ book' = book
         \/ Reparents(q) /\ book[top[q]] = NoReq /\ book' = [book EXCEPT ![top[q]] = q] /\ to = "booked"
  <2>1. pc' = [pc EXCEPT ![q] = "booked"] => to = "booked"
    BY <1>1 DEF Goes, TypeOK
  <2>2. QED
    BY <2>1 DEF TryBook, Goto
<1>3. ~HoldsBook(q) /\ ~HoldsRow(q) /\ ~HoldsName(q)
  BY <1>1, <1>2, GoesTo DEF HoldsBook, HoldsRow, HoldsName, IsGraft, Moves
<1>4. ~IsGraft(q)'
  BY <1>1, <1>2, GoesTo DEF IsGraft, Moves
<1>5. \A g \in Guids : book'[g] = book[g] \/ (book'[g] = q /\ book[g] = NoReq /\ HoldsBook(q)')
  BY <1>1, <1>2, GoesTo DEF TypeOK, HoldsBook
<1>6. TakesOwn(q)
  BY <1>1, <1>2, <1>5, GoesTo DEF TakesOwn
<1>7. QED
  BY <1>2, <1>3, <1>4, <1>5, <1>6, StillHolds

LEMMA WaitBookHolds ==
    ASSUME TypeOK, NEW q \in Reqs, Holds(q), WaitBook(q)
    PROVE  Holds(q)' /\ TakesOwn(q)
<1>1. /\ Goes(q, "resolved", "booked") /\ op[q].kind = "graft" /\ book[Root] = NoReq
      /\ book' = [book EXCEPT ![Root] = q] /\ UNCHANGED <<row, name>>
  BY DEF WaitBook, Goes, Goto, At, plan
<1>2. ~HoldsBook(q) /\ ~HoldsRow(q) /\ ~HoldsName(q) /\ HoldsBook(q)'
  BY <1>1, GoesTo DEF HoldsBook, HoldsRow, HoldsName, IsGraft, Moves, Reparents
<1>3. book'[Root] = q /\ \A g \in Guids : book'[g] = book[g] \/ (book'[g] = q /\ book[g] = NoReq)
  BY <1>1, TreeAssumption DEF TypeOK
<1>4. TakesOwn(q)
  BY <1>1, <1>3, GoesTo DEF TakesOwn
<1>5. QED
  BY <1>1, <1>2, <1>3, <1>4, StillHolds

LEMMA PromoteHolds ==
    ASSUME TypeOK, NEW q \in Reqs, Holds(q), Promote(q)
    PROVE  Holds(q)' /\ TakesOwn(q)
<1>1. /\ Goes(q, "booked", "valid") /\ op[q].kind = "graft" /\ UNCHANGED <<book, name>>
      /\ row' = [g \in Guids |-> IF g \in Promoted(q) THEN q ELSE row[g]]
  BY DEF Promote, Goes, Goto, At
<1>2. ~HoldsRow(q) /\ ~HoldsName(q) /\ HoldsRow(q)' /\ HoldsBook(q)' /\ IsGraft(q)
  BY <1>1, GoesTo DEF HoldsBook, HoldsRow, HoldsName, IsGraft, Moves, Reparents
<1>3. book[Root] = q
  BY <1>1, <1>2 DEF Holds, Goes
<1>4. \A g \in Guids : row'[g] \in {row[g], q}
  BY <1>1
<1>5. TakesOwn(q)
  BY <1>1, <1>4, GoesTo DEF TakesOwn
<1>6. QED
  BY <1>1, <1>2, <1>3, <1>5, StillHolds

LEMMA LockRowHolds ==
    ASSUME TypeOK, NEW q \in Reqs, Holds(q), LockRow(q)
    PROVE  Holds(q)' /\ TakesOwn(q)
<1>1. CASE Fail(q)
  BY <1>1, FailHolds DEF LockRow
<1>2. CASE ~Fail(q)
  <2>1. /\ Goes(q, "booked", "rowed") /\ Moves(q) /\ UNCHANGED <<book, name>>
        /\ row' = [row EXCEPT ![op[q].acct] = q]
    BY <1>2 DEF LockRow, Goes, Goto, At
  <2>2. /\ ~HoldsRow(q) /\ ~HoldsName(q) /\ HoldsRow(q)' /\ HoldsBook(q)' = HoldsBook(q)
        /\ ~IsGraft(q)'
    BY <2>1, GoesTo DEF HoldsBook, HoldsRow, HoldsName, IsGraft, Moves, Reparents
  <2>3. \A g \in Guids : row'[g] \in {row[g], q}
    BY <2>1 DEF TypeOK
  <2>4. TakesOwn(q)
    BY <2>1, <2>3, GoesTo DEF TakesOwn
  <2>5. QED
    BY <2>1, <2>2, <2>4, StillHolds
<1>3. QED
  BY <1>1, <1>2

LEMMA ValidateHolds ==
    ASSUME TypeOK, NEW q \in Reqs, Holds(q), Moves(q), Validate(q)
    PROVE  Holds(q)' /\ TakesOwn(q)
<1>1. CASE Fail(q)
  BY <1>1, FailHolds DEF Validate, plan
<1>2. CASE ~Fail(q)
  <2>1. Goes(q, "rowed", "valid") /\ UNCHANGED <<book, row, name>>
    BY <1>2 DEF Validate, Goes, Goto, At, plan, locks
  <2>2. /\ HoldsRow(q)' = HoldsRow(q) /\ ~HoldsName(q) /\ HoldsBook(q)' = HoldsBook(q)
        /\ ~IsGraft(q)'
    BY <2>1, GoesTo DEF HoldsBook, HoldsRow, HoldsName, IsGraft, Moves, Reparents
  <2>3. TakesOwn(q)
    BY <2>1, GoesTo DEF TakesOwn
  <2>4. QED
    BY <2>1, <2>2, <2>3, StillHolds
<1>3. QED
  BY <1>1, <1>2

LEMMA ClaimHolds ==
    ASSUME TypeOK, NEW q \in Reqs, Holds(q), Claim(q)
    PROVE  Holds(q)' /\ TakesOwn(q)
<1>1. CASE Fail(q)
  BY <1>1, FailHolds DEF Claim, plan
<1>2. CASE ~Fail(q)
  <2>1. /\ Goes(q, "valid", "claimed") /\ Moves(q) /\ UNCHANGED <<book, row>>
        /\ name' = name \/ name' = [name EXCEPT ![<<DestParent(q), DestName(q)>>] = q]
    BY <1>2 DEF Claim, Goes, Goto, At, plan, locks
  <2>2. /\ HoldsRow(q)' = HoldsRow(q) /\ HoldsName(q)' /\ HoldsBook(q)' = HoldsBook(q)
        /\ ~IsGraft(q)'
    BY <2>1, GoesTo DEF HoldsBook, HoldsRow, HoldsName, IsGraft, Moves, Reparents
  <2>3. \A k \in Guids \X Names : name'[k] \in {name[k], q}
    BY <2>1 DEF TypeOK
  <2>4. TakesOwn(q)
    BY <2>1, <2>3, GoesTo DEF TakesOwn
  <2>5. QED
    BY <2>1, <2>2, <2>4, StillHolds
<1>3. QED
  BY <1>1, <1>2

LEMMA ClaimKeyHolds ==
    ASSUME TypeOK, NEW q \in Reqs, Holds(q), ClaimKey(q)
    PROVE  Holds(q)' /\ TakesOwn(q)
<1>1. PICK i \in todo[q] : ClaimsNth(q, i)
  BY ClaimKeyCases
<1>2. /\ UNCHANGED op /\ Inserts(q) /\ pc[q] = (IF op[q].kind = "create" THEN "resolved" ELSE "valid")
  BY DEF ClaimKey, AtKeys
<1>3. CASE Fail(q) \/ (Goto(q, "resolved") /\ Release(q))
  <2>1. /\ pc'[q] \in {"done", "resolved"} /\ Release(q)
        /\ \A r \in Reqs \ {q} : op'[r] = op[r] /\ pc'[r] = pc[r]
    BY <1>2, <1>3 DEF Fail, Goto, TypeOK
  <2>2. QED
    BY <2>1, ReleasedHolds
<1>4. CASE ~(Fail(q) \/ (Goto(q, "resolved") /\ Release(q)))
  <2>1. /\ UNCHANGED <<book, row>> /\ name' = [name EXCEPT ![KeyOf(q, i)] = q]
        /\ \/ Goes(q, pc[q], "claimed")
           \/ Goes(q, pc[q], "valid") /\ pc[q] = "valid" /\ op[q].kind = "graft"
    <3>1. pc[q] = "valid" => [pc EXCEPT ![q] = "valid"] = pc
      BY DEF TypeOK
    <3>2. op[q].kind = "graft" => pc[q] = "valid"
      BY <1>2
    <3>3. QED
      BY <1>1, <1>2, <1>4, <3>1, <3>2 DEF ClaimsNth, Goes, Goto
  <2>2. \A k \in Guids \X Names : name'[k] \in {name[k], q}
    BY <2>1 DEF TypeOK
  <2>3. PICK to \in {"claimed", "valid"} :
          Goes(q, pc[q], to) /\ (to = "valid" => op[q].kind = "graft")
    BY <2>1
  <2>4. /\ HoldsName(q)' /\ (HoldsRow(q) => HoldsRow(q)')
        /\ HoldsBook(q) => HoldsBook(q)'
    BY <1>2, <2>3, GoesTo DEF HoldsBook, HoldsRow, HoldsName, IsGraft, Moves, Reparents, Inserts
  <2>5. (IsGraft(q)' /\ pc'[q] \in {"booked", "valid", "claimed"}) => book'[Root] = q
    BY <1>2, <2>1, <2>3, GoesTo DEF Holds, IsGraft
  <2>6. TakesOwn(q)
    BY <2>1, <2>2, <2>3, GoesTo DEF TakesOwn
  <2>7. QED
    BY <2>1, <2>4, <2>5, <2>6, StillHolds
<1>5. QED
  BY <1>3, <1>4

LEMMA InsertHolds ==
    ASSUME TypeOK, NEW q \in Reqs, Holds(q), Insert(q)
    PROVE  Holds(q)' /\ TakesOwn(q)
<1>1. CASE Fail(q)
  BY <1>1, FailHolds DEF Insert
<1>2. CASE ~Fail(q)
  <2>1. /\ Goes(q, "claimed", IF op[q].kind = "create" THEN "inserted" ELSE "valid") /\ Inserts(q)
        /\ UNCHANGED <<book, row, name>>
    BY <1>2 DEF Insert, Goes, Goto, At
  <2>2. /\ HoldsRow(q)' = HoldsRow(q) /\ (HoldsName(q) => HoldsName(q)')
        /\ HoldsBook(q)' = HoldsBook(q)
    BY <2>1, GoesTo DEF HoldsBook, HoldsRow, HoldsName, IsGraft, Moves, Reparents, Inserts
  <2>3. (IsGraft(q)' /\ pc'[q] \in {"booked", "valid", "claimed"}) => book'[Root] = q
    BY <2>1, GoesTo DEF Holds, IsGraft
  <2>4. TakesOwn(q)
    BY <2>1, GoesTo DEF TakesOwn
  <2>5. QED
    BY <2>1, <2>2, <2>3, <2>4, StillHolds
<1>3. QED
  BY <1>1, <1>2

LEMMA LockDeletedHolds ==
    ASSUME TypeOK, NEW q \in Reqs, Holds(q), LockDeleted(q)
    PROVE  Holds(q)' /\ TakesOwn(q)
<1>1. CASE Fail(q)
  BY <1>1, FailHolds DEF LockDeleted, plan
<1>2. CASE ~Fail(q)
  <2>1. /\ Goes(q, "resolved", "rowed") /\ op[q].kind = "delete" /\ UNCHANGED <<book, name>>
        /\ row' = [row EXCEPT ![op[q].acct] = q]
    BY <1>2 DEF LockDeleted, Goes, Goto, At, plan
  <2>2. /\ ~HoldsBook(q) /\ ~HoldsRow(q) /\ ~HoldsName(q) /\ HoldsRow(q)' /\ ~IsGraft(q)'
    BY <2>1, GoesTo DEF HoldsBook, HoldsRow, HoldsName, IsGraft, Moves, Reparents
  <2>3. \A g \in Guids : row'[g] \in {row[g], q}
    BY <2>1 DEF TypeOK
  <2>4. TakesOwn(q)
    BY <2>1, <2>3, GoesTo DEF TakesOwn
  <2>5. QED
    BY <2>1, <2>2, <2>4, StillHolds
<1>3. QED
  BY <1>1, <1>2

\* Nobody refers to a row in a database without the foreign key.
LEMMA KeylessNext ==
    ASSUME TypeOK, ~ForeignKey, \A g \in Guids : share[g] = {}, [Next]_vars
    PROVE  \A g \in Guids : share'[g] = {}
<1>1. ASSUME NEW q \in Reqs, Release(q) PROVE \A g \in Guids : share'[g] = {}
  BY <1>1 DEF Release
<1>2. CASE UNCHANGED vars
  BY <1>2 DEF vars, locks
<1>3. ASSUME NEW q \in Reqs, \/ Ask(q) \/ Resolve(q) \/ TryBook(q) \/ WaitBook(q) \/ Promote(q)
      PROVE  UNCHANGED share
  BY <1>3 DEF Ask, Resolve, TryBook, WaitBook, Promote, locks
<1>4. ASSUME NEW q \in Reqs, \/ LockRow(q) \/ Validate(q) \/ Claim(q) \/ LockDeleted(q)
      PROVE  UNCHANGED share \/ Release(q)
  BY <1>4 DEF LockRow, Validate, Claim, LockDeleted, Fail, locks
<1>5. ASSUME NEW q \in Reqs, ClaimKey(q) PROVE UNCHANGED share \/ Release(q)
  <2>1. PICK i \in todo[q] : ClaimsNth(q, i)
    BY <1>5, ClaimKeyCases
  <2>2. QED
    BY <2>1 DEF ClaimsNth, Fail
<1>6. ASSUME NEW q \in Reqs, Insert(q) PROVE UNCHANGED share \/ Release(q)
  BY <1>6 DEF Insert, Fail
<1>7. ASSUME NEW q \in Reqs, Write(q) \/ Commit(q) \/ Delete(q) PROVE Release(q)
  <2>1. CASE Write(q)
    BY <2>1 DEF Write, Fail
  <2>2. CASE Commit(q)
    BY <2>2 DEF Commit, Fail
  <2>3. CASE Delete(q)
    BY <2>3, Zenon DEF Delete, Fail
  <2>4. QED
    BY <1>7, <2>1, <2>2, <2>3
<1>8. QED
  BY <1>1, <1>2, <1>3, <1>4, <1>5, <1>6, <1>7 DEF Next

LEMMA LockInit == Init => LockInv
<1> SUFFICES ASSUME Init PROVE LockInv
  OBVIOUS
<1>1. ASSUME NEW q \in Reqs PROVE Holds(q)
  <2>1. q # NoReq /\ pc[q] = "ask"
    BY TreeAssumption DEF Init
  <2>2. QED
    BY <2>1 DEF Init, Holds
<1>2. QED
  BY <1>1, TypeOKInit DEF LockInv, Init

LEMMA LockNext == SiblingInv /\ LockInv /\ [Next]_vars => LockInv'
<1> SUFFICES ASSUME SiblingInv, LockInv, [Next]_vars PROVE \A q \in Reqs : Holds(q)'
  BY TypeOKNext, KeylessNext DEF LockInv, SiblingInv
<1>0. TypeOK /\ \A q \in Reqs : Holds(q)
  BY DEF LockInv
<1>1. ASSUME NEW q \in Reqs, Holds(q)', TakesOwn(q) PROVE \A r \in Reqs : Holds(r)'
  BY <1>0, <1>1, OthersHold
<1>2. ASSUME NEW q \in Reqs, Ask(q) \/ Resolve(q) \/ TryBook(q) \/ WaitBook(q) \/ Promote(q)
      PROVE  \A r \in Reqs : Holds(r)'
  BY <1>0, <1>1, <1>2, BeginHolds, TryBookHolds, WaitBookHolds, PromoteHolds
<1>3. ASSUME NEW q \in Reqs, LockRow(q) \/ (Moves(q) /\ Validate(q)) \/ Claim(q) \/ ClaimKey(q)
                             \/ Insert(q) \/ LockDeleted(q)
      PROVE  \A r \in Reqs : Holds(r)'
  BY <1>0, <1>1, <1>3, LockRowHolds, ValidateHolds, ClaimHolds, ClaimKeyHolds, InsertHolds,
     LockDeletedHolds
<1>4. ASSUME NEW q \in Reqs, Write(q) \/ Commit(q) \/ Delete(q) PROVE \A r \in Reqs : Holds(r)'
  <2>1. ASSUME Write(q) PROVE Fail(q) /\ UNCHANGED op
    BY <2>1 DEF Write, plan
  <2>2. ASSUME Commit(q) PROVE Fail(q) /\ UNCHANGED op
    BY <2>2 DEF Commit, plan
  <2>3. ASSUME Delete(q) PROVE Fail(q) /\ UNCHANGED op
    <3>1. Fail(q) /\ UNCHANGED plan
      BY <2>3, Zenon DEF Delete
    <3>2. QED
      BY <3>1 DEF plan
  <2>4. QED
    BY <1>0, <1>1, <1>4, <2>1, <2>2, <2>3, FailHolds
<1>5. CASE UNCHANGED vars
  BY <1>0, <1>5 DEF vars, locks, plan, Holds, HoldsBook, HoldsRow, HoldsName, IsGraft, Moves, Reparents
<1>6. QED
  BY <1>2, <1>3, <1>4, <1>5 DEF Next

\* The level of what a request waits for: those it waits for are of a lower one.
Level(q) ==
    IF pc[q] = "resolved" /\ IsGraft(q) THEN 4
    ELSE IF \/ pc[q] = "booked" /\ (IsGraft(q) \/ Moves(q))
            \/ pc[q] = "resolved" /\ op[q].kind = "delete" THEN 3
    ELSE IF \/ pc[q] = "valid" /\ Moves(q)
            \/ pc[q] = "resolved" /\ op[q].kind = "create" THEN 2
    ELSE IF pc[q] = "valid" /\ IsGraft(q) THEN 1
    ELSE 0

\* By the level of the holder.
LEMMA HolderLevel ==
    ASSUME NEW r \in Reqs
    PROVE  /\ Level(r) \in 0..4
           /\ HoldsBook(r) => Level(r) < 4
           /\ HoldsRow(r) => Level(r) < 3
           /\ HoldsName(r) => Level(r) < 2
           /\ (HoldsName(r) /\ ~(IsGraft(r) /\ pc[r] = "valid")) => Level(r) = 0
BY DEF Level, HoldsBook, HoldsRow, HoldsName, IsGraft, Moves, Reparents

\* Whom a request waits for, without the foreign key.
LEMMA WaitsDown ==
    ASSUME SiblingInv, LockInv, ~ForeignKey, NEW q \in Reqs, NEW r \in WaitsFor(q), r \in Reqs
    PROVE  Level(r) < Level(q)
<1>0. /\ TypeOK /\ Holds(q) /\ Holds(r) /\ r # q /\ r # NoReq /\ \A g \in Guids : share[g] = {}
  BY TreeAssumption DEF LockInv, WaitsFor
<1>1. op[q].acct \in Guids /\ Root \in Guids
  BY <1>0, Typed, TreeAssumption
<1>2. CASE pc[q] = "resolved" /\ IsGraft(q)
  <2>1. r = book[Root]
    BY <1>2 DEF WaitsFor, At, IsGraft, Moves, AtKeys, Inserts
  <2>2. Level(q) = 4
    BY <1>2 DEF Level
  <2>3. HoldsBook(r)
    BY <1>0, <1>1, <2>1 DEF Holds
  <2>4. QED
    BY <2>2, <2>3, HolderLevel
<1>3. CASE pc[q] = "booked" /\ IsGraft(q)
  <2>1. \E g \in Promoted(q) : r = row[g]
    BY <1>3 DEF WaitsFor, At, IsGraft, Moves, AtKeys, Inserts
  <2>2. Promoted(q) \subseteq Guids
    BY <1>0, Typed DEF Promoted
  <2>3. HoldsRow(r) /\ Level(q) = 3
    BY <1>0, <1>3, <2>1, <2>2 DEF Holds, Level
  <2>4. QED
    BY <2>3, HolderLevel
<1>4. CASE \/ pc[q] = "booked" /\ Moves(q)
           \/ pc[q] = "resolved" /\ op[q].kind = "delete"
  <2>1. r = row[op[q].acct]
    BY <1>0, <1>1, <1>4 DEF WaitsFor, RowWait, At, IsGraft, Moves, AtKeys, Inserts
  <2>2. HoldsRow(r) /\ Level(q) = 3
    BY <1>0, <1>1, <1>4, <2>1 DEF Holds, Level, Moves, IsGraft
  <2>3. QED
    BY <2>2, HolderLevel
<1>5. CASE pc[q] = "valid" /\ Moves(q)
  <2>1. Claims(q) /\ r = name[<<DestParent(q), DestName(q)>>]
    BY <1>5 DEF WaitsFor, At, Moves, AtKeys, Inserts
  <2>2. <<DestParent(q), DestName(q)>> \in Guids \X Names
    BY <1>0, <2>1, Typed DEF Claims
  <2>3. HoldsName(r)
    BY <1>0, <2>1, <2>2 DEF Holds
  <2>4. Level(q) = 2
    BY <1>5 DEF Level, Moves, IsGraft
  <2>5. QED
    BY <2>3, <2>4, HolderLevel
<1>6. CASE AtKeys(q)
  <2>1. PICK i \in todo[q] : r = name[KeyOf(q, i)]
    BY <1>6 DEF WaitsFor, At, Moves, AtKeys, Inserts
  <2>2. KeyOf(q, i) \in Guids \X Names
    BY <1>0, <2>1, KeysTyped DEF SiblingInv, Local, ClaimIsFree
  <2>3. HoldsName(r)
    BY <1>0, <2>1, <2>2 DEF Holds
  <2>4. CASE op[q].kind = "create"
    <3>1. Level(q) = 2
      BY <1>6, <2>4 DEF Level, AtKeys, IsGraft, Moves
    <3>2. QED
      BY <2>3, <3>1, HolderLevel
  <2>5. CASE op[q].kind = "graft"
    <3>1. Level(q) = 1 /\ pc[q] = "valid" /\ IsGraft(q)
      BY <1>6, <2>5 DEF Level, AtKeys, IsGraft, Moves
    <3>2. book[Root] = q
      BY <1>0, <3>1 DEF Holds
    <3>3. ~(IsGraft(r) /\ pc[r] = "valid")
      BY <1>0, <3>2 DEF Holds
    <3>4. QED
      BY <2>3, <3>1, <3>3, HolderLevel
  <2>6. QED
    BY <1>6, <2>4, <2>5 DEF AtKeys, Inserts
<1>7. CASE ~(\/ pc[q] = "resolved" /\ (IsGraft(q) \/ op[q].kind = "delete")
             \/ pc[q] = "booked" /\ (IsGraft(q) \/ Moves(q))
             \/ pc[q] = "valid" /\ Moves(q)
             \/ AtKeys(q))
  <2>1. WaitsFor(q) = {}
    BY <1>7 DEF WaitsFor, At, IsGraft, Refers
  <2>2. QED
    BY <2>1
<1>8. QED
  BY <1>2, <1>3, <1>4, <1>5, <1>6, <1>7

\* Where those waited for are of a lower level, nobody waits in a circle.
LEMMA LevelsEnd ==
    ASSUME \A q \in Reqs : \A r \in WaitsFor(q) \cap Reqs : Level(r) < Level(q)
    PROVE  NoWaitCycle
<1> SUFFICES ASSUME NEW S \in (SUBSET Reqs) \ {{}} PROVE \E q \in S : WaitsFor(q) \cap S = {}
  BY DEF NoWaitCycle
<1>0. \A q \in S : Level(q) \in 0..4
  BY HolderLevel
<1>1. ASSUME NEW q \in S, \A r \in S : Level(q) <= Level(r) PROVE WaitsFor(q) \cap S = {}
  BY <1>0, <1>1
<1>2. \E q \in S : \A r \in S : Level(q) <= Level(r)
  <2>1. \E q \in S : Level(q) \in 0..4
    BY <1>0
  <2>2. CASE \E q \in S : Level(q) = 0
    BY <1>0, <2>2
  <2>3. CASE (\E q \in S : Level(q) = 1) /\ \A q \in S : Level(q) # 0
    BY <1>0, <2>3
  <2>4. CASE (\E q \in S : Level(q) = 2) /\ \A q \in S : Level(q) \notin {0, 1}
    BY <1>0, <2>4
  <2>5. CASE (\E q \in S : Level(q) = 3) /\ \A q \in S : Level(q) \notin {0, 1, 2}
    BY <1>0, <2>5
  <2>6. CASE \A q \in S : Level(q) \notin {0, 1, 2, 3}
    BY <1>0, <2>1, <2>6
  <2>7. QED
    BY <1>0, <2>2, <2>3, <2>4, <2>5, <2>6
<1>3. QED
  BY <1>1, <1>2

\* The three levels of locks, in a database without the foreign key: no circle of
\* requests, whatever they are and however many, each of which waits for an
\* advisory lock or a row of another.
THEOREM Waits == ASSUME ~ForeignKey PROVE Spec => []NoWaitCycle
<1>1. SiblingInv /\ LockInv => NoWaitCycle
  BY WaitsDown, LevelsEnd
<1>2. QED
  BY <1>1, SiblingInit, SiblingNext, LockInit, LockNext, PTL DEF Spec
--------------------------------------------------------------------------------
(* The tree.  Who walks up comes by what is upward closed: to show that x does *)
(* not reach y is to give an upward closed set with x and without y.           *)

Shape == RootOnTop /\ ParentsAreLive /\ TreeIsAcyclic

\* What a step leaves of the tree: its shape, and what is in the book.
KeepsShape ==
    /\ RootOnTop' /\ ParentsAreLive' /\ TreeIsAcyclic'
    /\ \A x \in Guids : /\ acct[x].live => acct'[x].live
                        /\ InBook(x) => InBook(x)'

\* Who does not reach another does not come to.
KeepsApart ==
    \A x \in Guids, y \in Guids : acct[x].live /\ ~Reaches(x, y) => ~Reaches(x, y)'

\* Above an account of the book, only the book's top has no parent.
LEMMA TopIsRoot ==
    ASSUME TypeOK, RootOnTop, NEW a \in Guids, Reaches(a, Root)
    PROVE  TopOf(a) = Root
<1> DEFINE D == {z \in Guids : Reaches(z, Root)}
<1>0. Root \in Guids /\ NoParent \notin Guids
  BY TreeAssumption
<1>1. ASSUME NEW z \in D, acct[z].parent = NoParent PROVE z = Root
  <2>1. Upward({z})
    BY <1>1 DEF Upward
  <2>2. Root \in {z}
    BY <2>1 DEF Reaches
  <2>3. QED
    BY <2>2
<1>2. ASSUME NEW z \in D, acct[z].parent \in Guids PROVE acct[z].parent \in D
  <2>1. SUFFICES ASSUME NEW S \in SUBSET Guids, acct[z].parent \in S, Upward(S) PROVE Root \in S
    BY <1>2 DEF Reaches
  <2>2. Upward(S \cup {z})
    BY <2>1 DEF Upward
  <2>3. Root \in S \cup {z}
    BY <2>2 DEF Reaches
  <2>4. CASE Root = z
    BY <1>0, <2>1, <2>4 DEF RootOnTop
  <2>5. QED
    BY <2>3, <2>4
<1>3. Upward(D)
  <2>1. \A z \in D : acct[z].parent \in Guids \cup {NoParent}
    BY DEF TypeOK, Row
  <2>2. QED
    BY <1>2, <2>1 DEF Upward
<1>4. ASSUME NEW y \in Guids, Reaches(a, y), acct[y].parent = NoParent PROVE y = Root
  <2>1. y \in D
    BY <1>3, <1>4 DEF Reaches
  <2>2. QED
    BY <1>1, <1>4, <2>1
<1>5. Reaches(a, Root) /\ acct[Root].parent = NoParent
  BY DEF RootOnTop
<1>6. QED
  BY <1>0, <1>4, <1>5 DEF TopOf

\* A step that changes no parent.
LEMMA SameTree ==
    ASSUME Shape,
           \A g \in Guids : acct'[g].parent = acct[g].parent /\ acct'[g].live = acct[g].live
    PROVE  KeepsShape /\ KeepsApart
<1>0. Root \in Guids
  BY TreeAssumption
<1>1. \A S \in SUBSET Guids : Upward(S)' <=> Upward(S)
  BY DEF Upward
<1>2. \A x \in Guids, y \in Guids : Reaches(x, y)' <=> Reaches(x, y)
  BY <1>1 DEF Reaches
<1>3. KeepsApart
  BY <1>2 DEF KeepsApart
<1>4. TreeIsAcyclic'
  BY DEF Shape, TreeIsAcyclic
<1>5. RootOnTop' /\ ParentsAreLive'
  BY <1>0 DEF Shape, RootOnTop, ParentsAreLive
<1>6. \A x \in Guids : InBook(x) => InBook(x)'
  BY <1>0, <1>2 DEF InBook
<1>7. QED
  BY <1>3, <1>4, <1>5, <1>6 DEF KeepsShape

\* A step that adds accounts of which nobody is a child, below some that are there.
LEMMA GrownTree ==
    ASSUME TypeOK, Shape, NEW M \in SUBSET Guids, \A g \in M : ~acct[g].live,
           \A g \in M : /\ acct'[g].live /\ acct'[g].parent \in Guids
                        /\ acct[acct'[g].parent].live,
           \A g \in Guids \ M : acct'[g] = acct[g]
    PROVE  KeepsShape /\ KeepsApart
<1>0. Root \in Guids /\ NoParent \notin Guids
  BY TreeAssumption
<1>1. \A g \in Guids : /\ acct[g].parent \in Guids \cup {NoParent} /\ acct[g].parent \notin M
                       /\ g \in M => acct'[g].parent \notin M
  BY <1>0 DEF TypeOK, Row, Shape, ParentsAreLive
<1>2. \A S \in SUBSET Guids : (Upward(S)' => Upward(S \ M)) /\ (Upward(S) => Upward(S \ M)')
  BY <1>1 DEF Upward
<1>3. ASSUME NEW x \in Guids, NEW y \in Guids, acct[x].live, ~Reaches(x, y)
      PROVE  ~Reaches(x, y)'
  <2>1. PICK T \in SUBSET Guids : x \in T /\ Upward(T) /\ y \notin T
    BY <1>3 DEF Reaches
  <2>2. x \in T \ M /\ y \notin T \ M /\ Upward(T \ M)'
    BY <1>2, <1>3, <2>1
  <2>3. QED
    BY <2>2 DEF Reaches
<1>4. ASSUME NEW x \in Guids, InBook(x) PROVE InBook(x)'
  <2>1. x \notin M /\ acct'[x].live
    BY <1>4 DEF InBook
  <2>2. ASSUME NEW S \in SUBSET Guids, x \in S, Upward(S)' PROVE Root \in S
    <3>1. x \in S \ M /\ Upward(S \ M)
      BY <1>2, <2>1, <2>2
    <3>2. QED
      BY <1>4, <3>1 DEF InBook, Reaches
  <2>3. QED
    BY <2>1, <2>2 DEF InBook, Reaches
<1>5. TreeIsAcyclic'
  <2>1. SUFFICES ASSUME NEW S \in (SUBSET Guids) \ {{}} PROVE \E g \in S : acct'[g].parent \notin S
    BY DEF TreeIsAcyclic
  <2>2. CASE S \subseteq M
    BY <1>1, <2>2
  <2>3. CASE S \ M # {}
    <3>1. PICK g \in S \ M : acct[g].parent \notin S \ M
      BY <2>3 DEF Shape, TreeIsAcyclic
    <3>2. acct'[g].parent = acct[g].parent /\ acct[g].parent \notin M
      BY <1>1, <3>1
    <3>3. QED
      BY <3>1, <3>2
  <2>4. QED
    BY <2>2, <2>3
<1>6. RootOnTop'
  BY <1>0 DEF Shape, RootOnTop
<1>7. \A x \in Guids : acct[x].live => acct'[x].live
  OBVIOUS
<1>8. ParentsAreLive'
  BY <1>7 DEF Shape, ParentsAreLive
<1>9. QED
  BY <1>3, <1>4, <1>5, <1>6, <1>7, <1>8 DEF KeepsShape, KeepsApart

\* A step that hangs an account of the book below another, from which it is not
\* reached.
LEMMA HungTree ==
    ASSUME TypeOK, Shape, NEW a \in Guids, NEW p \in Guids, InBook(p), ~Reaches(p, a),
           acct'[a].live = acct[a].live, acct'[a].parent = p,
           \A g \in Guids \ {a} : acct'[g] = acct[g]
    PROVE  KeepsShape
<1>0. Root \in Guids /\ NoParent \notin Guids
  BY TreeAssumption
<1>1. PICK T \in SUBSET Guids : p \in T /\ Upward(T) /\ a \notin T
  BY DEF Reaches
<1>2. \A g \in Guids : acct[g].parent \in Guids \cup {NoParent}
  BY DEF TypeOK, Row
<1>3. ASSUME NEW x \in Guids, InBook(x) PROVE InBook(x)'
  <2>1. ASSUME NEW S \in SUBSET Guids, x \in S, Upward(S)' PROVE Root \in S
    <3>1. CASE a \notin S
      <4>1. Upward(S)
        BY <2>1, <3>1 DEF Upward
      <4>2. QED
        BY <1>3, <2>1, <4>1 DEF InBook, Reaches
    <3>2. CASE a \in S
      <4>1. p \in S \cap T
        BY <1>0, <1>1, <2>1, <3>2 DEF Upward
      <4>2. Upward(S \cap T)
        <5>1. SUFFICES ASSUME NEW g \in S \cap T, acct[g].parent # NoParent
                       PROVE  acct[g].parent \in S \cap T
          BY DEF Upward
        <5>2. acct'[g].parent = acct[g].parent
          BY <1>1
        <5>3. acct'[g].parent \in S /\ acct[g].parent \in T
          BY <1>1, <2>1, <5>1, <5>2 DEF Upward
        <5>4. QED
          BY <5>2, <5>3
      <4>3. QED
        BY <4>1, <4>2 DEF InBook, Reaches
    <3>3. QED
      BY <3>1, <3>2
  <2>2. acct'[x].live
    BY <1>3 DEF InBook
  <2>3. QED
    BY <2>1, <2>2 DEF InBook, Reaches
<1>4. TreeIsAcyclic'
  <2>1. SUFFICES ASSUME NEW S \in (SUBSET Guids) \ {{}} PROVE \E g \in S : acct'[g].parent \notin S
    BY DEF TreeIsAcyclic
  <2>2. CASE S \cap T # {}
    <3>1. PICK g \in S \cap T : acct[g].parent \notin S \cap T
      BY <2>2 DEF Shape, TreeIsAcyclic
    <3>2. acct[g].parent \in T \cup {NoParent} /\ acct'[g] = acct[g]
      BY <1>1, <3>1 DEF Upward
    <3>3. QED
      BY <1>0, <3>1, <3>2
  <2>3. CASE S \cap T = {}
    <3>1. PICK g \in S : acct[g].parent \notin S
      BY DEF Shape, TreeIsAcyclic
    <3>2. p \notin S
      BY <1>1, <2>3
    <3>3. QED
      BY <3>1, <3>2
  <2>4. QED
    BY <2>2, <2>3
<1>5. RootOnTop'
  <2>1. a # Root
    BY DEF InBook
  <2>2. QED
    BY <1>0, <2>1 DEF Shape, RootOnTop
<1>6. \A x \in Guids : acct[x].live => acct'[x].live
  OBVIOUS
<1>7. ParentsAreLive'
  <2>1. ASSUME NEW g \in Guids, acct'[g].parent \in Guids PROVE acct'[acct'[g].parent].live
    <3>1. CASE g = a
      BY <1>6, <3>1 DEF InBook
    <3>2. CASE g # a
      BY <1>6, <2>1, <3>2 DEF Shape, ParentsAreLive
    <3>3. QED
      BY <3>1, <3>2
  <2>2. QED
    BY <2>1 DEF ParentsAreLive
<1>8. QED
  BY <1>3, <1>4, <1>5, <1>6, <1>7 DEF KeepsShape

\* What TreeInv says of one request.
OwnTree(q) ==
    /\ pc[q] # "ask" => InItsBook(q)
    /\ Reparents(q) => GoesByItsLock(q)

\* What a step of q leaves of the others.
OthersGoOn(q) ==
    \A r \in Reqs \ {q} : /\ op'[r] = op[r] /\ pc'[r] = pc[r] /\ top'[r] = top[r]
                          /\ book[Root] = r => book'[Root] = r

\* A request that reparents has a new parent.
LEMMA NewParent ==
    ASSUME TypeOK, NobodyLeaves, NEW q \in Reqs
    PROVE  /\ op[q].kind # "delete"
           /\ Reparents(q) => Moves(q) /\ op[q].parent \in Guids /\ op[q].acct \in Guids
<1>1. op[q] \in Ops \/ op[q] = None
  BY DEF TypeOK
<1>2. CASE op[q] = None
  BY <1>2 DEF None, Reparents
<1>3. CASE op[q] \in Ops
  <2>1. /\ op[q].kind # "delete" /\ op[q].parent # NoParent
        /\ (op[q].kind = "move") => op[q].parent # Same
        /\ op[q] \in Request
    BY <1>3, TreeAssumption DEF NobodyLeaves
  <2>2. op[q].acct \in Guids /\ op[q].parent \in Guids \cup {NoParent, Same}
    BY <2>1 DEF Request
  <2>3. QED
    BY <2>1, <2>2 DEF Reparents, Moves
<1>4. QED
  BY <1>1, <1>2, <1>3

LEMMA StaysInBook ==
    ASSUME TypeOK, NEW q \in Reqs, op'[q] = op[q], InItsBook(q), KeepsShape
    PROVE  InItsBook(q)'
<1>1. Moves(q)' = Moves(q) /\ op[q].acct \in Guids
  BY Typed DEF Moves
<1>2. \A i \in DOMAIN op[q].keys : op[q].keys[i].parent \in Guids
  BY Typed DEF Key
<1>3. \A x \in Guids : (acct[x].live => acct'[x].live) /\ (InBook(x) => InBook(x)')
  BY DEF KeepsShape
<1>4. Moves(q)' => InBook(op[q].acct)' /\ (op[q].parent \in Guids => InBook(op[q].parent)')
  BY <1>1, <1>3 DEF InItsBook
<1>5. \A i \in DOMAIN op[q].keys : acct'[op[q].keys[i].parent].live
  BY <1>2, <1>3 DEF InItsBook
<1>6. QED
  BY <1>4, <1>5 DEF InItsBook

\* The others keep what they rely on: nobody but who hangs an account below
\* another can have its book.
LEMMA OthersTree ==
    ASSUME TypeOK, NobodyLeaves, NEW q \in Reqs, OthersGoOn(q), KeepsShape,
           KeepsApart \/ book[Root] = q,
           NEW r \in Reqs \ {q}, OwnTree(r)
    PROVE  OwnTree(r)'
<1>1. /\ op'[r] = op[r] /\ pc'[r] = pc[r] /\ top'[r] = top[r] /\ Reparents(r)' = Reparents(r)
      /\ book[Root] = r => book'[Root] = r
  BY DEF OthersGoOn, Reparents
<1>2. ASSUME pc[r] # "ask" PROVE InItsBook(r)'
  BY <1>1, <1>2, StaysInBook DEF OwnTree
<1>3. ASSUME Reparents(r), pc[r] \in {"valid", "claimed"}
      PROVE  ~Reaches(op[r].parent, op[r].acct)'
  <2>1. book[Root] = r /\ ~Reaches(op[r].parent, op[r].acct)
    BY <1>3 DEF OwnTree, GoesByItsLock
  <2>2. KeepsApart
    BY <2>1
  <2>3. op[r].parent \in Guids /\ op[r].acct \in Guids /\ InBook(op[r].parent)
    BY <1>3, NewParent DEF OwnTree, InItsBook
  <2>4. QED
    BY <1>1, <2>1, <2>2, <2>3 DEF KeepsApart, InBook
<1>4. Reparents(r) => GoesByItsLock(r)'
  BY <1>1, <1>3 DEF OwnTree, GoesByItsLock
<1>5. QED
  BY <1>1, <1>2, <1>4 DEF OwnTree

\* A request that ends, or starts again without a lock, has none to go by.
LEMMA EndsTree ==
    ASSUME TypeOK, NEW q \in Reqs, Release(q), NEW to, pc' = [pc EXCEPT ![q] = to],
           to = "done" \/ ~Reparents(q),
           UNCHANGED <<op, top>>, pc[q] # "ask", OwnTree(q), KeepsShape
    PROVE  OwnTree(q)' /\ OthersGoOn(q)
<1>1. pc'[q] = to /\ \A r \in Reqs \ {q} : pc'[r] = pc[r]
  BY DEF TypeOK
<1>2. Root \in Guids /\ q # NoReq
  BY TreeAssumption
<1>3. OthersGoOn(q)
  BY <1>1, <1>2 DEF OthersGoOn, Release
<1>4. InItsBook(q)' /\ Reparents(q)' = Reparents(q)
  BY StaysInBook DEF OwnTree, Reparents
<1>5. Reparents(q) => GoesByItsLock(q)'
  BY <1>1 DEF GoesByItsLock
<1>6. QED
  BY <1>3, <1>4, <1>5 DEF OwnTree

\* Steps that change no account.
LEMMA AskTree ==
    ASSUME TypeOK, Shape, NEW q \in Reqs, Ask(q)
    PROVE  KeepsShape /\ KeepsApart /\ OwnTree(q)' /\ OthersGoOn(q)
<1>1. KeepsShape /\ KeepsApart
  BY SameTree DEF Ask
<1>2. PICK o \in Ops :
         /\ (o.kind \in {"update", "move", "delete"}) => InBook(o.acct)
         /\ (o.kind \in {"update", "move"} /\ o.parent \in Guids) => InBook(o.parent)
         /\ \A i \in DOMAIN o.keys : InBook(o.keys[i].parent)
         /\ op' = [op EXCEPT ![q] = o]
  BY DEF Ask
<1>3. /\ pc' = [pc EXCEPT ![q] = "asked"] /\ UNCHANGED <<acct, book, top>>
  BY DEF Ask, Goto, locks
<1>4. op'[q] = o /\ pc'[q] = "asked" /\ OthersGoOn(q)
  BY <1>2, <1>3 DEF TypeOK, OthersGoOn
<1>5. \A x : InBook(x) => acct[x].live
  BY DEF InBook
<1>6. \A x : Reaches(x, Root)' <=> Reaches(x, Root)
  BY <1>3 DEF Reaches, Upward
<1>7. InItsBook(q)'
  BY <1>2, <1>3, <1>4, <1>5, <1>6 DEF InItsBook, Moves, InBook
<1>8. GoesByItsLock(q)'
  BY <1>4 DEF GoesByItsLock
<1>9. QED
  BY <1>1, <1>4, <1>7, <1>8 DEF OwnTree

LEMMA ResolveTree ==
    ASSUME TypeOK, NobodyLeaves, Shape, NEW q \in Reqs, OwnTree(q), Resolve(q)
    PROVE  KeepsShape /\ KeepsApart /\ OwnTree(q)' /\ OthersGoOn(q)
<1>1. KeepsShape /\ KeepsApart
  BY SameTree DEF Resolve
<1>2. /\ pc[q] = "asked" /\ UNCHANGED <<book, op>>
      /\ \/ pc' = [pc EXCEPT ![q] = "done"] /\ top' = top
         \/ /\ pc' = [pc EXCEPT ![q] = "resolved"]
            /\ top' = [top EXCEPT ![q] = IF Reparents(q) THEN TopOf(op[q].acct) ELSE Root]
  BY DEF Resolve, At, Goto, locks
<1>3. OthersGoOn(q) /\ pc'[q] \in {"done", "resolved"}
  BY <1>2 DEF TypeOK, OthersGoOn
<1>4. InItsBook(q)'
  BY <1>1, <1>2, StaysInBook DEF OwnTree
<1>5. ASSUME Reparents(q), pc'[q] = "resolved" PROVE top'[q] = Root
  <2>1. Reaches(op[q].acct, Root) /\ op[q].acct \in Guids
    BY <1>2, <1>5, NewParent DEF OwnTree, InItsBook, InBook
  <2>2. TopOf(op[q].acct) = Root
    BY <2>1, TopIsRoot DEF Shape
  <2>3. pc' # [pc EXCEPT ![q] = "done"]
    BY <1>5 DEF TypeOK
  <2>4. QED
    BY <1>2, <1>5, <2>2, <2>3 DEF TypeOK
<1>6. Reparents(q)' => GoesByItsLock(q)'
  BY <1>2, <1>3, <1>5 DEF GoesByItsLock, Reparents
<1>7. QED
  BY <1>1, <1>3, <1>4, <1>6 DEF OwnTree

\* A request that goes on, and for which the book is still free, or its own.
LEMMA GoesOnTree ==
    ASSUME TypeOK, Shape, NEW q \in Reqs, OwnTree(q), NEW from, NEW to, Goes(q, from, to),
           from # "ask", UNCHANGED <<acct, top>>,
           \/ book' = book
           \/ book[Root] \in {q, NoReq} /\ book' = [book EXCEPT ![Root] = q],
           Reparents(q) => GoesByItsLock(q)'
    PROVE  KeepsShape /\ KeepsApart /\ OwnTree(q)' /\ OthersGoOn(q)
<1>1. KeepsShape /\ KeepsApart
  BY SameTree
<1>2. /\ pc[q] = from /\ op'[q] = op[q] /\ Reparents(q)' = Reparents(q)
      /\ \A r \in Reqs \ {q} : op'[r] = op[r] /\ pc'[r] = pc[r]
  BY GoesTo
<1>3. OthersGoOn(q)
  BY <1>2, TreeAssumption DEF OthersGoOn
<1>4. InItsBook(q)'
  BY <1>1, <1>2, StaysInBook DEF OwnTree
<1>5. QED
  BY <1>1, <1>2, <1>3, <1>4 DEF OwnTree

LEMMA BookTree ==
    ASSUME TypeOK, NobodyLeaves, Shape, NEW q \in Reqs, OwnTree(q), TryBook(q) \/ WaitBook(q)
    PROVE  KeepsShape /\ KeepsApart /\ OwnTree(q)' /\ OthersGoOn(q)
<1>1. /\ pc[q] = "resolved" /\ UNCHANGED <<acct, op, top>>
      /\ \/ pc' = [pc EXCEPT ![q] = "done"] /\ book' = book
         \/ pc' = [pc EXCEPT ![q] = "booked"] /\ ~Reparents(q) /\ book' = book
         \/ /\ pc' = [pc EXCEPT ![q] = "booked"] /\ Reparents(q) /\ book[top[q]] = NoReq
            /\ book' = [book EXCEPT ![top[q]] = q]
         \/ /\ pc' = [pc EXCEPT ![q] = "booked"] /\ ~Reparents(q) /\ book[Root] = NoReq
            /\ book' = [book EXCEPT ![Root] = q]
  BY DEF TryBook, WaitBook, At, Goto, plan, Reparents
<1>2. Root \in Guids
  BY TreeAssumption
<1>3. Reparents(q) => top[q] = Root
  BY <1>1 DEF OwnTree, GoesByItsLock
<1>4. CASE pc' = [pc EXCEPT ![q] = "done"] /\ book' = book
  <2>1. Goes(q, "resolved", "done") /\ pc'[q] = "done"
    BY <1>1, <1>4 DEF Goes, TypeOK
  <2>2. GoesByItsLock(q)'
    BY <2>1 DEF GoesByItsLock
  <2>3. QED
    BY <1>1, <1>4, <2>1, <2>2, GoesOnTree
<1>5. CASE /\ pc' = [pc EXCEPT ![q] = "booked"]
           /\ \/ ~Reparents(q) /\ book' = book
              \/ book[Root] = NoReq /\ book' = [book EXCEPT ![Root] = q]
  <2>1. Goes(q, "resolved", "booked") /\ pc'[q] = "booked"
    BY <1>1, <1>5 DEF Goes, TypeOK
  <2>2. Reparents(q) => GoesByItsLock(q)'
    BY <1>1, <1>2, <1>3, <1>5, <2>1 DEF GoesByItsLock, TypeOK
  <2>3. QED
    BY <1>1, <1>5, <2>1, <2>2, GoesOnTree
<1>6. QED
  BY <1>1, <1>3, <1>4, <1>5

LEMMA FailTree ==
    ASSUME TypeOK, NEW q \in Reqs, Fail(q), UNCHANGED <<op, top>>, pc[q] # "ask", OwnTree(q),
           KeepsShape
    PROVE  OwnTree(q)' /\ OthersGoOn(q)
<1>1. Release(q) /\ pc' = [pc EXCEPT ![q] = "done"]
  BY DEF Fail, Goto
<1>2. QED
  BY <1>1, EndsTree

\* The locks and the checks of who moves an account.
LEMMA MoverTree ==
    ASSUME TypeOK, NobodyLeaves, Shape, NEW q \in Reqs, OwnTree(q),
           LockRow(q) \/ (Moves(q) /\ Validate(q)) \/ Claim(q)
    PROVE  KeepsShape /\ KeepsApart /\ OwnTree(q)' /\ OthersGoOn(q)
<1>0. pc[q] \in {"booked", "rowed", "valid"} /\ UNCHANGED <<acct, op, top>>
  BY DEF LockRow, Validate, Claim, At, plan
<1>1. KeepsShape /\ KeepsApart
  BY <1>0, SameTree
<1>2. CASE Fail(q)
  BY <1>0, <1>1, <1>2, FailTree
<1>3. CASE ~Fail(q)
  <2>1. \/ Goes(q, "booked", "rowed") /\ book' = book
        \/ Goes(q, "valid", "claimed") /\ book' = book
        \/ /\ Goes(q, "rowed", "valid") /\ book' = book
           /\ op[q].parent \in Guids => ~Reaches(op[q].parent, op[q].acct)
    <3>1. CASE LockRow(q)
      BY <1>0, <1>3, <3>1 DEF LockRow, At, Goto, Goes
    <3>2. CASE Claim(q)
      BY <1>0, <1>3, <3>2 DEF Claim, At, Goto, Goes, locks
    <3>3. CASE Validate(q)
      BY <1>0, <1>3, <3>3 DEF Validate, At, Goto, Goes, locks
    <3>4. QED
      BY <3>1, <3>2, <3>3
  <2>2. UNCHANGED Reaches(op[q].parent, op[q].acct)
    BY <1>0 DEF Reaches, Upward
  <2>3. ASSUME Reparents(q) PROVE GoesByItsLock(q)'
    <3>1. op[q].parent \in Guids /\ GoesByItsLock(q)
      BY <2>3, NewParent DEF OwnTree
    <3>2. CASE Goes(q, "booked", "rowed") /\ book' = book
      <4>1. pc[q] = "booked" /\ pc'[q] = "rowed"
        BY <3>2, GoesTo
      <4>2. QED
        BY <1>0, <3>1, <3>2, <4>1 DEF GoesByItsLock
    <3>3. CASE Goes(q, "valid", "claimed") /\ book' = book
      <4>1. pc[q] = "valid" /\ pc'[q] = "claimed"
        BY <3>3, GoesTo
      <4>2. QED
        BY <1>0, <2>2, <3>1, <3>3, <4>1 DEF GoesByItsLock
    <3>4. CASE /\ Goes(q, "rowed", "valid") /\ book' = book
               /\ op[q].parent \in Guids => ~Reaches(op[q].parent, op[q].acct)
      <4>1. pc[q] = "rowed" /\ pc'[q] = "valid"
        BY <3>4, GoesTo
      <4>2. QED
        BY <1>0, <2>2, <3>1, <3>4, <4>1 DEF GoesByItsLock
    <3>5. QED
      BY <2>1, <3>2, <3>3, <3>4
  <2>4. QED
    BY <1>0, <2>1, <2>3, GoesOnTree
<1>4. QED
  BY <1>2, <1>3

\* The locks and the keys of who inserts accounts.
LEMMA InserterTree ==
    ASSUME TypeOK, Shape, NEW q \in Reqs, OwnTree(q), Promote(q) \/ ClaimKey(q) \/ Insert(q)
    PROVE  KeepsShape /\ KeepsApart /\ OwnTree(q)' /\ OthersGoOn(q)
<1>0. pc[q] # "ask" /\ UNCHANGED <<acct, op, top>> /\ ~Reparents(q)
  BY DEF Promote, ClaimKey, Insert, At, AtKeys, Inserts, Reparents
<1>1. KeepsShape /\ KeepsApart
  BY <1>0, SameTree
<1>2. \/ Fail(q)
      \/ Release(q) /\ pc' = [pc EXCEPT ![q] = "resolved"]
      \/ book' = book /\ \E to \in Pcs : pc' = [pc EXCEPT ![q] = to]
  <2>1. CASE Promote(q)
    BY <2>1, SMTT(40) DEF Promote, Goto, Pcs
  <2>2. CASE Insert(q)
    BY <2>2 DEF Insert, Goto, Pcs
  <2>3. CASE ClaimKey(q)
    <3>1. PICK i \in todo[q] : ClaimsNth(q, i)
      BY <2>3, ClaimKeyCases
    <3>2. pc = [pc EXCEPT ![q] = pc[q]] /\ pc[q] \in Pcs /\ "claimed" \in Pcs
      BY DEF TypeOK, Pcs
    <3>3. QED
      BY <3>1, <3>2 DEF ClaimsNth, Goto
  <2>4. QED
    BY <2>1, <2>2, <2>3
<1>3. CASE Fail(q)
  BY <1>0, <1>1, <1>3, FailTree
<1>4. CASE Release(q) /\ pc' = [pc EXCEPT ![q] = "resolved"]
  BY <1>0, <1>1, <1>4, EndsTree
<1>5. CASE book' = book /\ \E to \in Pcs : pc' = [pc EXCEPT ![q] = to]
  <2>1. PICK to \in Pcs : Goes(q, pc[q], to)
    BY <1>0, <1>5 DEF Goes
  <2>2. QED
    BY <1>0, <1>5, <2>1, GoesOnTree
<1>6. QED
  BY <1>2, <1>3, <1>4, <1>5, SMTT(40)

\* Who writes a new parent has the book, and has checked that parent.
LEMMA WriteTree ==
    ASSUME TypeOK, NobodyLeaves, Shape, NEW q \in Reqs, OwnTree(q), Write(q)
    PROVE  /\ KeepsShape /\ (KeepsApart \/ book[Root] = q)
           /\ OwnTree(q)' /\ OthersGoOn(q)
<1>0. PICK a \in Guids : a = op[q].acct
  BY Typed
<1>1. pc[q] = "claimed" /\ Moves(q) /\ Fail(q) /\ UNCHANGED <<op, top>>
  BY DEF Write, At, plan
<1>2. KeepsShape /\ (KeepsApart \/ book[Root] = q)
  <2>1. CASE acct' = acct
    BY <2>1, SameTree
  <2>2. CASE acct' # acct
    <3> DEFINE moved == [live |-> acct[a].live,
                name |-> IF op[q].name = Same THEN acct[a].name ELSE op[q].name,
                parent |-> IF op[q].parent = Same THEN acct[a].parent ELSE op[q].parent]
    <3>1. acct' = [acct EXCEPT ![a] = moved]
      BY <1>0, <2>2 DEF Write
    <3>2. /\ moved.live = acct[a].live
          /\ (op[q].parent = Same) => moved.parent = acct[a].parent
          /\ (op[q].parent # Same) => moved.parent = op[q].parent
      OBVIOUS
    <3>3. acct'[a] = moved /\ \A g \in Guids \ {a} : acct'[g] = acct[g]
      <4> HIDE DEF moved
      <4>1. QED
        BY <3>1 DEF TypeOK
    <3> HIDE DEF moved
    <3>4. CASE op[q].parent = Same
      <4>1. \A g \in Guids : acct'[g].parent = acct[g].parent /\ acct'[g].live = acct[g].live
        BY <3>2, <3>3, <3>4
      <4>2. QED
        BY <4>1, SameTree
    <3>5. CASE op[q].parent # Same
      <4>1. Reparents(q)
        BY <1>1, <3>5 DEF Reparents, Moves
      <4>2. /\ op[q].parent \in Guids /\ InBook(op[q].parent) /\ book[Root] = q
            /\ ~Reaches(op[q].parent, a)
        BY <1>0, <1>1, <4>1, NewParent DEF OwnTree, InItsBook, GoesByItsLock
      <4>3. acct'[a].live = acct[a].live /\ acct'[a].parent = op[q].parent
        BY <3>2, <3>3, <3>5
      <4>4. QED
        BY <3>3, <4>2, <4>3, HungTree
    <3>6. QED
      BY <3>4, <3>5
  <2>3. QED
    BY <2>1, <2>2
<1>3. QED
  BY <1>1, <1>2, FailTree

LEMMA CommitTree ==
    ASSUME TypeOK, Shape, NEW q \in Reqs, Local(q), OwnTree(q), Commit(q)
    PROVE  KeepsShape /\ KeepsApart /\ OwnTree(q)' /\ OthersGoOn(q)
<1> DEFINE M == {g \in Guids : \E i \in made[q] : New[q][i] = g}
           Nth(g) == CHOOSE i \in made[q] : New[q][i] = g
           K(i) == op[q].keys[i]
<1>1. /\ pc[q] \in {"inserted", "valid"} /\ Inserts(q) /\ Fail(q) /\ UNCHANGED <<op, top>>
  BY DEF Commit, plan
<1>2. \A g \in Guids : acct'[g] =
          IF g \in M THEN [live |-> TRUE, name |-> K(Nth(g)).name, parent |-> K(Nth(g)).parent]
          ELSE acct[g]
  BY DEF Commit
<1>3. \A i \in made[q] : i \in DOMAIN op[q].keys /\ i \in DOMAIN New[q]
  <2>1. \A i \in made[q] : i \in DOMAIN op[q].keys
    BY <1>1 DEF Local, ClaimIsFree, Inserting
  <2>2. op[q] # None
    BY <1>1 DEF Inserts, None
  <2>3. QED
    BY <2>1, <2>2, Typed
<1>4. ASSUME NEW g \in M
      PROVE  /\ ~acct[g].live
             /\ K(Nth(g)).parent \in Guids /\ acct[K(Nth(g)).parent].live
  <2>1. Nth(g) \in made[q] /\ New[q][Nth(g)] = g
    BY <1>4
  <2> HIDE DEF Nth
  <2>2. ~acct[g].live
    BY <1>1, <1>3, <2>1 DEF Local, FreshIsFree
  <2>3. K(Nth(g)) \in Key /\ acct[K(Nth(g)).parent].live
    BY <1>1, <1>3, <2>1, Typed DEF OwnTree, InItsBook
  <2>4. QED
    BY <2>2, <2>3 DEF Key
<1> HIDE DEF Nth, M
<1>5. M \in SUBSET Guids
  BY DEF M
<1>6. ASSUME NEW g \in M
      PROVE  acct'[g].live /\ acct'[g].parent \in Guids /\ acct[acct'[g].parent].live
  <2>1. acct'[g] = [live |-> TRUE, name |-> K(Nth(g)).name, parent |-> K(Nth(g)).parent]
    BY <1>2, <1>5, <1>6
  <2>2. acct'[g].live /\ acct'[g].parent = K(Nth(g)).parent
    BY <2>1
  <2>3. QED
    BY <1>4, <1>6, <2>2
<1>7. \A g \in Guids \ M : acct'[g] = acct[g]
  BY <1>2
<1>8. KeepsShape /\ KeepsApart
  BY <1>4, <1>5, <1>6, <1>7, GrownTree
<1>9. QED
  BY <1>1, <1>8, FailTree

LEMMA TreeInit == Init => TreeInv
<1> SUFFICES ASSUME Init PROVE TreeInv
  OBVIOUS
<1>1. acct = InitTree /\ \A q \in Reqs : pc[q] = "ask"
  BY DEF Init
<1>2. RootOnTop /\ ParentsAreLive /\ TreeIsAcyclic
  BY <1>1, TreeAssumption DEF RootOnTop, ParentsAreLive, TreeIsAcyclic
<1>3. QED
  BY <1>1, <1>2 DEF TreeInv, GoesByItsLock

LEMMA TreeNext == NobodyLeaves /\ SiblingInv /\ TreeInv /\ [Next]_vars => TreeInv'
<1> SUFFICES ASSUME NobodyLeaves, SiblingInv, TreeInv, [Next]_vars PROVE TreeInv'
  OBVIOUS
<1>0. TypeOK /\ Shape /\ \A q \in Reqs : Local(q) /\ OwnTree(q)
  BY DEF SiblingInv, TreeInv, OwnTree, Shape
<1>1. ASSUME KeepsShape, \A q \in Reqs : OwnTree(q)' PROVE TreeInv'
  BY <1>1 DEF KeepsShape, TreeInv, OwnTree
<1>2. ASSUME NEW q \in Reqs, KeepsShape, KeepsApart \/ book[Root] = q, OwnTree(q)', OthersGoOn(q)
      PROVE  TreeInv'
  BY <1>0, <1>1, <1>2, OthersTree
<1>3. ASSUME NEW q \in Reqs, Ask(q) \/ Resolve(q) \/ TryBook(q) \/ WaitBook(q) PROVE TreeInv'
  BY <1>0, <1>2, <1>3, AskTree, ResolveTree, BookTree
<1>4. ASSUME NEW q \in Reqs, LockRow(q) \/ (Moves(q) /\ Validate(q)) \/ Claim(q) \/ Write(q)
      PROVE  TreeInv'
  BY <1>0, <1>2, <1>4, MoverTree, WriteTree
<1>5. ASSUME NEW q \in Reqs, Promote(q) \/ ClaimKey(q) \/ Insert(q) \/ Commit(q) PROVE TreeInv'
  BY <1>0, <1>2, <1>5, InserterTree, CommitTree
<1>6. ASSUME NEW q \in Reqs PROVE ~LockDeleted(q) /\ ~Delete(q)
  <2>1. op[q].kind # "delete"
    BY <1>0, NewParent
  <2>2. QED
    BY <2>1, Zenon DEF LockDeleted, Delete
<1>7. CASE UNCHANGED vars
  BY <1>7 DEF vars, locks, plan, TreeInv, RootOnTop, ParentsAreLive, TreeIsAcyclic, InItsBook,
     GoesByItsLock, InBook, Reaches, Upward, Moves, Reparents
<1>8. QED
  BY <1>3, <1>4, <1>5, <1>6, <1>7 DEF Next

\* assertReparentIsAcyclic under the lock of the book: whatever is created, grafted,
\* renamed and moved at the same time, no account comes to be below itself, as long
\* as none is deleted and none is moved to the top.
THEOREM Tree == ASSUME NobodyLeaves PROVE Spec => []TreeIsAcyclic
<1>1. TreeInv => TreeIsAcyclic
  BY DEF TreeInv
<1>2. SiblingInv /\ TreeInv /\ [Next]_vars => TreeInv'
  BY TreeNext
<1>3. QED
  BY <1>1, <1>2, SiblingInit, SiblingNext, TreeInit, PTL DEF Spec
================================================================================
