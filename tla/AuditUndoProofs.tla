----------------------------- MODULE AuditUndoProofs -----------------------------
(***************************************************************************)
(* Proofs about AuditUndo: its types, that an audit entry is undone at     *)
(* most once, that version tokens keep their meaning across undos, and     *)
(* that a revert replaces what the entry's own request wrote.              *)
(***************************************************************************)
EXTENDS AuditUndo, TLAPS

InTx == {"claimed", "waiting", "locked", "unlocked", "checked"}

\* No snapshot anywhere carries a token that has not been handed out.
Known(s) == s.ver <= clock
TokensKnown == \A r \in Reqs : /\ Known(seen[r]) /\ Known(before[r]) /\ Known(after[r])
                               /\ Known(audit[r].old) /\ Known(audit[r].new)

\* The entry an undo is about was appended by a request that is finished, so
\* nothing overwrites it.
EntriesAppended ==
    \A r \in Reqs : /\ entry[r] # NoReq => audit[entry[r]].action # "none"
                    /\ audit[r].action # "none" => pc[r] = "done"
                    /\ Op[r] = "undo" /\ pc[r] # "idle" => entry[r] # NoReq
                    /\ pc[r] \in {"committed", "imaged"} => Op[r] \in {"put", "delete", "undo"}
                    /\ pc[r] = "idle" => wrote[r] = 0

\* A running undo holds its entry's claim, and a committed one has stamped it.
Claims ==
    \A r \in Reqs : Op[r] = "undo" =>
      /\ pc[r] \in InTx => claim[entry[r]] = r /\ ~audit[entry[r]].undone
      /\ wrote[r] # 0 => audit[entry[r]].undone

Inv == TypeOK /\ TokensKnown /\ EntriesAppended /\ Claims /\ UndoneOnce

\* Where there is no snapshot, there is the empty one.
LEMMA NoneTyped == None \in Snap /\ None.ver = 0
  BY AuditUndoAssumption DEF None, Snap

LEMMA ImageTyped ==
    ASSUME TypeOK
    PROVE  Image \in Snap /\ Known(Image) /\ None \in Snap /\ Known(None)
  BY AuditUndoAssumption DEF TypeOK, Row, Image, Snap, None, Known

\* An undo that has been claimed stamps an entry that is there.
LEMMA UndoneTyped ==
    ASSUME Inv, NEW r \in Reqs, Op[r] = "undo", pc[r] = "checked", Undone(r)
    PROVE  /\ audit' \in [Reqs -> Entry]
           /\ entry[r] \in Reqs /\ audit[entry[r]] \in Entry
  <1>1. entry[r] \in Reqs /\ audit[entry[r]] \in Entry
    BY AuditUndoAssumption, SMT DEF Inv, TypeOK, EntriesAppended
  <1>2. [audit[entry[r]] EXCEPT !.undone = TRUE] \in Entry
    BY <1>1 DEF Entry
  <1>3. QED
    BY <1>1, <1>2 DEF Inv, TypeOK, Undone

LEMMA ActionTyped ==
    ASSUME Inv, NEW r \in Reqs, pc[r] = "imaged"
    PROVE  Action(r) \in {"CREATE", "UPDATE", "DELETE"}
  <1>1. Op[r] \in {"put", "delete", "undo"}
    BY DEF Inv, EntriesAppended
  <1>2. Op[r] = "undo" => Plan(r) \in {"CREATE", "UPDATE", "DELETE"}
    BY SMT DEF Inv, TypeOK, EntriesAppended, Plan, Entry
  <1>3. QED
    BY <1>1, <1>2, SMT DEF Action

LEMMA LoadKeeps ==
    ASSUME Inv, NEW r \in Reqs, Load(r)
    PROVE  Inv'
  <1> USE AuditUndoAssumption
  <1>1. TypeOK'
    BY ImageTyped, SMT DEF Inv, TypeOK, Load, book, Row, Snap, Entry, Pcs, TokensKnown, Known
  <1>2. TokensKnown'
    BY ImageTyped, SMT DEF Inv, TypeOK, Load, book, Row, Snap, Entry, TokensKnown, Known
  <1>3. EntriesAppended'
    BY SMT DEF Inv, TypeOK, Load, book, Entry, EntriesAppended
  <1>4. Claims'
    BY SMT DEF Inv, TypeOK, Load, book, Entry, EntriesAppended, Claims, InTx
  <1>5. UndoneOnce'
    BY SMT DEF Inv, TypeOK, Load, book, Entry, EntriesAppended, Claims, InTx, UndoneOnce
  <1> QED BY <1>1, <1>2, <1>3, <1>4, <1>5 DEF Inv

LEMMA LoadEntryKeeps ==
    ASSUME Inv, NEW r \in Reqs, LoadEntry(r)
    PROVE  Inv'
  <1> USE AuditUndoAssumption
  <1>1. TypeOK'
    BY SMT DEF Inv, TypeOK, LoadEntry, book, Row, Snap, Entry, Pcs, TokensKnown, Known
  <1>2. TokensKnown'
    BY SMT DEF Inv, TypeOK, LoadEntry, book, Row, Snap, Entry, TokensKnown, Known
  <1>3. EntriesAppended'
    BY SMT DEF Inv, TypeOK, LoadEntry, book, Entry, EntriesAppended
  <1>4. Claims'
    BY SMT DEF Inv, TypeOK, LoadEntry, book, Entry, EntriesAppended, Claims, InTx
  <1>5. UndoneOnce'
    BY SMT DEF Inv, TypeOK, LoadEntry, book, Entry, EntriesAppended, Claims, InTx, UndoneOnce
  <1> QED BY <1>1, <1>2, <1>3, <1>4, <1>5 DEF Inv

LEMMA ClaimUndoKeeps ==
    ASSUME Inv, NEW r \in Reqs, ClaimUndo(r)
    PROVE  Inv'
  <1> USE AuditUndoAssumption
  <1>1. TypeOK'
    BY SMT DEF Inv, TypeOK, ClaimUndo, book, Pcs, EntriesAppended
  <1>2. TokensKnown'
    BY SMT DEF Inv, TypeOK, ClaimUndo, book, Row, Snap, Entry, TokensKnown, Known
  <1>3. EntriesAppended'
    BY SMT DEF Inv, TypeOK, ClaimUndo, book, Entry, EntriesAppended
  <1>4. Claims'
    BY SMT DEF Inv, TypeOK, ClaimUndo, book, Entry, EntriesAppended, Claims, InTx
  <1>5. UndoneOnce'
    BY SMT DEF Inv, TypeOK, ClaimUndo, book, Entry, EntriesAppended, Claims, InTx, UndoneOnce
  <1> QED BY <1>1, <1>2, <1>3, <1>4, <1>5 DEF Inv

LEMMA AlreadyUndoneKeeps ==
    ASSUME Inv, NEW r \in Reqs, AlreadyUndone(r)
    PROVE  Inv'
  <1> USE AuditUndoAssumption, NoneTyped
  <1>1. TypeOK'
    BY SMT DEF Inv, TypeOK, AlreadyUndone, Release, book, Row, Snap, Entry, Pcs, TokensKnown, Known
  <1>2. TokensKnown'
    BY SMT DEF Inv, TypeOK, AlreadyUndone, Release, book, Row, Snap, Entry, TokensKnown, Known
  <1>3. EntriesAppended'
    BY SMT DEF Inv, TypeOK, AlreadyUndone, Release, book, Entry, EntriesAppended
  <1>4. Claims'
    BY SMT DEF Inv, TypeOK, AlreadyUndone, Release, book, Entry, EntriesAppended, Claims, InTx
  <1>5. UndoneOnce'
    BY SMT DEF Inv, TypeOK, AlreadyUndone, Release, book, Entry, EntriesAppended, Claims, InTx, UndoneOnce
  <1> QED BY <1>1, <1>2, <1>3, <1>4, <1>5 DEF Inv

LEMMA AimKeeps ==
    ASSUME Inv, NEW r \in Reqs, Aim(r)
    PROVE  Inv'
  <1> USE AuditUndoAssumption
  <1>1. TypeOK'
    BY SMT DEF Inv, TypeOK, Aim, Plan, book, Row, Snap, Entry, Pcs, TokensKnown, Known
  <1>2. TokensKnown'
    BY SMT DEF Inv, TypeOK, Aim, Plan, book, Row, Snap, Entry, TokensKnown, Known
  <1>3. EntriesAppended'
    BY SMT DEF Inv, TypeOK, Aim, Plan, book, Entry, EntriesAppended
  <1>4. Claims'
    BY SMT DEF Inv, TypeOK, Aim, Plan, book, Entry, EntriesAppended, Claims, InTx
  <1>5. UndoneOnce'
    BY SMT DEF Inv, TypeOK, Aim, Plan, book, Entry, EntriesAppended, Claims, InTx, UndoneOnce
  <1> QED BY <1>1, <1>2, <1>3, <1>4, <1>5 DEF Inv

LEMMA LockKeeps ==
    ASSUME Inv, NEW r \in Reqs, Lock(r)
    PROVE  Inv'
  <1> USE AuditUndoAssumption
  <1>1. TypeOK'
    BY SMT DEF Inv, TypeOK, Lock, Found, book, Row, Snap, Entry, Pcs, TokensKnown, Known
  <1>2. TokensKnown'
    BY SMT DEF Inv, TypeOK, Lock, Found, book, Row, Snap, Entry, TokensKnown, Known
  <1>3. EntriesAppended'
    BY SMT DEF Inv, TypeOK, Lock, Found, book, Entry, EntriesAppended
  <1>4. Claims'
    BY SMT DEF Inv, TypeOK, Lock, Found, book, Entry, EntriesAppended, Claims, InTx
  <1>5. UndoneOnce'
    BY SMT DEF Inv, TypeOK, Lock, Found, book, Entry, EntriesAppended, Claims, InTx, UndoneOnce
  <1> QED BY <1>1, <1>2, <1>3, <1>4, <1>5 DEF Inv

LEMMA LockNothingKeeps ==
    ASSUME Inv, NEW r \in Reqs, LockNothing(r)
    PROVE  Inv'
  <1> USE AuditUndoAssumption
  <1>1. TypeOK'
    BY SMT DEF Inv, TypeOK, LockNothing, Found, book, Row, Snap, Entry, Pcs, TokensKnown, Known
  <1>2. TokensKnown'
    BY SMT DEF Inv, TypeOK, LockNothing, Found, book, Row, Snap, Entry, TokensKnown, Known
  <1>3. EntriesAppended'
    BY SMT DEF Inv, TypeOK, LockNothing, Found, book, Entry, EntriesAppended
  <1>4. Claims'
    BY SMT DEF Inv, TypeOK, LockNothing, Found, book, Entry, EntriesAppended, Claims, InTx
  <1>5. UndoneOnce'
    BY SMT DEF Inv, TypeOK, LockNothing, Found, book, Entry, EntriesAppended, Claims, InTx, UndoneOnce
  <1> QED BY <1>1, <1>2, <1>3, <1>4, <1>5 DEF Inv

LEMMA CheckKeeps ==
    ASSUME Inv, NEW r \in Reqs, Check(r)
    PROVE  Inv'
  <1> USE AuditUndoAssumption
  <1>1. TypeOK'
    BY ImageTyped, SMT DEF Inv, TypeOK, Check, Past, book, Row, Snap, Entry, Pcs, TokensKnown, Known
  <1>2. TokensKnown'
    BY ImageTyped, SMT DEF Inv, TypeOK, Check, Past, book, Row, Snap, Entry, TokensKnown, Known
  <1>3. EntriesAppended'
    BY SMT DEF Inv, TypeOK, Check, Past, book, Entry, EntriesAppended
  <1>4. Claims'
    BY SMT DEF Inv, TypeOK, Check, Past, book, Entry, EntriesAppended, Claims, InTx
  <1>5. UndoneOnce'
    BY SMT DEF Inv, TypeOK, Check, Past, book, Entry, EntriesAppended, Claims, InTx, UndoneOnce
  <1> QED BY <1>1, <1>2, <1>3, <1>4, <1>5 DEF Inv

LEMMA RollbackKeeps ==
    ASSUME Inv, NEW r \in Reqs, Rollback(r)
    PROVE  Inv'
  <1> USE AuditUndoAssumption, NoneTyped
  <1>1. TypeOK'
    BY SMT DEF Inv, TypeOK, Rollback, Release, book, Row, Snap, Entry, Pcs, TokensKnown, Known
  <1>2. TokensKnown'
    BY SMT DEF Inv, TypeOK, Rollback, Release, book, Row, Snap, Entry, TokensKnown, Known
  <1>3. EntriesAppended'
    BY SMT DEF Inv, TypeOK, Rollback, Release, book, Entry, EntriesAppended
  <1>4. Claims'
    BY SMT DEF Inv, TypeOK, Rollback, Release, book, Entry, EntriesAppended, Claims, InTx
  <1>5. UndoneOnce'
    BY SMT DEF Inv, TypeOK, Rollback, Release, book, Entry, EntriesAppended, Claims, InTx, UndoneOnce
  <1> QED BY <1>1, <1>2, <1>3, <1>4, <1>5 DEF Inv

LEMMA PutKeeps ==
    ASSUME Inv, NEW r \in Reqs, Put(r)
    PROVE  Inv'
  <1> USE AuditUndoAssumption, NoneTyped
  <1>1. TypeOK'
    BY SMT DEF Inv, TypeOK, Put, Commit, Release, Fresh, MayWrite, book, Row, Snap, Entry, Pcs, TokensKnown, Known
  <1>2. TokensKnown'
    BY SMT DEF Inv, TypeOK, Put, Commit, Release, Fresh, MayWrite, book, Row, Snap, Entry, TokensKnown, Known
  <1>3. EntriesAppended'
    BY SMT DEF Inv, TypeOK, Put, Commit, Release, Fresh, MayWrite, book, Entry, EntriesAppended
  <1>4. Claims'
    BY SMT DEF Inv, TypeOK, Put, Commit, Release, Fresh, MayWrite, book, Entry, EntriesAppended, Claims, InTx
  <1>5. UndoneOnce'
    BY SMT DEF Inv, TypeOK, Put, Commit, Release, Fresh, MayWrite, book, Entry, EntriesAppended, Claims, InTx, UndoneOnce
  <1> QED BY <1>1, <1>2, <1>3, <1>4, <1>5 DEF Inv

LEMMA DeleteKeeps ==
    ASSUME Inv, NEW r \in Reqs, Delete(r)
    PROVE  Inv'
  <1> USE AuditUndoAssumption, NoneTyped
  <1>1. TypeOK'
    <2>1. row' \in Row /\ row'.ver = row.ver
      BY SMT DEF Inv, TypeOK, Delete, Commit, Gone, Row
    <2>2. QED
      BY <2>1, SMT DEF Inv, TypeOK, Delete, Commit, Release, MayWrite, Row, Pcs
  <1>2. TokensKnown'
    BY SMT DEF Inv, TypeOK, Delete, Commit, Release, MayWrite, book, Row, Snap, Entry, TokensKnown, Known
  <1>3. EntriesAppended'
    BY SMT DEF Inv, TypeOK, Delete, Commit, Release, MayWrite, book, Entry, EntriesAppended
  <1>4. Claims'
    BY SMT DEF Inv, TypeOK, Delete, Commit, Release, MayWrite, book, Entry, EntriesAppended, Claims, InTx
  <1>5. UndoneOnce'
    BY SMT DEF Inv, TypeOK, Delete, Commit, Release, MayWrite, book, Entry, EntriesAppended, Claims, InTx, UndoneOnce
  <1> QED BY <1>1, <1>2, <1>3, <1>4, <1>5 DEF Inv

LEMMA ToggleKeeps ==
    ASSUME Inv, NEW r \in Reqs, Toggle(r)
    PROVE  Inv'
  <1> USE AuditUndoAssumption, NoneTyped
  <1>1. TypeOK'
    BY SMT DEF Inv, TypeOK, Toggle, Commit, Release, Fresh, MayWrite, Past, book, Row, Snap, Entry, Pcs, TokensKnown, Known
  <1>2. TokensKnown'
    BY SMT DEF Inv, TypeOK, Toggle, Commit, Release, Fresh, MayWrite, Past, book, Row, Snap, Entry, TokensKnown, Known
  <1>3. EntriesAppended'
    BY SMT DEF Inv, TypeOK, Toggle, Commit, Release, Fresh, MayWrite, Past, book, Entry, EntriesAppended
  <1>4. Claims'
    BY SMT DEF Inv, TypeOK, Toggle, Commit, Release, Fresh, MayWrite, Past, book, Entry, EntriesAppended, Claims, InTx
  <1>5. UndoneOnce'
    BY SMT DEF Inv, TypeOK, Toggle, Commit, Release, Fresh, MayWrite, Past, book, Entry, EntriesAppended, Claims, InTx, UndoneOnce
  <1> QED BY <1>1, <1>2, <1>3, <1>4, <1>5 DEF Inv

LEMMA RevertKeeps ==
    ASSUME Inv, NEW r \in Reqs, Revert(r)
    PROVE  Inv'
  <1> USE AuditUndoAssumption, NoneTyped
  <1>1. TypeOK'
    <2>1. audit' \in [Reqs -> Entry] /\ audit[entry[r]] \in Entry
      BY UndoneTyped DEF Revert
    <2>2. audit[entry[r]].old \in Snap /\ Known(audit[entry[r]].old)
      BY <2>1, UndoneTyped DEF Revert, Entry, Inv, TokensKnown
    <2>3. row' \in Row /\ row'.ver = audit[entry[r]].old.ver
      BY <2>2, SMT DEF Inv, TypeOK, Revert, Commit, Restored, Row, Snap
    <2>4. row'.ver <= clock' /\ clock' \in Nat /\ row'.ver \in Nat
      BY <2>2, <2>3, SMT DEF Inv, TypeOK, Revert, Known, Row
    <2>5. wrote' \in [Reqs -> Nat] /\ after' \in [Reqs -> Snap]
      BY <2>2, <2>3, <2>4, SMT DEF Inv, TypeOK, Revert, Commit
    <2>6. holder' = NoReq
      BY SMT DEF Inv, TypeOK, Revert, Commit, Release, MayWrite
    <2>7. QED
      BY <2>1, <2>3, <2>4, <2>5, <2>6, SMT
         DEF Inv, TypeOK, Revert, Commit, Release, Pcs
  <1>2. TokensKnown'
    BY SMT DEF Inv, TypeOK, Revert, Commit, Release, Restored, Undone, MayWrite, Plan, book, Row, Snap, Entry, TokensKnown, Known
  <1>3. EntriesAppended'
    BY SMT DEF Inv, TypeOK, Revert, Commit, Release, Restored, Undone, MayWrite, Plan, book, Entry, EntriesAppended
  <1>4. Claims'
    BY SMT DEF Inv, TypeOK, Revert, Commit, Release, Restored, Undone, MayWrite, Plan, book, Entry, EntriesAppended, Claims, InTx
  <1>5. UndoneOnce'
    BY SMT DEF Inv, TypeOK, Revert, Commit, Release, Restored, Undone, MayWrite, Plan, book, Entry, EntriesAppended, Claims, InTx, UndoneOnce
  <1> QED BY <1>1, <1>2, <1>3, <1>4, <1>5 DEF Inv

LEMMA RestoreKeeps ==
    ASSUME Inv, NEW r \in Reqs, Restore(r)
    PROVE  Inv'
  <1> USE AuditUndoAssumption, NoneTyped
  <1>1. TypeOK'
    <2>1. audit' \in [Reqs -> Entry] /\ audit[entry[r]] \in Entry
      BY UndoneTyped DEF Restore
    <2>2. audit[entry[r]].old \in Snap /\ Known(audit[entry[r]].old)
      BY <2>1, UndoneTyped DEF Restore, Entry, Inv, TokensKnown
    <2>3. row' \in Row /\ row'.ver = audit[entry[r]].old.ver
      BY <2>2, SMT DEF Inv, TypeOK, Restore, Commit, Restored, Row, Snap
    <2>4. row'.ver <= clock' /\ clock' \in Nat /\ row'.ver \in Nat
      BY <2>2, <2>3, SMT DEF Inv, TypeOK, Restore, Known, Row
    <2>5. wrote' \in [Reqs -> Nat] /\ after' \in [Reqs -> Snap]
      BY <2>2, <2>3, <2>4, SMT DEF Inv, TypeOK, Restore, Commit
    <2>6. holder' = NoReq
      BY SMT DEF Inv, TypeOK, Restore, Commit, Release
    <2>7. QED
      BY <2>1, <2>3, <2>4, <2>5, <2>6, SMT
         DEF Inv, TypeOK, Restore, Commit, Release, Pcs
  <1>2. TokensKnown'
    BY SMT DEF Inv, TypeOK, Restore, Commit, Release, Restored, Undone, Plan, book, Row, Snap, Entry, TokensKnown, Known
  <1>3. EntriesAppended'
    BY SMT DEF Inv, TypeOK, Restore, Commit, Release, Restored, Undone, Plan, book, Entry, EntriesAppended
  <1>4. Claims'
    BY SMT DEF Inv, TypeOK, Restore, Commit, Release, Restored, Undone, Plan, book, Entry, EntriesAppended, Claims, InTx
  <1>5. UndoneOnce'
    BY SMT DEF Inv, TypeOK, Restore, Commit, Release, Restored, Undone, Plan, book, Entry, EntriesAppended, Claims, InTx, UndoneOnce
  <1> QED BY <1>1, <1>2, <1>3, <1>4, <1>5 DEF Inv

LEMMA DeleteCreatedKeeps ==
    ASSUME Inv, NEW r \in Reqs, DeleteCreated(r)
    PROVE  Inv'
  <1> USE AuditUndoAssumption, NoneTyped
  <1>1. TypeOK'
    <2>1. row' \in Row /\ row'.ver = row.ver
      BY SMT DEF Inv, TypeOK, DeleteCreated, Commit, Gone, Row
    <2>2. audit' \in [Reqs -> Entry]
      BY UndoneTyped DEF DeleteCreated
    <2>3. wrote' \in [Reqs -> Nat] /\ row'.ver <= clock'
      BY <2>1, SMT DEF Inv, TypeOK, DeleteCreated, Commit, Row
    <2>4. holder' = NoReq
      BY SMT DEF Inv, TypeOK, DeleteCreated, Commit, Release, MayWrite
    <2>5. QED
      BY <2>1, <2>2, <2>3, <2>4, SMT DEF Inv, TypeOK, DeleteCreated, Commit, Release, Pcs
  <1>2. TokensKnown'
    BY SMT DEF Inv, TypeOK, DeleteCreated, Commit, Release, Undone, MayWrite, book, Row, Snap, Entry, TokensKnown, Known
  <1>3. EntriesAppended'
    BY SMT DEF Inv, TypeOK, DeleteCreated, Commit, Release, Undone, MayWrite, book, Entry, EntriesAppended
  <1>4. Claims'
    BY SMT DEF Inv, TypeOK, DeleteCreated, Commit, Release, Undone, MayWrite, book, Entry, EntriesAppended, Claims, InTx
  <1>5. UndoneOnce'
    BY SMT DEF Inv, TypeOK, DeleteCreated, Commit, Release, Undone, MayWrite, book, Entry, EntriesAppended, Claims, InTx, UndoneOnce
  <1> QED BY <1>1, <1>2, <1>3, <1>4, <1>5 DEF Inv

LEMMA ReadAfterKeeps ==
    ASSUME Inv, NEW r \in Reqs, ReadAfter(r)
    PROVE  Inv'
  <1> USE AuditUndoAssumption
  <1>1. TypeOK'
    BY ImageTyped, SMT DEF Inv, TypeOK, ReadAfter, book, Row, Snap, Entry, Pcs, TokensKnown, Known
  <1>2. TokensKnown'
    BY ImageTyped, SMT DEF Inv, TypeOK, ReadAfter, book, Row, Snap, Entry, TokensKnown, Known
  <1>3. EntriesAppended'
    BY SMT DEF Inv, TypeOK, ReadAfter, book, Entry, EntriesAppended
  <1>4. Claims'
    BY SMT DEF Inv, TypeOK, ReadAfter, book, Entry, EntriesAppended, Claims, InTx
  <1>5. UndoneOnce'
    BY SMT DEF Inv, TypeOK, ReadAfter, book, Entry, EntriesAppended, Claims, InTx, UndoneOnce
  <1> QED BY <1>1, <1>2, <1>3, <1>4, <1>5 DEF Inv

LEMMA LogAuditKeeps ==
    ASSUME Inv, NEW r \in Reqs, LogAudit(r)
    PROVE  Inv'
  <1> USE AuditUndoAssumption, NoneTyped
  <1> DEFINE a == [action |-> Action(r),
                   old |-> IF Action(r) = "CREATE" THEN None ELSE before[r],
                   new |-> after[r], undone |-> FALSE]
  <1>0. a \in Entry /\ Known(a.old) /\ Known(a.new) /\ audit' = [audit EXCEPT ![r] = a]
    BY ActionTyped, ImageTyped, SMT DEF Inv, TypeOK, LogAudit, Entry, TokensKnown
  <1>1. TypeOK'
    BY <1>0, SMT DEF Inv, TypeOK, LogAudit, book, Pcs
  <1>2. TokensKnown'
    BY <1>0, SMT DEF Inv, TypeOK, LogAudit, book, TokensKnown, Known
  <1>3. EntriesAppended'
    BY SMT DEF Inv, TypeOK, LogAudit, book, Entry, EntriesAppended
  <1>4. Claims'
    BY SMT DEF Inv, TypeOK, LogAudit, book, Entry, EntriesAppended, Claims, InTx
  <1>5. UndoneOnce'
    BY SMT DEF Inv, TypeOK, LogAudit, book, Entry, EntriesAppended, Claims, InTx, UndoneOnce
  <1> QED BY <1>1, <1>2, <1>3, <1>4, <1>5 DEF Inv

LEMMA AuditLostKeeps ==
    ASSUME Inv, NEW r \in Reqs, AuditLost(r)
    PROVE  Inv'
  <1> USE AuditUndoAssumption, NoneTyped
  <1>1. TypeOK'
    BY SMT DEF Inv, TypeOK, AuditLost, book, Row, Snap, Entry, Pcs, TokensKnown, Known
  <1>2. TokensKnown'
    BY SMT DEF Inv, TypeOK, AuditLost, book, Row, Snap, Entry, TokensKnown, Known
  <1>3. EntriesAppended'
    BY SMT DEF Inv, TypeOK, AuditLost, book, Entry, EntriesAppended
  <1>4. Claims'
    BY SMT DEF Inv, TypeOK, AuditLost, book, Entry, EntriesAppended, Claims, InTx
  <1>5. UndoneOnce'
    BY SMT DEF Inv, TypeOK, AuditLost, book, Entry, EntriesAppended, Claims, InTx, UndoneOnce
  <1> QED BY <1>1, <1>2, <1>3, <1>4, <1>5 DEF Inv

LEMMA Initially == Init => Inv
  <1> SUFFICES ASSUME Init PROVE Inv
    OBVIOUS
  <1> USE AuditUndoAssumption
  <1>0. /\ None \in Snap /\ NoEntry \in Entry
        /\ [action |-> "CREATE", old |-> None,
            new |-> [ver |-> 1, body |-> Body0, rec |-> FALSE], undone |-> FALSE] \in Entry
    BY SMT DEF None, Snap, NoEntry, Entry
  <1>1. TypeOK
    BY <1>0, SMT DEF Init, TypeOK, Row, Pcs
  <1>a. \A r \in Reqs :
          \/ audit[r] = NoEntry
          \/ /\ audit[r] = [action |-> "CREATE", old |-> None,
                            new |-> [ver |-> 1, body |-> Body0, rec |-> FALSE],
                            undone |-> FALSE]
             /\ pc[r] = "done"
    BY DEF Init
  <1>b. \A r \in Reqs : \/ Op[r] = "create" /\ pc[r] = "done"
                        \/ Op[r] # "create" /\ pc[r] = "idle" /\ wrote[r] = 0
    <2>1. /\ pc = [r \in Reqs |-> IF Op[r] = "create" THEN "done" ELSE "idle"]
          /\ wrote = [r \in Reqs |-> IF Op[r] = "create" THEN 1 ELSE 0]
      BY DEF Init
    <2>2. ASSUME NEW r \in Reqs
          PROVE  \/ Op[r] = "create" /\ pc[r] = "done"
                 \/ Op[r] # "create" /\ pc[r] = "idle" /\ wrote[r] = 0
      <3>1. CASE Op[r] = "create"
        BY <2>1, <3>1
      <3>2. CASE Op[r] # "create"
        BY <2>1, <3>2
      <3> QED BY <3>1, <3>2
    <2> QED BY <2>2
  <1>c. clock = 1 /\ \A r \in Reqs : /\ seen[r] = None /\ before[r] = None
                                    /\ after[r] = None /\ entry[r] = NoReq
    BY DEF Init
  <1>d. None.ver = 0 /\ NoEntry.old = None /\ NoEntry.new = None /\ NoEntry.action = "none"
    BY DEF None, NoEntry
  <1>2. TokensKnown
    <2> SUFFICES ASSUME NEW r \in Reqs
                 PROVE  /\ Known(seen[r]) /\ Known(before[r]) /\ Known(after[r])
                        /\ Known(audit[r].old) /\ Known(audit[r].new)
      BY DEF TokensKnown
    <2>1. audit[r].old.ver \in {0, 1} /\ audit[r].new.ver \in {0, 1}
      BY <1>a, <1>d
    <2> QED BY <1>c, <1>d, <2>1, SMT DEF Known
  <1>3. EntriesAppended
    <2> SUFFICES ASSUME NEW r \in Reqs
                 PROVE  /\ entry[r] = NoReq
                        /\ audit[r].action # "none" => pc[r] = "done"
                        /\ Op[r] = "undo" => pc[r] = "idle"
                        /\ pc[r] \notin {"committed", "imaged"}
                        /\ pc[r] = "idle" => wrote[r] = 0
      BY DEF EntriesAppended
    <2>1. audit[r].action # "none" => pc[r] = "done"
      BY <1>a, <1>d
    <2> QED BY <1>b, <1>c, <2>1
  <1>4. Claims
    BY SMT DEF Init, Claims, InTx
  <1>5. UndoneOnce
    BY SMT DEF Init, UndoneOnce
  <1> QED BY <1>1, <1>2, <1>3, <1>4, <1>5 DEF Inv

LEMMA Stuttering == Inv /\ UNCHANGED vars => Inv'
  BY SMT DEF vars, Inv, TypeOK, TokensKnown, Known, EntriesAppended, Claims, UndoneOnce

LEMMA Keeps == Inv /\ [Next]_vars => Inv'
  <1> SUFFICES ASSUME Inv, [Next]_vars PROVE Inv'
    OBVIOUS
  <1>1. CASE UNCHANGED vars
    BY <1>1, Stuttering
  <1>2. ASSUME NEW r \in Reqs,
               \/ Load(r) \/ LoadEntry(r) \/ ClaimUndo(r) \/ AlreadyUndone(r)
               \/ Aim(r) \/ Lock(r) \/ LockNothing(r) \/ Check(r) \/ Rollback(r)
        PROVE  Inv'
    BY <1>2, LoadKeeps, LoadEntryKeeps, ClaimUndoKeeps, AlreadyUndoneKeeps, AimKeeps,
       LockKeeps, LockNothingKeeps, CheckKeeps, RollbackKeeps
  <1>3. ASSUME NEW r \in Reqs,
               \/ Put(r) \/ Delete(r) \/ Toggle(r)
               \/ Revert(r) \/ Restore(r) \/ DeleteCreated(r)
               \/ ReadAfter(r) \/ LogAudit(r) \/ AuditLost(r)
        PROVE  Inv'
    BY <1>3, PutKeeps, DeleteKeeps, ToggleKeeps, RevertKeeps, RestoreKeeps,
       DeleteCreatedKeeps, ReadAfterKeeps, LogAuditKeeps, AuditLostKeeps
  <1> QED BY <1>1, <1>2, <1>3 DEF Next

\* The state stays well-typed, the lock belongs to a running transaction and no
\* token is ahead of the clock (the row's enter_date and its FOR UPDATE lock).
THEOREM Typing == Spec => []TypeOK
  <1>1. Inv => TypeOK
    BY DEF Inv
  <1> QED BY <1>1, Initially, Keeps, PTL DEF Spec

\* However many undo requests race for an entry, and whatever is saved, deleted
\* and toggled in between, at most one of them commits (claimUndo's
\* UPDATE ... WHERE undone_at IS NULL as the first write).
THEOREM OneUndo == Spec => []UndoneOnce
  <1>1. Inv => UndoneOnce
    BY DEF Inv
  <1> QED BY <1>1, Initially, Keeps, PTL DEF Spec
---------------------------------------------------------------------------------
(* Tokens: a version names one content, and a save replaces what was loaded. *)

IsImage(a) ==
    \/ a = None
    \/ a = Image
    \/ \E r \in Reqs : a \in {seen[r], before[r], after[r], audit[r].old, audit[r].new}
OneContent == \A a, b : IsImage(a) /\ IsImage(b) /\ a.ver = b.ver => a = b

\* A save that passed its checks holds the row it checked.
SaversHold ==
    \A r \in Reqs : pc[r] \in {"locked", "checked"} /\ Op[r] \in {"put", "delete"} =>
      /\ holder = r /\ row.live
      /\ pc[r] = "checked" => row.ver = seen[r].ver

\* A step makes the row an image that is known, or one under a token drawn in
\* that step, and copies images elsewhere.
NewImage(a) == \/ a \in {None, Image} \/ a.ver = clock + 1
               \/ \E r \in Reqs : a = audit[r].old
Copies ==
    /\ NewImage(Image')
    /\ \A r \in Reqs : /\ seen'[r] \in {seen[r], None, Image}
                       /\ before'[r] \in {before[r], None, Image}
                       /\ after'[r] \in {after[r], None, Image} \cup {audit[q].old : q \in Reqs}
                       /\ audit'[r].old \in {audit[r].old, None, before[r]}
                       /\ audit'[r].new \in {audit[r].new, after[r]}

Grows == \A a : IsImage(a)' => IsImage(a) \/ (a.ver = clock + 1 /\ a = Image')

LEMMA CopiesGrow == ASSUME Copies PROVE Grows
  <1> SUFFICES ASSUME NEW a, IsImage(a)'
               PROVE  IsImage(a) \/ (a.ver = clock + 1 /\ a = Image')
    BY DEF Grows
  <1>1. CASE a = None
    BY <1>1 DEF IsImage
  <1>2. CASE a = Image'
    BY <1>2 DEF Copies, NewImage, IsImage
  <1>3. ASSUME NEW r \in Reqs,
               a \in {seen'[r], before'[r], after'[r], audit'[r].old, audit'[r].new}
        PROVE  IsImage(a)
    BY <1>3 DEF Copies, IsImage
  <1>4. None' = None
    BY DEF None
  <1> QED BY <1>1, <1>2, <1>3, <1>4 DEF IsImage

LEMMA SameImage == row' = row => Image' = Image /\ NewImage(Image')
  BY DEF Image, NewImage, None

LEMMA LoadGrows == ASSUME Inv, NEW q \in Reqs, Load(q) PROVE Grows
  <1>1. NewImage(Image')
    BY SameImage DEF Load, book
  <1> QED BY <1>1, CopiesGrow, SMT DEF Load, book, Copies, Inv, TypeOK

LEMMA LoadEntryGrows == ASSUME Inv, NEW q \in Reqs, LoadEntry(q) PROVE Grows
  <1>1. NewImage(Image')
    BY SameImage DEF LoadEntry, book
  <1> QED BY <1>1, CopiesGrow, SMT DEF LoadEntry, book, Copies, Inv, TypeOK

LEMMA ClaimUndoGrows == ASSUME Inv, NEW q \in Reqs, ClaimUndo(q) PROVE Grows
  <1>1. NewImage(Image')
    BY SameImage DEF ClaimUndo, book
  <1> QED BY <1>1, CopiesGrow, SMT DEF ClaimUndo, book, Copies, Inv, TypeOK

LEMMA AlreadyUndoneGrows == ASSUME Inv, NEW q \in Reqs, AlreadyUndone(q) PROVE Grows
  <1>1. NewImage(Image')
    BY SameImage DEF AlreadyUndone, Release, book
  <1> QED BY <1>1, CopiesGrow, SMT DEF AlreadyUndone, Release, book, Copies, Inv, TypeOK

LEMMA AimGrows == ASSUME Inv, NEW q \in Reqs, Aim(q) PROVE Grows
  <1>1. NewImage(Image')
    BY SameImage DEF Aim, book
  <1> QED BY <1>1, CopiesGrow, SMT DEF Aim, book, Copies, Inv, TypeOK

LEMMA LockGrows == ASSUME Inv, NEW q \in Reqs, Lock(q) PROVE Grows
  <1>1. NewImage(Image')
    BY SameImage DEF Lock, book
  <1> QED BY <1>1, CopiesGrow, SMT DEF Lock, book, Copies, Inv, TypeOK

LEMMA LockNothingGrows == ASSUME Inv, NEW q \in Reqs, LockNothing(q) PROVE Grows
  <1>1. NewImage(Image')
    BY SameImage DEF LockNothing, book
  <1> QED BY <1>1, CopiesGrow, SMT DEF LockNothing, book, Copies, Inv, TypeOK

LEMMA CheckGrows == ASSUME Inv, NEW q \in Reqs, Check(q) PROVE Grows
  <1>1. NewImage(Image')
    BY SameImage DEF Check, book
  <1> QED BY <1>1, CopiesGrow, SMT DEF Check, book, Copies, Inv, TypeOK

LEMMA RollbackGrows == ASSUME Inv, NEW q \in Reqs, Rollback(q) PROVE Grows
  <1>1. NewImage(Image')
    BY SameImage DEF Rollback, Release, book
  <1> QED BY <1>1, CopiesGrow, SMT DEF Rollback, Release, book, Copies, Inv, TypeOK

LEMMA ReadAfterGrows == ASSUME Inv, NEW q \in Reqs, ReadAfter(q) PROVE Grows
  <1>1. NewImage(Image')
    BY SameImage DEF ReadAfter, book
  <1> QED BY <1>1, CopiesGrow, SMT DEF ReadAfter, book, Copies, Inv, TypeOK

LEMMA AuditLostGrows == ASSUME Inv, NEW q \in Reqs, AuditLost(q) PROVE Grows
  <1>1. NewImage(Image')
    BY SameImage DEF AuditLost, book
  <1> QED BY <1>1, CopiesGrow, SMT DEF AuditLost, book, Copies, Inv, TypeOK

LEMMA PutGrows == ASSUME Inv, NEW q \in Reqs, Put(q) PROVE Grows
  <1>1. row'.ver = clock + 1 /\ row'.live
    BY DEF Put, Commit, Fresh
  <1>2. NewImage(Image')
    BY <1>1 DEF Image, NewImage
  <1> QED BY <1>2, CopiesGrow, SMT DEF Put, Commit, Release, Fresh, Copies, Inv, TypeOK

LEMMA ToggleGrows == ASSUME Inv, NEW q \in Reqs, Toggle(q) PROVE Grows
  <1>1. row'.ver = clock + 1 /\ row'.live
    BY DEF Toggle, Commit, Fresh
  <1>2. NewImage(Image')
    BY <1>1 DEF Image, NewImage
  <1> QED BY <1>2, CopiesGrow, SMT DEF Toggle, Commit, Release, Fresh, Copies, Inv, TypeOK

LEMMA DeleteGrows == ASSUME Inv, NEW q \in Reqs, Delete(q) PROVE Grows
  <1>1. NewImage(Image')
    BY DEF Delete, Commit, Gone, Image, NewImage, None
  <1> QED BY <1>1, CopiesGrow, SMT DEF Delete, Commit, Release, Copies, Inv, TypeOK

LEMMA StampCopies ==
    ASSUME Inv, NEW q \in Reqs, Undone(q)
    PROVE  \A r \in Reqs : audit'[r].old = audit[r].old /\ audit'[r].new = audit[r].new
  BY DEF Inv, TypeOK, Undone, Entry

LEMMA DeleteCreatedGrows == ASSUME Inv, NEW q \in Reqs, DeleteCreated(q) PROVE Grows
  <1>1. NewImage(Image')
    BY DEF DeleteCreated, Commit, Gone, Image, NewImage, None
  <1>2. \A r \in Reqs : audit'[r].old = audit[r].old /\ audit'[r].new = audit[r].new
    BY StampCopies DEF DeleteCreated
  <1> QED BY <1>1, <1>2, CopiesGrow, SMT DEF DeleteCreated, Commit, Release, Copies, Inv, TypeOK

LEMMA RevertGrows == ASSUME Inv, NEW q \in Reqs, Revert(q) PROVE Grows
  <1>1. entry[q] \in Reqs /\ audit[entry[q]] \in Entry
    BY UndoneTyped DEF Revert
  <1>2. audit[entry[q]].old \in Snap
    BY <1>1 DEF Entry
  <1>3. Image' = audit[entry[q]].old
    BY <1>2, SMT DEF Revert, Commit, Restored, Image, Snap
  <1>4. NewImage(Image')
    BY <1>1, <1>3 DEF NewImage
  <1>5. \A r \in Reqs : audit'[r].old = audit[r].old /\ audit'[r].new = audit[r].new
    BY StampCopies DEF Revert
  <1>6. \A r \in Reqs : after'[r] \in {after[r], audit[entry[q]].old}
    BY DEF Revert, Inv, TypeOK
  <1>7. \A r \in Reqs : seen'[r] \in {seen[r], None} /\ before'[r] = before[r]
    BY DEF Revert, Commit, Release, Inv, TypeOK
  <1> QED BY <1>1, <1>4, <1>5, <1>6, <1>7, CopiesGrow DEF Copies

LEMMA RestoreGrows == ASSUME Inv, NEW q \in Reqs, Restore(q) PROVE Grows
  <1>1. entry[q] \in Reqs /\ audit[entry[q]] \in Entry
    BY UndoneTyped DEF Restore
  <1>2. audit[entry[q]].old \in Snap
    BY <1>1 DEF Entry
  <1>3. Image' = audit[entry[q]].old
    BY <1>2, SMT DEF Restore, Commit, Restored, Image, Snap
  <1>4. NewImage(Image')
    BY <1>1, <1>3 DEF NewImage
  <1>5. \A r \in Reqs : audit'[r].old = audit[r].old /\ audit'[r].new = audit[r].new
    BY StampCopies DEF Restore
  <1>6. \A r \in Reqs : after'[r] \in {after[r], audit[entry[q]].old}
    BY DEF Restore, Inv, TypeOK
  <1>7. \A r \in Reqs : seen'[r] \in {seen[r], None} /\ before'[r] = before[r]
    BY DEF Restore, Commit, Release, Inv, TypeOK
  <1> QED BY <1>1, <1>4, <1>5, <1>6, <1>7, CopiesGrow DEF Copies

LEMMA LogAuditGrows == ASSUME Inv, NEW q \in Reqs, LogAudit(q) PROVE Grows
  <1>1. NewImage(Image')
    BY SameImage DEF LogAudit, book
  <1>2. \A r \in Reqs : /\ audit'[r].old \in {audit[r].old, None, before[r]}
                       /\ audit'[r].new \in {audit[r].new, after[r]}
    BY SMT DEF LogAudit, Inv, TypeOK
  <1> QED BY <1>1, <1>2, CopiesGrow, SMT DEF LogAudit, Copies, Inv, TypeOK

\* The invariant of the tokens.
KInv == Inv /\ OneContent /\ SaversHold

LEMMA ImagesKnown == ASSUME Inv, NEW a, IsImage(a) PROVE a.ver \in Nat /\ a.ver <= clock
  <1>1. Image \in Snap /\ Known(Image) /\ None \in Snap /\ Known(None)
    BY ImageTyped DEF Inv
  <1>2. \A r \in Reqs : /\ seen[r] \in Snap /\ before[r] \in Snap /\ after[r] \in Snap
                       /\ audit[r].old \in Snap /\ audit[r].new \in Snap
    BY DEF Inv, TypeOK, Entry
  <1>3. a \in Snap /\ Known(a)
    BY <1>1, <1>2 DEF IsImage, Inv, TokensKnown
  <1> QED BY <1>3 DEF Snap, Known

LEMMA ContentKept == ASSUME Inv, OneContent, Grows PROVE OneContent'
  <1> SUFFICES ASSUME NEW a, NEW b, IsImage(a)', IsImage(b)', a.ver = b.ver
               PROVE  a = b
    BY DEF OneContent
  <1>1. /\ IsImage(a) \/ (a.ver = clock + 1 /\ a = Image')
        /\ IsImage(b) \/ (b.ver = clock + 1 /\ b = Image')
    BY DEF Grows
  <1>2. clock \in Nat
    BY DEF Inv, TypeOK
  <1>3. /\ IsImage(a) => a.ver \in Nat /\ a.ver <= clock
        /\ IsImage(b) => b.ver \in Nat /\ b.ver <= clock
    BY ImagesKnown
  <1>4. CASE IsImage(a) /\ IsImage(b)
    BY <1>4 DEF OneContent
  <1>5. CASE ~IsImage(a)
    BY <1>1, <1>2, <1>3, <1>5
  <1>6. CASE ~IsImage(b)
    BY <1>1, <1>2, <1>3, <1>6
  <1> QED BY <1>4, <1>5, <1>6

LEMMA LoadHolds == ASSUME Inv, SaversHold, NEW q \in Reqs, Load(q) PROVE SaversHold'
  BY AuditUndoAssumption, SMT DEF Load, book, SaversHold, Inv, TypeOK

LEMMA LoadEntryHolds == ASSUME Inv, SaversHold, NEW q \in Reqs, LoadEntry(q) PROVE SaversHold'
  BY AuditUndoAssumption, SMT DEF LoadEntry, book, SaversHold, Inv, TypeOK

LEMMA ClaimUndoHolds == ASSUME Inv, SaversHold, NEW q \in Reqs, ClaimUndo(q) PROVE SaversHold'
  BY AuditUndoAssumption, SMT DEF ClaimUndo, book, SaversHold, Inv, TypeOK

LEMMA AlreadyUndoneHolds == ASSUME Inv, SaversHold, NEW q \in Reqs, AlreadyUndone(q) PROVE SaversHold'
  BY AuditUndoAssumption, SMT DEF AlreadyUndone, Release, book, SaversHold, Inv, TypeOK

LEMMA AimHolds == ASSUME Inv, SaversHold, NEW q \in Reqs, Aim(q) PROVE SaversHold'
  BY AuditUndoAssumption, SMT DEF Aim, book, SaversHold, Inv, TypeOK

LEMMA LockHolds == ASSUME Inv, SaversHold, NEW q \in Reqs, Lock(q) PROVE SaversHold'
  BY AuditUndoAssumption, SMT DEF Lock, Found, book, SaversHold, Inv, TypeOK

LEMMA LockNothingHolds == ASSUME Inv, SaversHold, NEW q \in Reqs, LockNothing(q) PROVE SaversHold'
  BY AuditUndoAssumption, SMT DEF LockNothing, book, SaversHold, Inv, TypeOK

LEMMA CheckHolds == ASSUME Inv, SaversHold, NEW q \in Reqs, Check(q) PROVE SaversHold'
  BY AuditUndoAssumption, SMT DEF Check, Past, CanSave, book, SaversHold, Inv, TypeOK

LEMMA RollbackHolds == ASSUME Inv, SaversHold, NEW q \in Reqs, Rollback(q) PROVE SaversHold'
  BY AuditUndoAssumption, SMT DEF Rollback, Release, book, SaversHold, Inv, TypeOK

LEMMA PutHolds == ASSUME Inv, SaversHold, NEW q \in Reqs, Put(q) PROVE SaversHold'
  BY AuditUndoAssumption, SMT DEF Put, Commit, Release, MayWrite, book, SaversHold, Inv, TypeOK

LEMMA DeleteHolds == ASSUME Inv, SaversHold, NEW q \in Reqs, Delete(q) PROVE SaversHold'
  BY AuditUndoAssumption, SMT DEF Delete, Commit, Release, MayWrite, book, SaversHold, Inv, TypeOK

LEMMA ToggleHolds == ASSUME Inv, SaversHold, NEW q \in Reqs, Toggle(q) PROVE SaversHold'
  BY AuditUndoAssumption, SMT DEF Toggle, Commit, Release, MayWrite, Past, book, SaversHold, Inv, TypeOK

LEMMA RevertHolds == ASSUME Inv, SaversHold, NEW q \in Reqs, Revert(q) PROVE SaversHold'
  BY AuditUndoAssumption, SMT DEF Revert, Commit, Release, MayWrite, book, SaversHold, Inv, TypeOK

LEMMA RestoreHolds == ASSUME Inv, SaversHold, NEW q \in Reqs, Restore(q) PROVE SaversHold'
  BY AuditUndoAssumption, SMT DEF Restore, Commit, Release, book, SaversHold, Inv, TypeOK

LEMMA DeleteCreatedHolds == ASSUME Inv, SaversHold, NEW q \in Reqs, DeleteCreated(q) PROVE SaversHold'
  BY AuditUndoAssumption, SMT DEF DeleteCreated, Commit, Release, MayWrite, book, SaversHold, Inv, TypeOK

LEMMA ReadAfterHolds == ASSUME Inv, SaversHold, NEW q \in Reqs, ReadAfter(q) PROVE SaversHold'
  BY AuditUndoAssumption, SMT DEF ReadAfter, book, SaversHold, Inv, TypeOK

LEMMA LogAuditHolds == ASSUME Inv, SaversHold, NEW q \in Reqs, LogAudit(q) PROVE SaversHold'
  BY AuditUndoAssumption, SMT DEF LogAudit, book, SaversHold, Inv, TypeOK

LEMMA AuditLostHolds == ASSUME Inv, SaversHold, NEW q \in Reqs, AuditLost(q) PROVE SaversHold'
  BY AuditUndoAssumption, SMT DEF AuditLost, book, SaversHold, Inv, TypeOK

LEMMA TokensInitially == Init => OneContent /\ SaversHold
  <1> SUFFICES ASSUME Init PROVE OneContent /\ SaversHold
    OBVIOUS
  <1>1. SaversHold
    <2>1. \A r \in Reqs : pc[r] \in {"idle", "done"}
      BY DEF Init
    <2> QED BY <2>1 DEF SaversHold
  <1>2. \A a : IsImage(a) => a = None \/ a = [ver |-> 1, body |-> Body0, rec |-> FALSE]
    <2>1. Image = [ver |-> 1, body |-> Body0, rec |-> FALSE]
      BY DEF Init, Image
    <2>2. \A r \in Reqs : seen[r] = None /\ before[r] = None /\ after[r] = None
      BY DEF Init
    <2>3. \A r \in Reqs : /\ audit[r].old = None
                         /\ audit[r].new \in {None, [ver |-> 1, body |-> Body0, rec |-> FALSE]}
      BY DEF Init, NoEntry
    <2> QED BY <2>1, <2>2, <2>3 DEF IsImage
  <1>3. None.ver = 0
    BY DEF None
  <1>4. OneContent
    <2> SUFFICES ASSUME NEW a, NEW b, IsImage(a), IsImage(b), a.ver = b.ver
                 PROVE  a = b
      BY DEF OneContent
    <2> DEFINE f == [ver |-> 1, body |-> Body0, rec |-> FALSE]
    <2>1. f.ver = 1
      OBVIOUS
    <2>2. (a = None \/ a = f) /\ (b = None \/ b = f)
      BY <1>2
    <2> HIDE DEF f
    <2> QED BY <1>3, <2>1, <2>2
  <1> QED BY <1>1, <1>4

LEMMA TokensStutter == OneContent /\ SaversHold /\ UNCHANGED vars => (OneContent /\ SaversHold)'
  BY DEF vars, OneContent, SaversHold, IsImage, Image, None

LEMMA TokensKept == KInv /\ [Next]_vars => KInv'
  <1> SUFFICES ASSUME KInv, [Next]_vars PROVE KInv'
    OBVIOUS
  <1>1. Inv'
    BY Keeps DEF KInv
  <1>2. CASE UNCHANGED vars
    BY <1>1, <1>2, TokensStutter DEF KInv
  <1>3. ASSUME NEW q \in Reqs,
               \/ Load(q) \/ LoadEntry(q) \/ ClaimUndo(q) \/ AlreadyUndone(q)
               \/ Aim(q) \/ Lock(q) \/ LockNothing(q) \/ Check(q) \/ Rollback(q)
        PROVE  Grows /\ SaversHold'
    BY <1>3,
       LoadGrows, LoadEntryGrows, ClaimUndoGrows, AlreadyUndoneGrows, AimGrows,
       LockGrows, LockNothingGrows, CheckGrows, RollbackGrows,
       LoadHolds, LoadEntryHolds, ClaimUndoHolds, AlreadyUndoneHolds, AimHolds,
       LockHolds, LockNothingHolds, CheckHolds, RollbackHolds
       DEF KInv
  <1>4. ASSUME NEW q \in Reqs,
               \/ Put(q) \/ Delete(q) \/ Toggle(q)
               \/ Revert(q) \/ Restore(q) \/ DeleteCreated(q)
               \/ ReadAfter(q) \/ LogAudit(q) \/ AuditLost(q)
        PROVE  Grows /\ SaversHold'
    BY <1>4,
       PutGrows, DeleteGrows, ToggleGrows, RevertGrows, RestoreGrows,
       DeleteCreatedGrows, ReadAfterGrows, LogAuditGrows, AuditLostGrows,
       PutHolds, DeleteHolds, ToggleHolds, RevertHolds, RestoreHolds,
       DeleteCreatedHolds, ReadAfterHolds, LogAuditHolds, AuditLostHolds
       DEF KInv
  <1>5. CASE Next
    BY <1>1, <1>3, <1>4, <1>5, ContentKept DEF Next, KInv
  <1> QED BY <1>2, <1>5

LEMMA TokensInvariant == Spec => []KInv
  BY Initially, TokensInitially, TokensKept, PTL DEF Spec, KInv

\* Among the transaction, the audit trail's images and what clients hold, equal
\* version tokens mean equal contents, although undo writes old tokens back
\* (enter_date in writeSnapshot, and its bump by every writer).
THEOREM Tokens == Spec => []TokenNamesContent
  <1>1. KInv => TokenNamesContent
    <2> SUFFICES ASSUME KInv, NEW a \in Images, NEW b \in Images, a.ver = b.ver
                 PROVE  a = b
      BY DEF TokenNamesContent
    <2>1. IsImage(a) /\ IsImage(b)
      BY DEF Images, IsImage
    <2> QED BY <2>1 DEF KInv, OneContent
  <1> QED BY <1>1, TokensInvariant, PTL

\* A save or a delete replaces exactly what its client loaded, also when the
\* transaction was undone or deleted and restored in between (the token check
\* of PUT and DELETE under the row lock).
THEOREM LostUpdates == Spec => NoLostUpdate
  <1> DEFINE Ok == \A r \in Reqs : Replaces(r) => Image = seen[r]
  <1>1. KInv /\ [Next]_vars => [Ok]_vars
    <2> SUFFICES ASSUME KInv, Next, NEW r \in Reqs, Replaces(r) PROVE Image = seen[r]
      OBVIOUS
    <2>1. pc[r] = "checked"
      <3>1. \A q \in Reqs : \/ Load(q) \/ LoadEntry(q) \/ ClaimUndo(q) \/ AlreadyUndone(q)
                            \/ Aim(q) \/ Lock(q) \/ LockNothing(q) \/ Check(q) \/ Rollback(q)
                            \/ ReadAfter(q) \/ LogAudit(q) \/ AuditLost(q)
                           => wrote' = wrote
        BY DEF Load, LoadEntry, ClaimUndo, AlreadyUndone, Aim, Lock, LockNothing, Check,
               Rollback, ReadAfter, LogAudit, AuditLost, book
      <3>2. \A q \in Reqs : \/ Toggle(q) \/ Revert(q) \/ Restore(q) \/ DeleteCreated(q)
                           => q # r /\ wrote'[r] = wrote[r]
        BY DEF Toggle, Revert, Restore, DeleteCreated, Commit, Replaces, KInv, Inv, TypeOK
      <3>3. \A q \in Reqs : Put(q) \/ Delete(q) =>
                             pc[q] = "checked" /\ (q # r => wrote'[r] = wrote[r])
        BY DEF Put, Delete, Commit, KInv, Inv, TypeOK
      <3> QED BY <3>1, <3>2, <3>3 DEF Next, Replaces
    <2>2. row.live /\ row.ver = seen[r].ver
      BY <2>1 DEF Replaces, KInv, SaversHold
    <2>3. IsImage(Image) /\ IsImage(seen[r]) /\ Image.ver = seen[r].ver
      BY <2>2 DEF IsImage, Image
    <2> QED BY <2>3 DEF KInv, OneContent
  <1> QED BY <1>1, TokensInvariant, PTL DEF Spec, NoLostUpdate
---------------------------------------------------------------------------------
(* Reverts: what a revert replaces is what the entry's own request wrote.        *)

\* A revert that passed its check, and has the row locked, still sees what the
\* entry's request left.
Reverts(r) ==
    pc[r] = "checked" /\ Op[r] = "undo" /\ Plan(r) = "UPDATE" /\ holder = r =>
      /\ row.live
      /\ audit[entry[r]].new # None => Image = audit[entry[r]].new

\* Who has committed has written under a token, and who takes content away, or
\* has logged that, took it from a row.
Takes(r) == Op[r] \in {"put", "delete"} \/ (Op[r] = "undo" /\ Plan(r) \in {"UPDATE", "CREATE"})
Stamped(r) ==
    /\ pc[r] \in {"committed", "imaged"} => wrote[r] > 0
    /\ audit[r].action # "none" => wrote[r] > 0
    /\ audit[r].action \in {"UPDATE", "DELETE"} => audit[r].old.ver > 0
    /\ pc[r] \in {"checked", "committed", "imaged"} /\ Takes(r) => before[r].ver > 0

RInv == KInv /\ row.ver > 0 /\ \A r \in Reqs : Stamped(r) /\ Reverts(r)

\* What a request's step leaves to the others: a locked row, and what is logged.
Aside(q) ==
    /\ \A r \in Reqs \ {q} :
          /\ pc'[r] = pc[r] /\ entry'[r] = entry[r] /\ before'[r] = before[r]
          /\ wrote'[r] = wrote[r]
          /\ holder' = r => holder = r
          /\ holder = r => row' = row
    /\ \A e \in Reqs : (e # q \/ audit[e].action # "none") =>
          /\ audit'[e].action = audit[e].action
          /\ audit'[e].old = audit[e].old /\ audit'[e].new = audit[e].new

LEMMA PlanStays ==
    ASSUME Inv, NEW q \in Reqs, Aside(q), NEW r \in Reqs, entry'[r] = entry[r]
    PROVE  /\ Plan(r)' = Plan(r)
           /\ entry[r] # NoReq => audit'[entry[r]].new = audit[entry[r]].new
  <1>1. entry[r] # NoReq => entry[r] \in Reqs /\ audit[entry[r]].action # "none"
    BY DEF Inv, TypeOK, EntriesAppended
  <1> QED BY <1>1 DEF Aside, Plan

LEMMA OthersKept ==
    ASSUME Inv, NEW q \in Reqs, Aside(q), NEW r \in Reqs \ {q}, Stamped(r), Reverts(r)
    PROVE  Stamped(r)' /\ Reverts(r)'
  <1>1. /\ pc'[r] = pc[r] /\ entry'[r] = entry[r] /\ before'[r] = before[r]
        /\ wrote'[r] = wrote[r] /\ (holder' = r => holder = r /\ row' = row)
        /\ audit'[r].action = audit[r].action /\ audit'[r].old = audit[r].old
    BY DEF Aside
  <1>2. /\ Plan(r)' = Plan(r) /\ Takes(r)' = Takes(r)
        /\ entry[r] # NoReq => audit'[entry[r]].new = audit[entry[r]].new
    BY <1>1, PlanStays DEF Takes
  <1>3. Stamped(r)'
    BY <1>1, <1>2 DEF Stamped
  <1>4. ASSUME pc'[r] = "checked", Op[r] = "undo", Plan(r)' = "UPDATE", holder' = r
        PROVE  (row.live /\ (audit[entry[r]].new # None => Image = audit[entry[r]].new))'
    <2>1. row.live /\ (audit[entry[r]].new # None => Image = audit[entry[r]].new) /\ row' = row
      BY <1>1, <1>2, <1>4 DEF Reverts
    <2>2. entry[r] # NoReq
      BY <1>1, <1>4 DEF Inv, EntriesAppended
    <2> QED BY <1>1, <1>2, <2>1, <2>2 DEF Image, None
  <1> QED BY <1>3, <1>4 DEF Reverts

LEMMA LoadAside == ASSUME Inv, NEW q \in Reqs, Load(q) PROVE Aside(q)
  BY AuditUndoAssumption, SMT DEF Load, book, Aside, Inv, TypeOK

LEMMA LoadEntryAside == ASSUME Inv, NEW q \in Reqs, LoadEntry(q) PROVE Aside(q)
  BY AuditUndoAssumption, SMT DEF LoadEntry, book, Aside, Inv, TypeOK

LEMMA ClaimUndoAside == ASSUME Inv, NEW q \in Reqs, ClaimUndo(q) PROVE Aside(q)
  BY AuditUndoAssumption, SMT DEF ClaimUndo, book, Aside, Inv, TypeOK

LEMMA AlreadyUndoneAside == ASSUME Inv, NEW q \in Reqs, AlreadyUndone(q) PROVE Aside(q)
  BY AuditUndoAssumption, SMT DEF AlreadyUndone, Release, book, Aside, Inv, TypeOK

LEMMA AimAside == ASSUME Inv, NEW q \in Reqs, Aim(q) PROVE Aside(q)
  BY AuditUndoAssumption, SMT DEF Aim, book, Aside, Inv, TypeOK

LEMMA LockAside == ASSUME Inv, NEW q \in Reqs, Lock(q) PROVE Aside(q)
  BY AuditUndoAssumption, SMT DEF Lock, book, Aside, Inv, TypeOK

LEMMA LockNothingAside == ASSUME Inv, NEW q \in Reqs, LockNothing(q) PROVE Aside(q)
  BY AuditUndoAssumption, SMT DEF LockNothing, book, Aside, Inv, TypeOK

LEMMA RollbackAside == ASSUME Inv, NEW q \in Reqs, Rollback(q) PROVE Aside(q)
  BY AuditUndoAssumption, SMT DEF Rollback, Release, book, Aside, Inv, TypeOK

LEMMA CheckAside == ASSUME Inv, NEW q \in Reqs, Check(q) PROVE Aside(q)
  BY AuditUndoAssumption, SMT DEF Check, book, Aside, Inv, TypeOK

LEMMA ReadAfterAside == ASSUME Inv, NEW q \in Reqs, ReadAfter(q) PROVE Aside(q)
  BY AuditUndoAssumption, SMT DEF ReadAfter, book, Aside, Inv, TypeOK

LEMMA AuditLostAside == ASSUME Inv, NEW q \in Reqs, AuditLost(q) PROVE Aside(q)
  BY AuditUndoAssumption, SMT DEF AuditLost, book, Aside, Inv, TypeOK

LEMMA PutAside == ASSUME Inv, NEW q \in Reqs, Put(q) PROVE Aside(q)
  BY AuditUndoAssumption, SMT DEF Put, Commit, Release, MayWrite, book, Aside, Inv, TypeOK

LEMMA DeleteAside == ASSUME Inv, NEW q \in Reqs, Delete(q) PROVE Aside(q)
  BY AuditUndoAssumption, SMT DEF Delete, Commit, Release, MayWrite, book, Aside, Inv, TypeOK

LEMMA ToggleAside == ASSUME Inv, NEW q \in Reqs, Toggle(q) PROVE Aside(q)
  BY AuditUndoAssumption, SMT DEF Toggle, Commit, Release, MayWrite, book, Aside, Inv, TypeOK

LEMMA RevertAside == ASSUME Inv, NEW q \in Reqs, Revert(q) PROVE Aside(q)
  <1>1. \A e \in Reqs : /\ audit'[e].action = audit[e].action
                       /\ audit'[e].old = audit[e].old /\ audit'[e].new = audit[e].new
    BY DEF Revert, Undone, Inv, TypeOK, Entry
  <1>2. \A r \in Reqs \ {q} : holder # r
    BY AuditUndoAssumption DEF Revert, MayWrite
  <1>3. \A r \in Reqs \ {q} : /\ pc'[r] = pc[r] /\ entry'[r] = entry[r] /\ before'[r] = before[r]
                            /\ wrote'[r] = wrote[r] /\ (holder' = r => holder = r)
    BY AuditUndoAssumption DEF Revert, Commit, Release, Inv, TypeOK
  <1> QED BY <1>1, <1>2, <1>3 DEF Aside

LEMMA RestoreAside == ASSUME Inv, NEW q \in Reqs, Restore(q) PROVE Aside(q)
  <1>1. \A e \in Reqs : /\ audit'[e].action = audit[e].action
                       /\ audit'[e].old = audit[e].old /\ audit'[e].new = audit[e].new
    BY DEF Restore, Undone, Inv, TypeOK, Entry
  <1>2. \A r \in Reqs \ {q} : holder # r
    BY AuditUndoAssumption DEF Restore, Inv, TypeOK
  <1>3. \A r \in Reqs \ {q} : /\ pc'[r] = pc[r] /\ entry'[r] = entry[r] /\ before'[r] = before[r]
                            /\ wrote'[r] = wrote[r] /\ (holder' = r => holder = r)
    BY AuditUndoAssumption DEF Restore, Commit, Release, Inv, TypeOK
  <1> QED BY <1>1, <1>2, <1>3 DEF Aside

LEMMA DeleteCreatedAside == ASSUME Inv, NEW q \in Reqs, DeleteCreated(q) PROVE Aside(q)
  <1>1. \A e \in Reqs : /\ audit'[e].action = audit[e].action
                       /\ audit'[e].old = audit[e].old /\ audit'[e].new = audit[e].new
    BY DEF DeleteCreated, Undone, Inv, TypeOK, Entry
  <1>2. \A r \in Reqs \ {q} : holder # r
    BY AuditUndoAssumption DEF DeleteCreated, MayWrite
  <1>3. \A r \in Reqs \ {q} : /\ pc'[r] = pc[r] /\ entry'[r] = entry[r] /\ before'[r] = before[r]
                            /\ wrote'[r] = wrote[r] /\ (holder' = r => holder = r)
    BY AuditUndoAssumption DEF DeleteCreated, Commit, Release, Inv, TypeOK
  <1> QED BY <1>1, <1>2, <1>3 DEF Aside

LEMMA LogAuditAside == ASSUME Inv, NEW q \in Reqs, LogAudit(q) PROVE Aside(q)
  <1>1. pc[q] = "imaged" /\ audit[q].action = "none"
    BY DEF LogAudit, Inv, EntriesAppended
  <1>2. \A e \in Reqs \ {q} : audit'[e] = audit[e]
    BY DEF LogAudit, Inv, TypeOK
  <1>3. \A r \in Reqs \ {q} : /\ pc'[r] = pc[r] /\ entry'[r] = entry[r] /\ before'[r] = before[r]
                            /\ wrote'[r] = wrote[r] /\ holder' = holder /\ row' = row
    BY DEF LogAudit, book, Inv, TypeOK
  <1> QED BY <1>1, <1>2, <1>3 DEF Aside

\* The request's own part.
LEMMA QuietOwn ==
    ASSUME Inv, NEW q \in Reqs, Stamped(q), UNCHANGED <<audit, wrote>>,
           pc'[q] \notin {"checked", "committed", "imaged"}
    PROVE  Stamped(q)' /\ Reverts(q)'
  BY DEF Stamped, Reverts

LEMMA LoadOwn ==
    ASSUME Inv, row.ver > 0, NEW q \in Reqs, Stamped(q), Load(q)
    PROVE  row'.ver > 0 /\ Stamped(q)' /\ Reverts(q)'
  <1>1. /\ UNCHANGED <<row, audit, wrote>>
        /\ pc'[q] \notin {"checked", "committed", "imaged"}
    BY DEF Load, book, Inv, TypeOK
  <1> QED BY <1>1, QuietOwn

LEMMA LoadEntryOwn ==
    ASSUME Inv, row.ver > 0, NEW q \in Reqs, Stamped(q), LoadEntry(q)
    PROVE  row'.ver > 0 /\ Stamped(q)' /\ Reverts(q)'
  <1>1. /\ UNCHANGED <<row, audit, wrote>>
        /\ pc'[q] \notin {"checked", "committed", "imaged"}
    BY DEF LoadEntry, book, Inv, TypeOK
  <1> QED BY <1>1, QuietOwn

LEMMA ClaimUndoOwn ==
    ASSUME Inv, row.ver > 0, NEW q \in Reqs, Stamped(q), ClaimUndo(q)
    PROVE  row'.ver > 0 /\ Stamped(q)' /\ Reverts(q)'
  <1>1. /\ UNCHANGED <<row, audit, wrote>>
        /\ pc'[q] \notin {"checked", "committed", "imaged"}
    BY DEF ClaimUndo, book, Inv, TypeOK
  <1> QED BY <1>1, QuietOwn

LEMMA AlreadyUndoneOwn ==
    ASSUME Inv, row.ver > 0, NEW q \in Reqs, Stamped(q), AlreadyUndone(q)
    PROVE  row'.ver > 0 /\ Stamped(q)' /\ Reverts(q)'
  <1>1. /\ UNCHANGED <<row, audit, wrote>>
        /\ pc'[q] \notin {"checked", "committed", "imaged"}
    BY DEF AlreadyUndone, Release, book, Inv, TypeOK
  <1> QED BY <1>1, QuietOwn

LEMMA AimOwn ==
    ASSUME Inv, row.ver > 0, NEW q \in Reqs, Stamped(q), Aim(q)
    PROVE  row'.ver > 0 /\ Stamped(q)' /\ Reverts(q)'
  <1>1. /\ UNCHANGED <<row, audit, wrote>>
        /\ pc'[q] \notin {"checked", "committed", "imaged"}
    BY DEF Aim, book, Inv, TypeOK
  <1> QED BY <1>1, QuietOwn

LEMMA LockOwn ==
    ASSUME Inv, row.ver > 0, NEW q \in Reqs, Stamped(q), Lock(q)
    PROVE  row'.ver > 0 /\ Stamped(q)' /\ Reverts(q)'
  <1>1. /\ UNCHANGED <<row, audit, wrote>>
        /\ pc'[q] \notin {"checked", "committed", "imaged"}
    BY DEF Lock, book, Inv, TypeOK
  <1> QED BY <1>1, QuietOwn

LEMMA LockNothingOwn ==
    ASSUME Inv, row.ver > 0, NEW q \in Reqs, Stamped(q), LockNothing(q)
    PROVE  row'.ver > 0 /\ Stamped(q)' /\ Reverts(q)'
  <1>1. /\ UNCHANGED <<row, audit, wrote>>
        /\ pc'[q] \notin {"checked", "committed", "imaged"}
    BY DEF LockNothing, book, Inv, TypeOK
  <1> QED BY <1>1, QuietOwn

LEMMA RollbackOwn ==
    ASSUME Inv, row.ver > 0, NEW q \in Reqs, Stamped(q), Rollback(q)
    PROVE  row'.ver > 0 /\ Stamped(q)' /\ Reverts(q)'
  <1>1. /\ UNCHANGED <<row, audit, wrote>>
        /\ pc'[q] \notin {"checked", "committed", "imaged"}
    BY DEF Rollback, Release, book, Inv, TypeOK
  <1> QED BY <1>1, QuietOwn

LEMMA CheckOwn ==
    ASSUME Inv, row.ver > 0, NEW q \in Reqs, Stamped(q), Check(q)
    PROVE  row'.ver > 0 /\ Stamped(q)' /\ Reverts(q)'
  <1>1. /\ UNCHANGED <<row, audit, wrote, entry, holder>> /\ pc'[q] = "checked"
        /\ before'[q] = Image
    BY DEF Check, book, Inv, TypeOK
  <1>2. Plan(q)' = Plan(q) /\ Image' = Image /\ Takes(q)' = Takes(q)
    BY <1>1 DEF Plan, Image, None, Takes
  <1>3. Takes(q) => row.live
    BY DEF Check, Takes, CanSave, CanRevert, CanDelete
  <1>4. Takes(q) => before'[q].ver > 0
    BY <1>1, <1>3 DEF Image
  <1>5. Op[q] = "undo" /\ Plan(q) = "UPDATE" => CanRevert(q)
    BY DEF Check
  <1>6. Reverts(q)'
    BY <1>1, <1>2, <1>5 DEF Reverts, CanRevert
  <1> QED BY <1>1, <1>2, <1>4, <1>6 DEF Stamped

\* A request that has not logged yet.
LEMMA Unlogged ==
    ASSUME Inv, NEW q \in Reqs, pc[q] # "done"
    PROVE  audit[q].action = "none"
  BY DEF Inv, EntriesAppended

LEMMA PutOwn ==
    ASSUME Inv, row.ver > 0, NEW q \in Reqs, Stamped(q), Put(q)
    PROVE  row'.ver > 0 /\ Stamped(q)' /\ Reverts(q)'
  <1>1. /\ pc[q] = "checked" /\ pc'[q] = "committed" /\ Op[q] = "put" /\ UNCHANGED <<audit, before>>
        /\ row'.ver = clock + 1 /\ wrote'[q] = clock + 1
    BY DEF Put, Commit, Release, Fresh, Inv, TypeOK
  <1>2. clock + 1 > 0
    BY DEF Inv, TypeOK
  <1>3. audit'[q].action = "none"
    BY <1>1, Unlogged
  <1> QED BY <1>1, <1>2, <1>3 DEF Stamped, Reverts, Takes

LEMMA DeleteOwn ==
    ASSUME Inv, row.ver > 0, NEW q \in Reqs, Stamped(q), Delete(q)
    PROVE  row'.ver > 0 /\ Stamped(q)' /\ Reverts(q)'
  <1>1. /\ pc[q] = "checked" /\ pc'[q] = "imaged" /\ Op[q] = "delete" /\ UNCHANGED <<audit, before>>
        /\ row'.ver = row.ver /\ wrote'[q] = row.ver
    BY DEF Delete, Commit, Release, Gone, Inv, TypeOK
  <1>2. audit'[q].action = "none"
    BY <1>1, Unlogged
  <1> QED BY <1>1, <1>2 DEF Stamped, Reverts, Takes

LEMMA ToggleOwn ==
    ASSUME Inv, row.ver > 0, NEW q \in Reqs, Stamped(q), Toggle(q)
    PROVE  row'.ver > 0 /\ Stamped(q)' /\ Reverts(q)'
  <1>1. /\ pc[q] # "done" /\ pc'[q] = "done" /\ UNCHANGED <<audit, before>>
        /\ row'.ver = clock + 1
    BY DEF Toggle, Past, Commit, Release, Fresh, Inv, TypeOK
  <1>2. clock + 1 > 0
    BY DEF Inv, TypeOK
  <1>3. audit'[q].action = "none"
    BY <1>1, Unlogged
  <1> QED BY <1>1, <1>2, <1>3 DEF Stamped, Reverts

\* What an undo writes back was somebody's before.
LEMMA WritesBack ==
    ASSUME Inv, \A r \in Reqs : Stamped(r), NEW q \in Reqs, Op[q] = "undo", pc[q] = "checked",
           Plan(q) \in {"UPDATE", "DELETE"}
    PROVE  entry[q] \in Reqs /\ audit[entry[q]].old.ver > 0
  <1>1. entry[q] \in Reqs
    BY DEF Inv, TypeOK, EntriesAppended
  <1>2. audit[entry[q]].action \in {"UPDATE", "DELETE"}
    BY <1>1, AuditUndoAssumption DEF Plan
  <1> QED BY <1>1, <1>2 DEF Stamped

LEMMA RevertOwn ==
    ASSUME Inv, row.ver > 0, \A r \in Reqs : Stamped(r), NEW q \in Reqs, Revert(q)
    PROVE  row'.ver > 0 /\ Stamped(q)' /\ Reverts(q)'
  <1>1. /\ pc[q] = "checked" /\ Op[q] = "undo" /\ Plan(q) = "UPDATE"
        /\ UNCHANGED <<before, entry>>
        /\ row' = Restored(audit[entry[q]].old) /\ pc'[q] = "imaged"
        /\ wrote'[q] = Restored(audit[entry[q]].old).ver
    BY DEF Revert, Commit, Release, Inv, TypeOK
  <1>2. audit[entry[q]].old.ver > 0
    BY <1>1, WritesBack
  <1>3. row'.ver > 0 /\ wrote'[q] > 0
    BY <1>1, <1>2 DEF Restored
  <1>4. audit[q].action = "none" /\ audit'[q].action = "none"
    BY <1>1, Unlogged, RevertAside, StampCopies DEF Revert, Undone, Inv, TypeOK, Entry
  <1>5. Plan(q)' = Plan(q) /\ Takes(q)' = Takes(q)
    BY <1>1, RevertAside, PlanStays DEF Takes
  <1> QED BY <1>1, <1>3, <1>4, <1>5 DEF Stamped, Reverts

LEMMA RestoreOwn ==
    ASSUME Inv, row.ver > 0, \A r \in Reqs : Stamped(r), NEW q \in Reqs, Restore(q)
    PROVE  row'.ver > 0 /\ Stamped(q)' /\ Reverts(q)'
  <1>1. /\ pc[q] = "checked" /\ Op[q] = "undo" /\ Plan(q) = "DELETE"
        /\ UNCHANGED <<before, entry>>
        /\ row' = Restored(audit[entry[q]].old) /\ pc'[q] = "imaged"
        /\ wrote'[q] = Restored(audit[entry[q]].old).ver
    BY DEF Restore, Commit, Release, Inv, TypeOK
  <1>2. audit[entry[q]].old.ver > 0
    BY <1>1, WritesBack
  <1>3. row'.ver > 0 /\ wrote'[q] > 0
    BY <1>1, <1>2 DEF Restored
  <1>4. audit[q].action = "none" /\ audit'[q].action = "none"
    BY <1>1, Unlogged, RestoreAside, StampCopies DEF Restore, Undone, Inv, TypeOK, Entry
  <1>5. Plan(q)' = Plan(q) /\ Takes(q)' = Takes(q)
    BY <1>1, RestoreAside, PlanStays DEF Takes
  <1> QED BY <1>1, <1>3, <1>4, <1>5 DEF Stamped, Reverts

LEMMA DeleteCreatedOwn ==
    ASSUME Inv, row.ver > 0, NEW q \in Reqs, Stamped(q), DeleteCreated(q)
    PROVE  row'.ver > 0 /\ Stamped(q)' /\ Reverts(q)'
  <1>1. /\ pc[q] = "checked" /\ Op[q] = "undo" /\ UNCHANGED <<before, entry>>
        /\ row'.ver = row.ver /\ wrote'[q] = row.ver /\ pc'[q] = "imaged"
    BY DEF DeleteCreated, Commit, Release, Gone, Inv, TypeOK
  <1>2. audit[q].action = "none" /\ audit'[q].action = "none"
    BY <1>1, Unlogged DEF DeleteCreated, Undone, Inv, TypeOK, Entry
  <1>3. Plan(q)' = Plan(q) /\ Takes(q)' = Takes(q)
    BY <1>1, DeleteCreatedAside, PlanStays DEF Takes
  <1> QED BY <1>1, <1>2, <1>3 DEF Stamped, Reverts

LEMMA ReadAfterOwn ==
    ASSUME Inv, row.ver > 0, NEW q \in Reqs, Stamped(q), ReadAfter(q)
    PROVE  row'.ver > 0 /\ Stamped(q)' /\ Reverts(q)'
  <1>1. /\ UNCHANGED <<row, audit, wrote, entry, before>>
        /\ pc[q] = "committed" /\ pc'[q] = "imaged"
    BY DEF ReadAfter, book, Inv, TypeOK
  <1>2. Takes(q)' = Takes(q)
    BY <1>1 DEF Takes, Plan
  <1> QED BY <1>1, <1>2 DEF Stamped, Reverts

LEMMA AuditLostOwn ==
    ASSUME Inv, row.ver > 0, NEW q \in Reqs, Stamped(q), AuditLost(q)
    PROVE  row'.ver > 0 /\ Stamped(q)' /\ Reverts(q)'
  <1>1. UNCHANGED <<row, audit, wrote>> /\ pc'[q] = "done"
    BY DEF AuditLost, book, Inv, TypeOK
  <1> QED BY <1>1, QuietOwn

LEMMA LogAuditOwn ==
    ASSUME Inv, row.ver > 0, NEW q \in Reqs, Stamped(q), LogAudit(q)
    PROVE  row'.ver > 0 /\ Stamped(q)' /\ Reverts(q)'
  <1>1. UNCHANGED <<row, wrote>> /\ pc[q] = "imaged" /\ pc'[q] = "done"
    BY DEF LogAudit, book, Inv, TypeOK
  <1>2. /\ audit'[q].action = Action(q)
        /\ audit'[q].old = IF Action(q) = "CREATE" THEN None ELSE before[q]
    BY SMT DEF LogAudit, Inv, TypeOK
  <1>3. Op[q] = "undo" => Plan(q) \in {"CREATE", "UPDATE", "DELETE"}
    BY <1>1, SMT DEF Inv, TypeOK, EntriesAppended, Plan, Entry
  <1>4. Op[q] \in {"put", "delete", "undo"}
    BY <1>1 DEF Inv, EntriesAppended
  <1>5. Action(q) \in {"UPDATE", "DELETE"} => Takes(q)
    BY <1>3, <1>4, SMT DEF Action, Takes
  <1>6. wrote[q] > 0 /\ (Takes(q) => before[q].ver > 0)
    BY <1>1 DEF Stamped
  <1> QED BY <1>1, <1>2, <1>5, <1>6 DEF Stamped, Reverts

LEMMA RevertsInitially == Init => row.ver > 0 /\ \A r \in Reqs : Stamped(r) /\ Reverts(r)
  <1> SUFFICES ASSUME Init PROVE row.ver > 0 /\ \A r \in Reqs : Stamped(r) /\ Reverts(r)
    OBVIOUS
  <1>1. row.ver = 1
    BY DEF Init
  <1>2. ASSUME NEW r \in Reqs PROVE Stamped(r) /\ Reverts(r)
    <2>1. CASE Op[r] = "create"
      <3>1. pc[r] = "done" /\ wrote[r] = 1 /\ audit[r].action = "CREATE"
        BY <2>1 DEF Init
      <3> QED BY <3>1 DEF Stamped, Reverts
    <2>2. CASE Op[r] # "create"
      <3>1. pc[r] = "idle" /\ audit[r].action = "none"
        BY <2>2 DEF Init, NoEntry
      <3> QED BY <3>1 DEF Stamped, Reverts
    <2> QED BY <2>1, <2>2
  <1> QED BY <1>1, <1>2

LEMMA RevertsKept == RInv /\ [Next]_vars => RInv'
  <1> SUFFICES ASSUME RInv, [Next]_vars PROVE row'.ver > 0 /\ \A r \in Reqs : Stamped(r)' /\ Reverts(r)'
    BY TokensKept DEF RInv
  <1>0. Inv /\ row.ver > 0 /\ \A r \in Reqs : Stamped(r) /\ Reverts(r)
    BY DEF RInv, KInv
  <1>1. CASE UNCHANGED vars
    BY <1>0, <1>1 DEF vars, Stamped, Reverts, Takes, Plan, Image, None
  <1>2. ASSUME NEW q \in Reqs, Aside(q), row'.ver > 0 /\ Stamped(q)' /\ Reverts(q)'
        PROVE  row'.ver > 0 /\ \A r \in Reqs : Stamped(r)' /\ Reverts(r)'
    BY <1>0, <1>2, OthersKept
  <1>3. ASSUME NEW q \in Reqs,
               \/ Load(q) \/ LoadEntry(q) \/ ClaimUndo(q) \/ AlreadyUndone(q)
               \/ Aim(q) \/ Lock(q) \/ LockNothing(q) \/ Check(q) \/ Rollback(q)
        PROVE  Aside(q) /\ row'.ver > 0 /\ Stamped(q)' /\ Reverts(q)'
    BY <1>0, <1>3,
       LoadAside, LoadEntryAside, ClaimUndoAside, AlreadyUndoneAside, AimAside,
       LockAside, LockNothingAside, CheckAside, RollbackAside,
       LoadOwn, LoadEntryOwn, ClaimUndoOwn, AlreadyUndoneOwn, AimOwn,
       LockOwn, LockNothingOwn, CheckOwn, RollbackOwn
  <1>4. ASSUME NEW q \in Reqs,
               \/ Put(q) \/ Delete(q) \/ Toggle(q)
               \/ Revert(q) \/ Restore(q) \/ DeleteCreated(q)
               \/ ReadAfter(q) \/ LogAudit(q) \/ AuditLost(q)
        PROVE  Aside(q) /\ row'.ver > 0 /\ Stamped(q)' /\ Reverts(q)'
    BY <1>0, <1>4,
       PutAside, DeleteAside, ToggleAside, RevertAside, RestoreAside,
       DeleteCreatedAside, ReadAfterAside, LogAuditAside, AuditLostAside,
       PutOwn, DeleteOwn, ToggleOwn, RevertOwn, RestoreOwn,
       DeleteCreatedOwn, ReadAfterOwn, LogAuditOwn, AuditLostOwn
  <1>5. CASE Next
    BY <1>2, <1>3, <1>4, <1>5 DEF Next
  <1> QED BY <1>1, <1>5

\* "Refuse when the transaction moved on past this entry's 'after' image": a
\* revert that has the row locked replaces what the entry's own request wrote,
\* provided that the entry's after-image is its request's (undoAuditEntry).
THEOREM RevertsSpare == Spec => RevertSparesLaterEdits
  <1> DEFINE Replacing(r) == /\ wrote'[r] # wrote[r] /\ Op[r] = "undo" /\ Plan(r) = "UPDATE"
                             /\ audit[entry[r]].new.ver = wrote[entry[r]] /\ holder = r
             Ok == \A r \in Reqs : Replacing(r) => row.ver = wrote[entry[r]]
  <1>1. RInv /\ [Next]_vars => [Ok]_vars
    <2> SUFFICES ASSUME RInv, Next, NEW r \in Reqs, Replacing(r) PROVE row.ver = wrote[entry[r]]
      OBVIOUS
    <2>0. Inv /\ Reverts(r) /\ \A q \in Reqs : Stamped(q)
      BY DEF RInv, KInv
    <2>1. pc[r] = "checked"
      <3>1. \A q \in Reqs : \/ Load(q) \/ LoadEntry(q) \/ ClaimUndo(q) \/ AlreadyUndone(q)
                            \/ Aim(q) \/ Lock(q) \/ LockNothing(q) \/ Check(q) \/ Rollback(q)
                            \/ ReadAfter(q) \/ LogAudit(q) \/ AuditLost(q)
                           => wrote' = wrote
        BY DEF Load, LoadEntry, ClaimUndo, AlreadyUndone, Aim, Lock, LockNothing, Check,
               Rollback, ReadAfter, LogAudit, AuditLost, book
      <3>2. \A q \in Reqs : Put(q) \/ Delete(q) \/ Toggle(q) => q # r /\ wrote'[r] = wrote[r]
        BY <2>0 DEF Put, Delete, Toggle, Commit, Inv, TypeOK
      <3>3. \A q \in Reqs : Revert(q) \/ Restore(q) \/ DeleteCreated(q) =>
                             pc[q] = "checked" /\ (q # r => wrote'[r] = wrote[r])
        BY <2>0 DEF Revert, Restore, DeleteCreated, Commit, Inv, TypeOK
      <3> QED BY <3>1, <3>2, <3>3 DEF Next
    <2>2. entry[r] \in Reqs /\ audit[entry[r]].action = "UPDATE"
      BY <2>0, <2>1, AuditUndoAssumption DEF Plan, Inv, TypeOK, EntriesAppended
    <2>3. wrote[entry[r]] > 0
      BY <2>0, <2>2 DEF Stamped
    <2>4. audit[entry[r]].new # None
      BY <2>3 DEF None
    <2>5. row.live /\ Image = audit[entry[r]].new
      BY <2>0, <2>1, <2>4 DEF Reverts
    <2>6. Image.ver = row.ver
      BY <2>5 DEF Image
    <2> QED BY <2>5, <2>6
  <1> QED BY <1>1, Initially, TokensInitially, RevertsInitially, RevertsKept, PTL
          DEF Spec, RevertSparesLaterEdits, RInv, KInv
=================================================================================
