-------------------------------- MODULE AuditUndo --------------------------------
(***************************************************************************)
(* The audit trail of ONE transaction and its undo: saves, deletes and     *)
(* reconcile toggles of the transaction, the audit entries that saves and  *)
(* deletes append after they commit, and requests that undo an entry.      *)
(*                                                                         *)
(* Steps are SQL statements and transaction boundaries, as in Ledger.  Two *)
(* things differ.  An undo writes a snapshot back under the transaction's  *)
(* own guid, so the row has incarnations: a SELECT ... FOR UPDATE that     *)
(* waited for an incarnation that is gone returns no row, although the     *)
(* guid exists again.  And a snapshot carries its old version token back,  *)
(* so fresh tokens are drawn from a clock.                                 *)
(***************************************************************************)
EXTENDS Naturals

CONSTANTS
    Reqs,     \* the requests, and the one that created the transaction
    Op,       \* Op[r]: the handler r calls
    NoReq,    \* null
    Bodies,   \* contents: description, date, splits
    Body0     \* ... as created

Ops == {"create", "put", "delete", "toggle", "undo"}

ASSUME AuditUndoAssumption ==
    /\ Op \in [Reqs -> Ops]
    /\ NoReq \notin Reqs
    /\ Body0 \in Bodies

VARIABLES
    row,      \* the transaction: present or not, its incarnation, version
              \* token, content, and whether a split of it is reconciled
    holder,   \* the request that holds the present incarnation FOR UPDATE
    clock,    \* the last version token handed out
    audit,    \* audit[r]: the entry r appended
    claim,    \* claim[e]: the undo whose transaction has stamped e's undone_at
    pc,       \* where each request is
    entry,    \* entry[r]: whose entry r undoes
    target,   \* the incarnation r's FOR UPDATE saw when it began, 0 for none
    seen,     \* what r's client loaded
    before,   \* before-image, read in r's database transaction
    after,    \* after-image, read once it has committed
    wrote     \* the version r committed, 0 for none (history)

vars == <<row, holder, clock, audit, claim, pc, entry, target, seen, before, after, wrote>>
book == <<row, clock, wrote>>

Snap == [ver : Nat, body : Bodies, rec : BOOLEAN]
None == [ver |-> 0, body |-> Body0, rec |-> FALSE]   \* no snapshot: versions start at 1
Row == [live : BOOLEAN, inc : Nat, ver : Nat, body : Bodies, rec : BOOLEAN]
Entry == [action : {"none", "CREATE", "UPDATE", "DELETE"}, old : Snap, new : Snap,
          undone : BOOLEAN]
NoEntry == [action |-> "none", old |-> None, new |-> None, undone |-> FALSE]

Pcs == {"idle", "loaded", "claimed", "waiting", "locked", "unlocked", "checked",
        "committed", "imaged", "done"}

Image == IF row.live THEN [ver |-> row.ver, body |-> row.body, rec |-> row.rec] ELSE None

TypeOK ==
    /\ row \in Row
    /\ holder \in Reqs \cup {NoReq}
    /\ clock \in Nat
    /\ audit \in [Reqs -> Entry]
    /\ claim \in [Reqs -> Reqs \cup {NoReq}]
    /\ pc \in [Reqs -> Pcs]
    /\ entry \in [Reqs -> Reqs \cup {NoReq}]
    /\ target \in [Reqs -> Nat]
    /\ seen \in [Reqs -> Snap]
    /\ before \in [Reqs -> Snap]
    /\ after \in [Reqs -> Snap]
    /\ wrote \in [Reqs -> Nat]
    /\ holder # NoReq => row.live /\ pc[holder] \in {"locked", "checked"}
    /\ row.ver <= clock

\* The transaction has just been created, by a request that logged it.
Init ==
    /\ row = [live |-> TRUE, inc |-> 1, ver |-> 1, body |-> Body0, rec |-> FALSE]
    /\ holder = NoReq
    /\ clock = 1
    /\ audit = [r \in Reqs |-> IF Op[r] = "create"
                               THEN [action |-> "CREATE", old |-> None,
                                     new |-> [ver |-> 1, body |-> Body0, rec |-> FALSE],
                                     undone |-> FALSE]
                               ELSE NoEntry]
    /\ claim = [r \in Reqs |-> NoReq]
    /\ pc = [r \in Reqs |-> IF Op[r] = "create" THEN "done" ELSE "idle"]
    /\ entry = [r \in Reqs |-> NoReq]
    /\ target = [r \in Reqs |-> 0]
    /\ seen = [r \in Reqs |-> None]
    /\ before = [r \in Reqs |-> None]
    /\ after = [r \in Reqs |-> None]
    /\ wrote = [r \in Reqs |-> IF Op[r] = "create" THEN 1 ELSE 0]

---------------------------------------------------------------------------------
(* Before the database transaction. *)

\* A client loads what it will save, delete or toggle.
Load(r) ==
    /\ pc[r] = "idle" /\ Op[r] \in {"put", "delete", "toggle"} /\ row.live
    /\ seen' = [seen EXCEPT ![r] = IF Op[r] = "toggle" THEN None ELSE Image]
    /\ pc' = [pc EXCEPT ![r] = "loaded"]
    /\ UNCHANGED <<book, holder, audit, claim, entry, target, before, after>>

\* The entry to undo is read, and probed: not undone yet, and what it is about
\* is there.
LoadEntry(r) ==
    /\ pc[r] = "idle" /\ Op[r] = "undo"
    /\ \E e \in Reqs :
         /\ audit[e].action # "none" /\ ~audit[e].undone
         /\ audit[e].action # "DELETE" => row.live
         /\ entry' = [entry EXCEPT ![r] = e]
    /\ pc' = [pc EXCEPT ![r] = "loaded"]
    /\ UNCHANGED <<book, holder, audit, claim, target, seen, before, after>>

\* buildUndoPlan.
Plan(r) == IF entry[r] = NoReq THEN "none" ELSE audit[entry[r]].action

---------------------------------------------------------------------------------
(* The database transaction. *)

\* COMMIT or ROLLBACK.
Release(r, p) ==
    /\ holder' = IF holder = r THEN NoReq ELSE holder
    /\ claim' = [e \in Reqs |-> IF claim[e] = r THEN NoReq ELSE claim[e]]
    /\ pc' = [pc EXCEPT ![r] = p]
    /\ target' = [target EXCEPT ![r] = 0]
    /\ seen' = [seen EXCEPT ![r] = None]

\* A check fails, a statement fails, the transaction times out.
Rollback(r) ==
    /\ pc[r] \in {"claimed", "waiting", "locked", "unlocked", "checked"}
    /\ Release(r, "done")
    /\ before' = [before EXCEPT ![r] = None]
    /\ UNCHANGED <<book, audit, entry, after>>

\* Mutant: the claim does not ask whether the entry is undone.
ClaimUndoAgain(r) ==
    /\ pc[r] = "loaded" /\ Op[r] = "undo"
    /\ claim[entry[r]] = NoReq
    /\ claim' = [claim EXCEPT ![entry[r]] = r]
    /\ pc' = [pc EXCEPT ![r] = "claimed"]
    /\ UNCHANGED <<book, holder, audit, entry, target, seen, before, after>>

\* UPDATE ... SET undone_at ... WHERE undone_at IS NULL, waiting for another
\* undo of the same entry.
ClaimUndo(r) ==
    /\ pc[r] = "loaded" /\ Op[r] = "undo"
    /\ claim[entry[r]] = NoReq /\ ~audit[entry[r]].undone
    /\ claim' = [claim EXCEPT ![entry[r]] = r]
    /\ pc' = [pc EXCEPT ![r] = "claimed"]
    /\ UNCHANGED <<book, holder, audit, entry, target, seen, before, after>>

AlreadyUndone(r) ==
    /\ pc[r] = "loaded" /\ Op[r] = "undo"
    /\ claim[entry[r]] = NoReq /\ audit[entry[r]].undone
    /\ Release(r, "done")
    /\ before' = [before EXCEPT ![r] = None]
    /\ UNCHANGED <<book, audit, entry, after>>

\* SELECT ... FOR UPDATE begins: its snapshot shows this incarnation.
Aim(r) ==
    /\ \/ pc[r] = "loaded" /\ Op[r] # "undo"
       \/ pc[r] = "claimed" /\ Plan(r) # "DELETE"
    /\ target' = [target EXCEPT ![r] = IF row.live THEN row.inc ELSE 0]
    /\ pc' = [pc EXCEPT ![r] = "waiting"]
    /\ UNCHANGED <<book, holder, audit, claim, entry, seen, before, after>>

Found(r) == row.live /\ row.inc = target[r]

\* ... and returns the row, locked, ...
Lock(r) ==
    /\ pc[r] = "waiting" /\ Found(r) /\ holder = NoReq
    /\ holder' = r
    /\ pc' = [pc EXCEPT ![r] = "locked"]
    /\ UNCHANGED <<book, audit, claim, entry, target, seen, before, after>>

\* ... or no row.  A save or a delete then answers 404; lockTransactionsForUpdate
\* and the toggle's own SELECT do not look at what came back.
LockNothing(r) ==
    /\ pc[r] = "waiting" /\ ~Found(r) /\ Op[r] \notin {"put", "delete"}
    /\ pc' = [pc EXCEPT ![r] = "unlocked"]
    /\ UNCHANGED <<book, holder, audit, claim, entry, target, seen, before, after>>

Past(r) == pc[r] \in {"locked", "unlocked"}

\* Mutants: no token; no after-image.
CanSaveBlind(r) == row.live /\ ~row.rec
CanRevertAnything(r) == row.live /\ ~row.rec

\* PUT and DELETE on the locked row.
CanSave(r) == row.live /\ row.ver = seen[r].ver /\ ~row.rec

\* revert_update: the live state, read in the transaction, is the entry's
\* after-image (when it has one), and no split is protected.
CanRevert(r) ==
    LET e == audit[entry[r]]
    IN  row.live /\ (e.new # None => Image = e.new) /\ ~row.rec

\* delete_created; restore_deleted.
CanDelete(r) == row.live /\ ~row.rec
CanRestore(r) == ~row.live

Check(r) ==
    /\ \/ Op[r] \in {"put", "delete"} /\ pc[r] = "locked" /\ CanSave(r)
       \/ /\ Op[r] = "undo"
          /\ \/ Plan(r) = "UPDATE" /\ Past(r) /\ CanRevert(r)
             \/ Plan(r) = "CREATE" /\ Past(r) /\ CanDelete(r)
             \/ Plan(r) = "DELETE" /\ pc[r] = "claimed" /\ CanRestore(r)
    /\ before' = [before EXCEPT ![r] = Image]
    /\ pc' = [pc EXCEPT ![r] = "checked"]
    /\ UNCHANGED <<book, holder, audit, claim, entry, target, seen, after>>

\* A write waits for the row lock of whoever holds the present incarnation.
MayWrite(r) == holder \in {NoReq, r}

Commit(r, v, p) ==
    /\ row' = v
    /\ wrote' = [wrote EXCEPT ![r] = v.ver]
    /\ Release(r, p)
    /\ UNCHANGED <<entry>>

Fresh == clock + 1

Put(r) ==
    /\ pc[r] = "checked" /\ Op[r] = "put" /\ MayWrite(r)
    /\ \E b \in Bodies, c \in BOOLEAN :
         Commit(r, [live |-> TRUE, inc |-> row.inc, ver |-> Fresh, body |-> b, rec |-> c],
                "committed")
    /\ clock' = Fresh
    /\ UNCHANGED <<audit, before, after>>

Gone == [live |-> FALSE, inc |-> row.inc, ver |-> row.ver, body |-> row.body,
         rec |-> row.rec]

\* A delete's entry has no after-image.
Delete(r) ==
    /\ pc[r] = "checked" /\ Op[r] = "delete" /\ MayWrite(r)
    /\ Commit(r, Gone, "imaged")
    /\ UNCHANGED <<clock, audit, before, after>>

\* The split's reconcile state, and enter_date.  No audit entry.
Toggle(r) ==
    /\ Past(r) /\ Op[r] = "toggle" /\ row.live /\ MayWrite(r)
    /\ \E c \in BOOLEAN : Commit(r, [live |-> TRUE, inc |-> row.inc, ver |-> Fresh, body |-> row.body,
                    rec |-> c], "done")
    /\ clock' = Fresh
    /\ UNCHANGED <<audit, before, after>>

\* writeSnapshot: the rows go, if they are there, and the snapshot's are
\* inserted, old enter_date included.
Restored(s) == [live |-> TRUE, inc |-> row.inc + 1, ver |-> s.ver, body |-> s.body,
                rec |-> s.rec]

Undone(r) == audit' = [audit EXCEPT ![entry[r]].undone = TRUE]

Revert(r) ==
    /\ pc[r] = "checked" /\ Op[r] = "undo" /\ Plan(r) = "UPDATE" /\ MayWrite(r)
    /\ Commit(r, Restored(audit[entry[r]].old), "imaged")
    /\ after' = [after EXCEPT ![r] = audit[entry[r]].old]
    /\ Undone(r)
    /\ UNCHANGED <<clock, before>>

\* The insert fails if the guid exists.
Restore(r) ==
    /\ pc[r] = "checked" /\ Op[r] = "undo" /\ Plan(r) = "DELETE" /\ ~row.live
    /\ Commit(r, Restored(audit[entry[r]].old), "imaged")
    /\ after' = [after EXCEPT ![r] = audit[entry[r]].old]
    /\ Undone(r)
    /\ UNCHANGED <<clock, before>>

\* transactions.delete fails if there is no row.
DeleteCreated(r) ==
    /\ pc[r] = "checked" /\ Op[r] = "undo" /\ Plan(r) = "CREATE" /\ MayWrite(r)
    /\ row.live
    /\ Commit(r, Gone, "imaged")
    /\ Undone(r)
    /\ UNCHANGED <<clock, before, after>>

---------------------------------------------------------------------------------
(* After the commit: the audit entry. *)

\* A save's after-image is read outside its transaction.
ReadAfter(r) ==
    /\ pc[r] = "committed"
    /\ after' = [after EXCEPT ![r] = Image]
    /\ pc' = [pc EXCEPT ![r] = "imaged"]
    /\ UNCHANGED <<book, holder, audit, claim, entry, target, seen, before>>

Action(r) ==
    CASE Op[r] = "put" -> "UPDATE"
      [] Op[r] = "delete" -> "DELETE"
      [] Op[r] = "undo" -> [UPDATE |-> "UPDATE", DELETE |-> "CREATE",
                            CREATE |-> "DELETE"][Plan(r)]

LogAudit(r) ==
    /\ pc[r] = "imaged"
    /\ audit' = [audit EXCEPT ![r] =
                   [action |-> Action(r),
                    old |-> IF Action(r) = "CREATE" THEN None ELSE before[r],
                    new |-> after[r], undone |-> FALSE]]
    /\ pc' = [pc EXCEPT ![r] = "done"]
    /\ before' = [before EXCEPT ![r] = None]
    /\ after' = [after EXCEPT ![r] = None]
    /\ UNCHANGED <<book, holder, claim, entry, target, seen>>

\* logAudit swallows its errors, and the process may die.
AuditLost(r) ==
    /\ pc[r] \in {"committed", "imaged"}
    /\ pc' = [pc EXCEPT ![r] = "done"]
    /\ before' = [before EXCEPT ![r] = None]
    /\ after' = [after EXCEPT ![r] = None]
    /\ UNCHANGED <<book, holder, audit, claim, entry, target, seen>>

Next == \E r \in Reqs :
    \/ Load(r) \/ LoadEntry(r) \/ ClaimUndo(r) \/ AlreadyUndone(r)
    \/ Aim(r) \/ Lock(r) \/ LockNothing(r) \/ Check(r) \/ Rollback(r)
    \/ Put(r) \/ Delete(r) \/ Toggle(r)
    \/ Revert(r) \/ Restore(r) \/ DeleteCreated(r)
    \/ ReadAfter(r) \/ LogAudit(r) \/ AuditLost(r)

Spec == Init /\ [][Next]_vars

---------------------------------------------------------------------------------
(* Properties. *)

\* An entry is undone by at most one request, however many race for it
\* (claimUndo, the first write of the undo's transaction).
UndoneOnce ==
    \A r, q \in Reqs :
      r # q /\ Op[r] = "undo" /\ Op[q] = "undo" /\ wrote[r] # 0 /\ wrote[q] # 0
        => entry[r] # entry[q]

\* A version token names one content for ever, though undo brings old tokens
\* back: among the row, the audit trail's images and what clients loaded, equal
\* tokens mean equal contents -- which is why a client may save over a
\* transaction that was edited and reverted since it loaded it.
Images == {Image} \cup {seen[r] : r \in Reqs} \cup {before[r] : r \in Reqs}
          \cup {after[r] : r \in Reqs}
          \cup {audit[r].old : r \in Reqs} \cup {audit[r].new : r \in Reqs}
TokenNamesContent == \A a, b \in Images : a.ver = b.ver => a = b

\* A save or a delete replaces exactly what its client loaded.
Replaces(r) == wrote'[r] # wrote[r] /\ Op[r] \in {"put", "delete"}
NoLostUpdate == [][\A r \in Reqs : Replaces(r) => Image = seen[r]]_vars

\* "Refuse when the transaction moved on past this entry's 'after' image --
\* reverting would silently discard those later edits" (undoAuditEntry): what a
\* revert replaces is what the entry's own request wrote, provided that the
\* request's image is its own (ReadAfter comes after its commit) and that the
\* revert has the row locked.
RevertSparesLaterEdits ==
    [][\A r \in Reqs : /\ wrote'[r] # wrote[r] /\ Op[r] = "undo" /\ Plan(r) = "UPDATE"
                       /\ audit[entry[r]].new.ver = wrote[entry[r]] /\ holder = r
         => row.ver = wrote[entry[r]]]_vars
=================================================================================
