--------------------------------- MODULE MCLedger --------------------------------
(***************************************************************************)
(* Instances of Ledger for TLC: who calls what, and the book at the start. *)
(* A run explores several scenarios, one after another: in each, some of   *)
(* the requests are made, and the others are never heard of ("done").      *)
(***************************************************************************)
EXTENDS Ledger, TLC

CONSTANTS p1, m1, t1, t2, d1, c1, e1, e2, b1, b2, f1, f2, A, B, x, y

\* Transaction 1 has two splits, in two accounts; the others have one; the
\* third and the fourth are yet to be created.
Owners == [s \in Splits |-> CASE s \in {1, 2} -> 1 [] OTHER -> s - 1]
Book == [t \in Txns |-> [status |-> IF t \in {1, 2} THEN "live" ELSE "unborn",
                         date |-> IF t = 2 /\ 2 \in Dates THEN 2 ELSE 1,
                         desc |-> x, ver |-> 0]]
Entries == [s \in Splits |-> [live |-> s \in {1, 2, 3}, acct |-> IF s = 2 THEN B ELSE A,
                              amt |-> IF s \in {1, 2, 3} THEN 1 ELSE 0, state |-> "n"]]

\* A find and replace that turns x into y.
ReplaceXY == [d \in Descs |-> IF d = x /\ y \in Descs THEN y ELSE d]

Calls == p1 :> "put" @@ m1 :> "move" @@ t1 :> "toggle" @@ d1 :> "delete"
         @@ c1 :> "create" @@ e1 :> "setLock" @@ e2 :> "setLock"
         @@ b1 :> "replace" @@ b2 :> "recategorize" @@ t2 :> "toggleMany"
         @@ f1 :> "finalize" @@ f2 :> "finalize"
Made == [r \in Reqs |-> Calls[r]]

\* The module's Init, but for the requests never made, for the splits of the
\* second transaction, which may be reconciled.
Start(requests, entries) ==
    /\ tx = InitTx
    /\ split = entries
    /\ rowLock = [t \in Txns |-> NoReq]
    /\ advLock = [a \in Accounts |-> NoReq]
    /\ lockDate = 0
    /\ pc = [r \in Reqs |-> IF r \in requests THEN "idle" ELSE "done"]
    /\ todo = [r \in Reqs |-> {}]
    /\ arg = [r \in Reqs |-> NoArg]
    /\ seen = [r \in Reqs |-> NoView]
    /\ sums = [r \in Reqs |-> NoSums]
    /\ floor = [r \in Reqs |-> 0]

Reconciled == [Entries EXCEPT ![3].state = "y"]

\* A save, a split move, a toggle and a delete race over a book with a
\* reconciled split; or the lock date is set, and set again, under two of a
\* save, a create and a move; or three of four bulk requests run at once; or a
\* finalize runs beside another, a move or a bulk recategorize.
EditsInit == \/ \E r \in {p1, m1, t1, d1} : Start({p1, m1, t1, d1} \ {r}, Reconciled)
             \/ \E r \in {p1, c1, m1} : Start({e1, e2, p1, c1, m1} \ {r}, Entries)
             \/ \E r \in {m1, t2, b1, b2} : Start({m1, t2, b1, b2} \ {r}, Entries)
             \/ \E q \in {f2, m1, b2} : Start({f1, q}, Entries)
\* Next, of the requests that are made.
EditsNext == \E r \in {q \in Reqs : pc[q] # "done"} : Handle(r)
EditsSpec == EditsInit /\ [][EditsNext]_vars

ToggleSpec == Start({f1, t1}, Entries) /\ [][Next]_vars
=================================================================================
