------------------------------- MODULE MCAuditUndo -------------------------------
(* The instance of AuditUndo for TLC: which requests there are. *)
EXTENDS AuditUndo, TLC

CONSTANTS c, r1, r2, r3, r4, r5, r6

OpM == c :> "create" @@ r1 :> "put" @@ r2 :> "delete" @@ r3 :> "undo" @@ r4 :> "undo"
       @@ r5 :> "toggle" @@ r6 :> "delete"

\* Requests that call the same handler are interchangeable.
Same == Permutations({r2, r6}) \cup Permutations({r3, r4})
=================================================================================
