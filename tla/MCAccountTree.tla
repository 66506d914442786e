----------------------------- MODULE MCAccountTree -----------------------------
(***************************************************************************)
(* Instances of AccountTree for TLC.  A run explores several scenarios:    *)
(* each has a tree to begin with, the requests that may be made, and a     *)
(* database with or without the foreign key on parent_guid.                *)
(***************************************************************************)
EXTENDS AccountTree, TLC

CONSTANTS R, A, B, c1, c2, c3, c4, c5, q1, q2, q3, n1, n2, n3

VARIABLE scenario  \* which never changes

Leaf(g, p, n) == g :> [live |-> TRUE, name |-> n, parent |-> p]
Free(g) == g :> [live |-> FALSE, name |-> n1, parent |-> NoParent]

News == Free(c1) @@ Free(c2) @@ Free(c3) @@ Free(c4) @@ Free(c5)
Bare == Leaf(R, NoParent, n1) @@ Leaf(A, R, n1) @@ Free(B) @@ News
Nested == Leaf(B, A, n2) @@ Bare
Flat == Leaf(B, R, n2) @@ Bare

\* B is new to q3 where the tree is bare; nothing else inserts two nodes.
Fresh2 == q1 :> <<c1, c2>> @@ q2 :> <<c3, c4>> @@ q3 :> <<c5, B>>

Ask0(k, a, p, n) == [kind |-> k, acct |-> a, parent |-> p, name |-> n, keys |-> <<>>,
                     promotes |-> {}]
Update(a, p, n) == Ask0("update", a, p, n)
Move(a, p) == Ask0("move", a, p, Same)
Remove(a) == Ask0("delete", a, Same, Same)
Node(p, n, l) == [parent |-> p, name |-> n, leaf |-> l]
Create(p, n) == [Ask0("create", R, Same, Same) EXCEPT !.keys = <<Node(p, n, TRUE)>>]
Graft(ks, ps) == [Ask0("graft", R, Same, Same) EXCEPT !.keys = ks, !.promotes = ps]

\* Renames, moves, creations and a deletion that meet in a name or in a cycle.
Edits == {Update(A, Same, n2), Update(B, R, n1), Update(B, Same, n1), Move(A, B), Move(B, R),
          Move(B, A), Create(R, n2), Create(A, n1), Remove(B)}

\* Templates of one and two nodes, one of which has an existing account promoted.
Grafts == {Graft(<<Node(A, n1, TRUE), Node(R, n2, FALSE)>>, {A}), Graft(<<Node(R, n2, FALSE)>>, {}),
           Graft(<<Node(R, n2, TRUE), Node(R, n3, TRUE)>>, {A}),
           Create(R, n2), Create(R, n3), Create(A, n1), Update(A, Same, n2), Remove(A)}

\* Two opposite moves and one back, none to the top.
Opposite == {Move(A, B), Move(B, A), Update(A, R, Same), Move(B, R)}

\* A template of which two nodes are missing, one below an account that is renamed
\* meanwhile to the other's name.
GraftUnder == {Graft(<<Node(A, n1, TRUE), Node(B, n2, TRUE)>>, {}), Update(B, Same, n1)}

\* Two opposite moves while one of the accounts is moved to the top.
Detach == {Move(A, B), Move(B, A), Move(B, NoParent)}

Requested == Edits \cup Grafts \cup Opposite \cup GraftUnder \cup Detach

Scenarios == {[tree |-> Nested, ops |-> Edits, key |-> TRUE],
              [tree |-> Bare, ops |-> Grafts, key |-> FALSE],
              [tree |-> Flat, ops |-> Opposite, key |-> FALSE]}

\* The module's Init, with the scenario's tree.
Start(tree) ==
    /\ acct = tree
    /\ book = [g \in Guids |-> NoReq] /\ row = [g \in Guids |-> NoReq]
    /\ name = [k \in Guids \X Names |-> NoReq]
    /\ share = [g \in Guids |-> {}]
    /\ pc = [q \in Reqs |-> "ask"] /\ op = [q \in Reqs |-> None]
    /\ top = [q \in Reqs |-> Root] /\ cur = [q \in Reqs |-> InitTree[Root]]
    /\ todo = [q \in Reqs |-> {}] /\ at = [q \in Reqs |-> 0]
    /\ made = [q \in Reqs |-> {}] /\ try = [q \in Reqs |-> 1]

Keyless == INSTANCE AccountTree WITH ForeignKey <- FALSE

ScenarioInit == scenario \in Scenarios /\ Start(scenario.tree)
ScenarioNext == /\ UNCHANGED scenario
                /\ \/ scenario.key /\ Next
                   \/ ~scenario.key /\ Keyless!Next
                /\ \A q \in Reqs : op'[q] \in scenario.ops \cup {None}
ScenarioSpec == ScenarioInit /\ [][ScenarioNext]_<<vars, scenario>>

WaitsSpec == /\ scenario = [tree |-> Nested, ops |-> GraftUnder, key |-> TRUE]
             /\ Start(Nested)
             /\ [][ScenarioNext]_<<vars, scenario>>

DetachSpec == /\ scenario = [tree |-> Flat, ops |-> Detach, key |-> FALSE]
              /\ Start(Flat)
              /\ [][ScenarioNext]_<<vars, scenario>>
================================================================================
