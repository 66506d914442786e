------------------------------ MODULE MCStatements ------------------------------
(***************************************************************************)
(* The instances of StatementIngest and StatementFinalize for TLC.  A run  *)
(* explores three scenarios: one statement's extractions, a statement that *)
(* is finalized twice beside an edit, and one that is opened again by an   *)
(* assignment.  What is not of the scenario stands still.                  *)
(***************************************************************************)
EXTENDS StatementIngest, StatementFinalize, TLC

CONSTANTS c1, c2, c3

VARIABLE scenario  \* 0, or the statement that is finalized; it never changes

all == <<vars, finalizeVars, scenario>>

\* Two lists and a re-parse.
ListsAndReparse == c1 :> "list" @@ c2 :> "list" @@ c3 :> "reparse"

\* Statement 1 has two lines of 1 and one of 2, and states its opening balance and
\* the date it ends; two finalizes, a decision and an edit.  Statement 2 has two
\* lines of 1, the second dated after its end, where a split at 3 would fit it and is
\* not offered, and states no opening balance; an assignment of its account beside
\* two finalizes, a decision and an edit.
StatementOf == <<1, 1, 1, 2, 2>>
AmountOf == <<1, 1, 2, 1, 1>>
DateOf == <<1, 2, 2, 1, 2>>
StartDateOf == <<Unstated, 1>>
EndDateOf == <<2, 1>>
OpeningOf == <<0, Derived>>
ClosingOf == <<4, 2>>
KindOf == <<"finalize", "finalize", "decide", "edit",
            "finalize", "finalize", "decide", "edit", "assign">>
TargetOf == <<1, 1, 1, 1, 2, 2, 2, 2, 2>>

\* Statement 1 has three splits to match, statement 2 two of them; one may be
\* reconciled already.
InUse(S) == \A s \in Splits :
    IF s \in S THEN split[s].live /\ (s # 1 => split[s].state = "n")
    ELSE split[s] = [live |-> FALSE, state |-> "n", amount |-> 1, date |-> 1]

StatementsInit ==
    /\ Init /\ FinalizeInit
    /\ \/ scenario = 0 /\ InUse({})
       \/ scenario = 1 /\ InUse({1, 2, 3})
       \/ scenario = 2 /\ InUse({1, 2})

StatementsNext ==
    /\ UNCHANGED scenario
    /\ \/ scenario = 0 /\ Next /\ UNCHANGED finalizeVars
       \/ /\ \E q \in {r \in Reqs : Target[r] = scenario} : Handle(q)
          /\ UNCHANGED vars

StatementsSpec == StatementsInit /\ [][StatementsNext]_all

Symmetry == Permutations(Runs)
=================================================================================
