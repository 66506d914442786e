-------------------------- MODULE MCSimpleFinSync --------------------------
(***************************************************************************)
(* A small book for SimpleFinSync: two bank accounts and an expense        *)
(* account.  There are two scenarios: two processes sync one connection,   *)
(* or each of two connections that show the same rows.                     *)
(***************************************************************************)
EXTENDS SimpleFinSync, TLC

CONSTANTS chk, sav, food, c1, c2, r1, r2, r3, f1, f2, f3, t1, t2, t3, t4

VARIABLE scenario  \* which never changes

\* A transfer of 5 seen from both accounts, and a purchase.
TransferAccounts == [f \in Feeds |-> IF f = f2 THEN sav ELSE chk]
TransferAmounts == [f \in Feeds |-> IF f = f1 THEN -5 ELSE IF f = f2 THEN 5 ELSE -7]
Sometime == [f \in Feeds |-> 1]
Everywhere == [f \in Feeds |-> Conns]
ConnOfRuns == [r \in Runs |-> IF r = r3 THEN c2 ELSE c1]
AllMapped == [c \in Conns |-> {chk, sav}]

\* A transfer that the user entered and reviewed.
Legs == chk :> -5 @@ sav :> 5 @@ food :> 0
Reviewed == t1 :> [day |-> 1, legs |-> Legs, meta |-> TRUE]

OneConnection == [conns |-> {c1}, runs |-> {r1, r2}, feeds |-> {f1, f2, f3}, txns |-> {t1, t2, t3, t4},
                  budget |-> [failures |-> 1, deaths |-> 1, edits |-> 2], locks |-> {0}]
TwoConnections == [conns |-> {c1, c2}, runs |-> {r1, r3}, feeds |-> {f1, f2}, txns |-> {t1, t2, t3},
                   budget |-> [failures |-> 0, deaths |-> 1, edits |-> 1], locks |-> {0, 1}]

\* The module's Init, with one connection and the scenario's budget.
ScenarioInit ==
    /\ scenario \in {OneConnection, TwoConnections}
    /\ ledger = [t \in Txns |->
         IF t \in DOMAIN Entered
         THEN [status |-> "live", day |-> Entered[t].day, legs |-> Entered[t].legs]
         ELSE [status |-> "free", day |-> 0, legs |-> Flat]]
    /\ meta = [t \in Txns |-> [NoMeta EXCEPT !.there = t \in DOMAIN Entered /\ Entered[t].meta]]
    /\ kept = {}
    /\ cursor = [c \in Conns |-> [a \in Accounts |-> Never]]
    /\ lock = [c \in Conns |-> NoRun]
    /\ run = [r \in Runs |-> Off]
    /\ lockDate = 0 /\ now = 0 /\ shown = {}
    /\ conns = {c1}
    /\ budget = scenario.budget

ScenarioNext == /\ Next /\ UNCHANGED scenario
                /\ \A r \in Runs \ scenario.runs : run'[r] = Off
                /\ conns' \subseteq scenario.conns
                /\ shown' \subseteq scenario.feeds
                /\ lockDate' \in scenario.locks
                /\ \A t \in Txns \ scenario.txns : ledger'[t].status = "free"
ScenarioSpec == ScenarioInit /\ [][ScenarioNext]_<<vars, scenario>>
=============================================================================
