------------------------------- MODULE AtMostOnce -------------------------------
(***************************************************************************)
(* What an inbound webhook promises about one idempotency key, whatever    *)
(* the retries, crashes and operator re-arms: at most one ledger entry is  *)
(* ever posted under the key, and an HTTP success names that entry.        *)
(***************************************************************************)
CONSTANTS Requests,  \* those that carry the key; an entry is named by the
                     \* request that posted it
          NoEntry

VARIABLES posted,    \* the ledger entries posted under the key
          told       \* told[w]: the entry that w's success reply names

vars == <<posted, told>>

Init == /\ posted = {}
        /\ told = [w \in Requests |-> NoEntry]

\* The only way an entry appears: there was none.
Post(w) == /\ posted = {}
           /\ posted' = {w}
           /\ UNCHANGED told

\* A success reply: a fresh 201, or a 200 marked "replayed".
Tell(w) == /\ told[w] = NoEntry
           /\ \E e \in posted : told' = [told EXCEPT ![w] = e]
           /\ UNCHANGED posted

Next == \E w \in Requests : Post(w) \/ Tell(w)

Spec == Init /\ [][Next]_vars
=================================================================================
