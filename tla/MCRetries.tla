------------------------------- MODULE MCRetries -------------------------------
(***************************************************************************)
(* The instances of WebhookIdempotency and QuickAddQueue for TLC: what is  *)
(* sent again when an answer was lost.  A run explores two scenarios, in   *)
(* each of which the variables of the other module stand still.            *)
(***************************************************************************)
EXTENDS WebhookIdempotency, QuickAddQueue, TLC

VARIABLE scenario  \* which never changes

all == <<vars, queueVars, scenario>>

Deliver(A) == scenario = "webhook" /\ A /\ UNCHANGED <<scenario, queueVars>>
Enter(A) == scenario = "quick add" /\ A /\ UNCHANGED <<scenario, vars>>

RetriesInit == scenario \in {"webhook", "quick add"} /\ Init /\ QueueInit
RetriesNext == Deliver(Next) \/ Enter(QueueNext)

\* The fairness of each module.
RetriesFairness ==
    /\ \A w \in Workers : WF_all(Deliver(pc[w] # "idle" /\ (Step(w) \/ Crash(w))))
    /\ WF_all(Deliver(ClaimGoesStale))
    /\ \A t \in Pages : /\ WF_all(Enter(Sync(t))) /\ LeftOpen(t)
                        /\ SF_all(Enter(Taken(t))) /\ SF_all(Enter(TagsTaken(t)))
    /\ \A i \in Items : WF_all(Enter(Save(i))) /\ WF_all(Enter(RetryPut(i)))

RetriesSpec == RetriesInit /\ [][RetriesNext]_all /\ RetriesFairness
================================================================================
