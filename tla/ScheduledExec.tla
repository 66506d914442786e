------------------------------ MODULE ScheduledExec ------------------------------
(***************************************************************************)
(* One scheduled transaction: recording and skipping its occurrences       *)
(* (scheduled-tx-execute.ts) while it is edited and deleted                *)
(* (scheduled-tx-create.ts).                                               *)
(*                                                                         *)
(* A step is one statement of a PostgreSQL transaction at READ COMMITTED:  *)
(* it sees what was committed before it, waits for the row locks it needs, *)
(* and what the transaction wrote takes effect at its commit.  The rows    *)
(* that matter are the schedxactions row, the template account, and its    *)
(* children, each with its split and its slot.                             *)
(*                                                                         *)
(* Amounts are in thousandths, finer than the cents of what is posted.     *)
(***************************************************************************)
EXTENDS Integers, FiniteSets, Functions

CONSTANTS
    Requests,  \* requests to handlers
    Kind,      \* Kind[r]: "execute", "skip", "update" or "delete"
    Date,      \* Date[r]: the occurrence that r records or skips
    Amounts,   \* Amounts[r]: the split amounts, by leg, of the definition in r
    Imported,  \* split amounts that an imported schedule may have
    Remaining, \* values of rem_occur at first; -1 is no limit
    None       \* no request

Kinds == {"execute", "skip", "update", "delete"}

ASSUME ScheduledAssumption ==
    /\ Kind \in [Requests -> Kinds]
    /\ Date \in [Requests -> Nat \ {0}]
    /\ Remaining \subseteq Nat \cup {-1}
    /\ \A am \in Imported \cup {Amounts[r] : r \in Requests} :
         IsFiniteSet(DOMAIN am) /\ \A l \in DOMAIN am : am[l] \in Int
    /\ None \notin Requests

VARIABLES
    sx,       \* the schedxactions row: last is last_occur, 0 for null; rem
              \* is rem_occur, num what it was at first; count, instance_count
    template, \* the children: whose definition, which leg, which amount
    recorded, \* the transactions posted
    skipped,  \* the occurrences skipped, and by whom
    rowLock,  \* who holds the schedxactions row
    rootLock, \* who holds the template account
    gone,     \* gone[r]: the children r has deleted, and not committed
    seen,     \* seen[r]: the children r has read
    stmt      \* stmt[r]: the last statement r has done

scheduledVars == <<sx, template, recorded, skipped, rowLock, rootLock, gone, seen, stmt>>
booked == <<recorded, skipped>>
locks == <<rowLock, rootLock, gone>>

---------------------------------------------------------------------------------
(* balanceSplitNumerators. *)

Abs(n) == IF n < 0 THEN -n ELSE n

\* Math.round of an amount in cents: halves go up.
Round(a) == (a + 5) \div 10

Rounded(am) == [c \in DOMAIN am |-> Round(am[c])]

\* The splits are not empty, and rounding explains their residual.
Balanceable(am) ==
    /\ DOMAIN am # {}
    /\ Abs(SumFunction(Rounded(am))) <= (Cardinality(DOMAIN am) + 1) \div 2

\* Mutant: every split is rounded by itself.
RoundedOnly(am) == Rounded(am)

\* The largest takes the residual.
BalancedNumerators(am) ==
    LET nums == Rounded(am)
        absorber == CHOOSE c \in DOMAIN am :
                      \A d \in DOMAIN am : Abs(nums[d]) <= Abs(nums[c])
    IN  [nums EXCEPT ![absorber] = @ - SumFunction(nums)]

\* The children of a definition.
Children(def, am) == {[def |-> def, leg |-> l, value |-> am[l]] : l \in DOMAIN am}

\* What createTemplateContents writes for r.
Contents(r) ==
    LET nums == BalancedNumerators(Amounts[r])
    IN  Children(r, [l \in DOMAIN nums |-> 10 * nums[l]])

ScheduledInit ==
    /\ \E n \in Remaining :
         sx = [alive |-> TRUE, last |-> 0, num |-> n, rem |-> n, count |-> 0]
    /\ \E am \in Imported : template = Children(None, am)
    /\ recorded = {} /\ skipped = {}
    /\ rowLock = None /\ rootLock = None
    /\ gone = [r \in Requests |-> {}]
    /\ seen = [r \in Requests |-> {}]
    /\ stmt = [r \in Requests |-> "start"]

---------------------------------------------------------------------------------
Standing(r, s) == stmt[r] = s
GoOn(r, s) == stmt' = [stmt EXCEPT ![r] = s]

\* Commit or rollback: r's locks are free.
Unlock(r) ==
    /\ rowLock' = IF rowLock = r THEN None ELSE rowLock
    /\ rootLock' = IF rootLock = r THEN None ELSE rootLock
    /\ gone' = [gone EXCEPT ![r] = {}]

Refuse(r) == Unlock(r) /\ GoOn(r, "refused") /\ UNCHANGED <<sx, template, booked, seen>>

\* The schedxactions row is free, and r takes it.
TakeRow(r) == rowLock = None /\ rowLock' = r /\ UNCHANGED <<rootLock, gone>>

---------------------------------------------------------------------------------
(* executeOccurrence and skipOccurrence. *)

\* Mutant: nothing is known to have been processed.
NeverProcessed(r) == FALSE

AlreadyProcessed(r) == sx.last # 0 /\ Date[r] <= sx.last

Open(r) == sx.alive /\ ~AlreadyProcessed(r) /\ sx.rem # 0

\* SELECT ... FOR UPDATE, and the checks of what it returns.
LockOccurrence(r) ==
    /\ Standing(r, "start") /\ Kind[r] \in {"execute", "skip"}
    /\ rowLock = None
    /\ IF Open(r)
       THEN TakeRow(r) /\ GoOn(r, "locked") /\ UNCHANGED <<sx, template, booked, seen>>
       ELSE Refuse(r)

\* last_occur and rem_occur; instance_count counts what is posted.
Advance(r, executed) ==
    sx' = [alive |-> sx.alive, last |-> Date[r], num |-> sx.num,
           rem |-> IF sx.rem = -1 THEN -1 ELSE sx.rem - 1, count |-> sx.count + executed]

Skip(r) ==
    /\ Standing(r, "locked") /\ Kind[r] = "skip"
    /\ Advance(r, 0)
    /\ skipped' = skipped \cup {[by |-> r, date |-> Date[r]]}
    /\ Unlock(r) /\ GoOn(r, "done")
    /\ UNCHANGED <<template, recorded, seen>>

\* resolveTemplateSplits: the child accounts, then those of them that have a
\* split and a slot when these are read.
ReadChildren(r) ==
    /\ Standing(r, "locked") /\ Kind[r] = "execute"
    /\ seen' = [seen EXCEPT ![r] = template]
    /\ GoOn(r, "children")
    /\ UNCHANGED <<sx, template, booked, locks>>

ReadSplits(r) ==
    /\ Standing(r, "children")
    /\ seen' = [seen EXCEPT ![r] = @ \cap template]
    /\ GoOn(r, "splits")
    /\ UNCHANGED <<sx, template, booked, locks>>

Post(r) ==
    /\ Standing(r, "splits")
    /\ LET am == [c \in seen[r] |-> c.value]
       IN  IF Balanceable(am)
           THEN /\ recorded' = recorded \cup {[by |-> r, date |-> Date[r],
                                           nums |-> BalancedNumerators(am)]}
                /\ Advance(r, 1)
                /\ Unlock(r) /\ GoOn(r, "done")
                /\ UNCHANGED <<template, skipped, seen>>
           ELSE Refuse(r)

---------------------------------------------------------------------------------
(* updateScheduledTransaction and deleteScheduledTransaction. *)

\* Neither locks the row it reads.
ReadTemplate(r) ==
    /\ Standing(r, "start") /\ Kind[r] \in {"update", "delete"}
    /\ IF sx.alive /\ (Kind[r] = "update" => Balanceable(Amounts[r]))
       THEN /\ seen' = [seen EXCEPT ![r] = template]
            /\ GoOn(r, "read")
            /\ UNCHANGED <<sx, template, booked, locks>>
       ELSE Refuse(r)

\* The children it read that are still there; rows another transaction has
\* deleted are waited for.
DeleteChildren(r) ==
    /\ Standing(r, IF Kind[r] = "update" THEN "read" ELSE "row")
    /\ Kind[r] \in {"update", "delete"}
    /\ \A q \in Requests \ {r} : gone[q] \cap seen[r] = {}
    /\ gone' = [gone EXCEPT ![r] = seen[r] \cap template]
    /\ GoOn(r, "emptied")
    /\ UNCHANGED <<sx, template, booked, rowLock, rootLock, seen>>

RenameRoot(r) ==
    /\ Standing(r, "emptied") /\ Kind[r] = "update"
    /\ rootLock = None
    /\ IF sx.alive
       THEN /\ rootLock' = r /\ GoOn(r, "renamed")
            /\ UNCHANGED <<sx, template, booked, rowLock, gone, seen>>
       ELSE Refuse(r)

\* Mutant: the schedule's own row is not written.
SaveNothing(r) ==
    /\ Standing(r, "renamed")
    /\ GoOn(r, "row")
    /\ UNCHANGED <<sx, template, booked, locks, seen>>

\* UPDATE schedxactions, after the new children are inserted.
SaveRow(r) ==
    /\ Standing(r, "renamed")
    /\ TakeRow(r)
    /\ GoOn(r, "row")
    /\ UNCHANGED <<sx, template, booked, seen>>

CommitUpdate(r) ==
    /\ Standing(r, "row") /\ Kind[r] = "update"
    /\ template' = (template \ gone[r]) \cup Contents(r)
    /\ Unlock(r) /\ GoOn(r, "done")
    /\ UNCHANGED <<sx, booked, seen>>

\* DELETE schedxactions comes first in the other.
DeleteRow(r) ==
    /\ Standing(r, "read") /\ Kind[r] = "delete"
    /\ rowLock = None
    /\ IF sx.alive
       THEN TakeRow(r) /\ GoOn(r, "row") /\ UNCHANGED <<sx, template, booked, seen>>
       ELSE Refuse(r)

CommitDelete(r) ==
    /\ Standing(r, "emptied") /\ Kind[r] = "delete"
    /\ rootLock = None
    /\ sx' = [sx EXCEPT !.alive = FALSE]
    /\ template' = template \ gone[r]
    /\ Unlock(r) /\ GoOn(r, "done")
    /\ UNCHANGED <<booked, seen>>

\* A failed statement, the transaction's timeout, or its being the victim of
\* deadlock detection: an update and a delete take the row and the children in
\* opposite orders.
Abort(r) ==
    /\ stmt[r] \notin {"start", "done", "refused"}
    /\ Refuse(r)

Occurrence(r) == LockOccurrence(r) \/ Skip(r) \/ ReadChildren(r) \/ ReadSplits(r) \/ Post(r)

Edit(r) == \/ ReadTemplate(r) \/ DeleteChildren(r) \/ RenameRoot(r) \/ SaveRow(r)
           \/ CommitUpdate(r) \/ DeleteRow(r) \/ CommitDelete(r)

ScheduledNext == \E r \in Requests : Occurrence(r) \/ Edit(r) \/ Abort(r)

ScheduledSpec == ScheduledInit /\ [][ScheduledNext]_scheduledVars

---------------------------------------------------------------------------------
(* Properties. *)

ScheduledTypeOK ==
    /\ sx \in [alive : BOOLEAN, last : Nat, num : Remaining, rem : Nat \cup {-1}, count : Nat]
    /\ sx.rem = -1 <=> sx.num = -1
    /\ \A c \in template : c.def \in Requests \cup {None}
    /\ \A t \in recorded \cup skipped : t.by \in Requests /\ t.date = Date[t.by]
    /\ rowLock \in Requests \cup {None} /\ rootLock \in Requests \cup {None}
    /\ \A r \in Requests : gone[r] \subseteq template
    /\ stmt \in [Requests -> {"start", "locked", "children", "splits", "read", "emptied",
                            "renamed", "row", "done", "refused"}]

\* "A second Record/Skip must not double-book it": at most one request records
\* or skips an occurrence.
BookedOnce ==
    \A t, u \in recorded \cup skipped : t.date = u.date => t.by = u.by

\* No schedule runs past its number of occurrences: rem_occur and
\* instance_count agree with what was done, aborted requests and refusals
\* included.
Counted ==
    /\ sx.count = Cardinality(recorded)
    /\ sx.num # -1 => sx.rem + Cardinality(recorded) + Cardinality(skipped) = sx.num

\* What is posted is the template as it is at that moment, whole: no leg of a
\* definition that an update has replaced, none missing.
PostsTheTemplate ==
    [][\A t \in recorded' \ recorded : DOMAIN t.nums = template]_scheduledVars

\* What is posted sums to zero, and is the template to the cent but for one
\* split: that one takes what rounding left, half a cent a split at most.
PostedBalances ==
    \A t \in recorded :
      /\ SumFunction(t.nums) = 0
      /\ \E a \in DOMAIN t.nums :
           \A c \in DOMAIN t.nums :
             LET moved == Abs(10 * t.nums[c] - c.value)
             IN  moved <= IF c = a THEN 5 * (Cardinality(DOMAIN t.nums) + 2) ELSE 5
=================================================================================
