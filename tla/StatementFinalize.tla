--------------------------- MODULE StatementFinalize ---------------------------
(***************************************************************************)
(* Reconciling imported statements of one account: the decisions on their  *)
(* lines, and finalizeReconcile, which claims the batch, matches the lines *)
(* that nobody decided, books the lines to be added and reconciles.        *)
(*                                                                         *)
(* Every split stands for itself and for its transaction, whose row is     *)
(* what finalize locks.  Amounts are whole cents; a date is a point in     *)
(* time, and the matcher's window is in the same unit.                     *)
(***************************************************************************)
EXTENDS Integers, FiniteSets, Functions

CONSTANTS
    Lines, Splits,          \* ids, ordered as the code orders them
    Batches, Batch,         \* Batch[l]: the statement of line l
    LineAmount, LineDate,
    Amounts, Dates,         \* of the splits of the ledger
    Window,                 \* DEFAULT_MATCH_WINDOW_DAYS
    StartDate, EndDate,     \* per batch; Unstated when the file has none
    Unstated,
    Opening, Closing,       \* per batch; Opening is Derived when the file has none
    Derived,
    Reqs, Kind, Target,     \* the requests and their batches
    NoReq, NoSplit

ASSUME FinalizeAssumption ==
    /\ Lines \subseteq Nat /\ IsFiniteSet(Lines)
    /\ Splits \subseteq Nat /\ IsFiniteSet(Splits)
    /\ Batch \in [Lines -> Batches]
    /\ LineAmount \in [Lines -> Int] /\ LineDate \in [Lines -> Int]
    /\ Amounts \subseteq Int /\ Dates \subseteq Int /\ Window \in Nat
    /\ StartDate \in [Batches -> Int \cup {Unstated}]
    /\ EndDate \in [Batches -> Int \cup {Unstated}]
    /\ Closing \in [Batches -> Int] /\ Opening \in [Batches -> Int \cup {Derived}]
    /\ Kind \in [Reqs -> {"finalize", "decide", "assign", "edit"}]
    /\ Target \in [Reqs -> Batches]
    /\ NoReq \notin Reqs /\ NoSplit \notin Splits

VARIABLES
    split, line,
    statusOf,   \* of a batch
    held,       \* the row lock of a batch, that of a split's transaction:
    rows,       \*   the request that has it
    at,         \* per request: its place
    got,        \* per request: what finalize, or an assignment, has read
    booked      \* history: transactions created for a line

locks == <<held, rows>>
data == <<split, line, statusOf, booked>>
finalizeVars == <<data, locks, at, got>>

LineStates == {"unmatched", "matched", "added", "ignored"}
SplitRow == [live : BOOLEAN, state : {"n", "y"}, amount : Amounts, date : Dates]
Line == [state : LineStates, split : Splits \cup {NoSplit}]
Nothing == [lines |-> <<>>, auto |-> <<>>, status |-> "none"]

FinalizeTypeOK ==
    /\ split \in [Splits -> SplitRow]
    /\ line \in [Lines -> Line]
    /\ statusOf \in [Batches -> {"parsed", "reconciled"}]
    /\ held \in [Batches -> Reqs \cup {NoReq}]
    /\ rows \in [Splits -> Reqs \cup {NoReq}]
    /\ at \in [Reqs -> {"start", "claimed", "read", "matched", "locked", "tied", "done"}]
    /\ booked \in [Lines -> Nat]

FinalizeInit ==
    /\ split \in [Splits -> SplitRow]
    /\ line = [l \in Lines |-> [state |-> "unmatched", split |-> NoSplit]]
    /\ statusOf = [b \in Batches |-> "parsed"]
    /\ held = [b \in Batches |-> NoReq] /\ rows = [s \in Splits |-> NoReq]
    /\ at = [q \in Reqs |-> "start"] /\ got = [q \in Reqs |-> Nothing]
    /\ booked = [l \in Lines |-> 0]

--------------------------------------------------------------------------------
(* matchStatementLines: the lines in the order of their dates each take the *)
(* closest split of their amount that is still free.                        *)

Distance(l, s) == IF LineDate[l] < split[s].date THEN split[s].date - LineDate[l]
                                                 ELSE LineDate[l] - split[s].date

Compatible(l, s) == split[s].amount = LineAmount[l] /\ Distance(l, s) <= Window

Closer(l, s, t) ==
    \/ Distance(l, s) < Distance(l, t)
    \/ Distance(l, s) = Distance(l, t) /\ split[s].date < split[t].date
    \/ Distance(l, s) = Distance(l, t) /\ split[s].date = split[t].date /\ s < t

EarlierLine(k, l) == LineDate[k] < LineDate[l] \/ (LineDate[k] = LineDate[l] /\ k < l)

\* Mutant: a split that is taken stays in the pool.
MatchWithReplacement(L, pool) ==
    [l \in {k \in L : \E s \in pool : Compatible(k, s)} |->
        CHOOSE s \in pool : /\ Compatible(l, s)
                            /\ \A t \in pool \ {s} : Compatible(l, t) => Closer(l, s, t)]

\* What line l adds to what the lines before it have found.
FreeFor(pool, found, l) ==
    {s \in pool : Compatible(l, s) /\ \A k \in DOMAIN found : found[k] # s}
Closest(l, free) == CHOOSE s \in free : \A t \in free \ {s} : Closer(l, s, t)
Take(pool, found, l) ==
    LET free == FreeFor(pool, found, l)
    IN  IF free = {} THEN found
        ELSE [k \in DOMAIN found \cup {l} |->
                 IF k \in DOMAIN found THEN found[k] ELSE Closest(l, free)]

Latest(P) == CHOOSE l \in P : \A k \in P \ {l} : EarlierLine(k, l)

\* The matches of lines L with splits of the pool, as a function on the lines
\* that found one.
Match(L, pool) ==
    LET matches[P \in SUBSET L] ==
          IF P = {} THEN <<>> ELSE Take(pool, matches[P \ {Latest(P)}], Latest(P))
    IN  matches[L]

--------------------------------------------------------------------------------
(* What a finalize has read. *)

Mine(q) == {l \in Lines : Batch[l] = Target[q]}
Explicit(q) == {l \in DOMAIN got[q].lines :
                   got[q].lines[l].state = "matched" /\ got[q].lines[l].split # NoSplit}
Added(q) == {l \in DOMAIN got[q].lines : got[q].lines[l].state = "added"}
Ignored(q) == {l \in DOMAIN got[q].lines : got[q].lines[l].state = "ignored"}
Undecided(q) == DOMAIN got[q].lines \ (Explicit(q) \cup Added(q) \cup Ignored(q))
ExplicitSplits(q) == {got[q].lines[l].split : l \in Explicit(q)}
AutoSplits(q) == {got[q].auto[l] : l \in DOMAIN got[q].auto}
MatchedSplits(q) == ExplicitSplits(q) \cup AutoSplits(q)

Live(S) == {s \in S : split[s].live}

\* The range of the statement's dates, or of its lines' where it states none,
\* widened by the window.
InRange(b, s) ==
    /\ IF StartDate[b] = Unstated
       THEN \E l \in Lines : Batch[l] = b /\ LineDate[l] - Window <= split[s].date
       ELSE StartDate[b] - Window <= split[s].date
    /\ IF EndDate[b] = Unstated
       THEN \E l \in Lines : Batch[l] = b /\ split[s].date <= LineDate[l] + Window
       ELSE split[s].date <= EndDate[b] + Window

\* The splits that the matcher is offered.
getCandidateSplits(b) == {s \in Live(Splits) : split[s].state # "y" /\ InRange(b, s)}

SumOf(S) == SumFunctionOnSet([s \in Splits |-> split[s].amount], S)
\* The account's reconciled balance.
Balance == SumOf({s \in Splits : split[s].live /\ split[s].state = "y"})
           + SumFunctionOnSet([l \in Lines |-> booked[l] * LineAmount[l]], Lines)

EffectiveOpening(b) == IF Opening[b] = Derived THEN Balance ELSE Opening[b]

TiesOut(q) == Closing[Target[q]] - EffectiveOpening(Target[q])
                 = SumOf(Live(MatchedSplits(q))) + SumFunctionOnSet(LineAmount, Added(q))

Release(q) == /\ held' = [b \in Batches |-> IF held[b] = q THEN NoReq ELSE held[b]]
              /\ rows' = [s \in Splits |-> IF rows[s] = q THEN NoReq ELSE rows[s]]

GoOn(q, place) == at' = [at EXCEPT ![q] = place]
At(q, kind, place) == Kind[q] = kind /\ at[q] = place

--------------------------------------------------------------------------------
(* finalizeReconcile. *)

\* Mutant: the claim does not look at the status.
ClaimAnyStatus(q) ==
    /\ At(q, "finalize", "start") /\ held[Target[q]] = NoReq
    /\ held' = [held EXCEPT ![Target[q]] = q]
    /\ GoOn(q, "claimed")
    /\ UNCHANGED <<data, rows, got>>

\* UPDATE ... WHERE status NOT IN ('reconciled', ...): takes the row lock, and
\* answers 409 when it finds the batch reconciled after waiting.
Claim(q) ==
    /\ At(q, "finalize", "start") /\ held[Target[q]] = NoReq
    /\ IF statusOf[Target[q]] = "reconciled"
       THEN GoOn(q, "done") /\ UNCHANGED held
       ELSE GoOn(q, "claimed") /\ held' = [held EXCEPT ![Target[q]] = q]
    /\ UNCHANGED <<data, rows, got>>

ReadLines(q) ==
    /\ At(q, "finalize", "claimed")
    /\ got' = [got EXCEPT ![q].lines = [l \in Mine(q) |-> line[l]]]
    /\ GoOn(q, "read")
    /\ UNCHANGED <<data, locks>>

\* getCandidateSplits, without a lock, and the matcher.
ReadCandidates(q) ==
    /\ At(q, "finalize", "read")
    /\ got' = [got EXCEPT ![q].auto =
                  Match(Undecided(q), getCandidateSplits(Target[q]) \ ExplicitSplits(q))]
    /\ GoOn(q, "matched")
    /\ UNCHANGED <<data, locks>>

\* Mutant: the rows are not locked.
LockNoRows(q) ==
    /\ At(q, "finalize", "matched")
    /\ GoOn(q, "locked")
    /\ UNCHANGED <<data, locks, got>>

\* SELECT ... ORDER BY guid FOR UPDATE.  That such waits form no cycle is a
\* matter of Ledger; here the rows are taken once all are free.
LockRows(q) ==
    /\ At(q, "finalize", "matched")
    /\ \A s \in Live(MatchedSplits(q)) : rows[s] = NoReq
    /\ rows' = [s \in Splits |-> IF s \in Live(MatchedSplits(q)) THEN q ELSE rows[s]]
    /\ GoOn(q, "locked")
    /\ UNCHANGED <<data, held, got>>

\* The amounts, under the locks, and the opening balance, under none; a
\* statement that does not tie out is rolled back.
TieOut(q) ==
    /\ At(q, "finalize", "locked")
    /\ IF TiesOut(q) THEN GoOn(q, "tied") /\ UNCHANGED locks
                     ELSE GoOn(q, "done") /\ Release(q)
    /\ UNCHANGED <<data, got>>

\* The auto-matches, the added transactions, the reconcile states, the status
\* claimed at first: all become visible at once.
Commit(q) ==
    /\ At(q, "finalize", "tied")
    /\ line' = [l \in Lines |->
                  IF l \in DOMAIN got[q].auto
                  THEN [state |-> "matched", split |-> got[q].auto[l]]
                  ELSE IF l \in Added(q) THEN [line[l] EXCEPT !.state = "added"] ELSE line[l]]
    /\ booked' = [l \in Lines |-> booked[l] + IF l \in Added(q) THEN 1 ELSE 0]
    /\ split' = [s \in Splits |-> IF s \in Live(MatchedSplits(q))
                                  THEN [split[s] EXCEPT !.state = "y"] ELSE split[s]]
    /\ statusOf' = [statusOf EXCEPT ![Target[q]] = "reconciled"]
    /\ GoOn(q, "done") /\ Release(q)
    /\ UNCHANGED got

--------------------------------------------------------------------------------
(* Other requests. *)

\* PUT .../lines: match, add or ignore, whatever the batch's status.  The page
\* offers splits that are not reconciled.
Decide(q) ==
    /\ At(q, "decide", "start")
    /\ \E l \in Mine(q) :
          \/ \E s \in {t \in Live(Splits) : split[t].state = "n"} :
                line' = [line EXCEPT ![l] = [state |-> "matched", split |-> s]]
          \/ \E st \in {"added", "ignored"} :
                line' = [line EXCEPT ![l] = [state |-> st, split |-> NoSplit]]
    /\ GoOn(q, "done")
    /\ UNCHANGED <<split, statusOf, booked, locks, got>>

\* PUT .../account: the status read is written back with the account.
ReadStatus(q) ==
    /\ At(q, "assign", "start") /\ statusOf[Target[q]] # "reconciled"
    /\ got' = [got EXCEPT ![q].status = statusOf[Target[q]]]
    /\ GoOn(q, "read")
    /\ UNCHANGED <<data, locks>>

WriteStatus(q) ==
    /\ At(q, "assign", "read") /\ held[Target[q]] = NoReq
    /\ statusOf' = [statusOf EXCEPT ![Target[q]] = got[q].status]
    /\ GoOn(q, "done")
    /\ UNCHANGED <<split, line, booked, locks, got>>

\* A ledger request (module Ledger) that has the row changes the amount or
\* deletes the transaction of a split that is not reconciled.
Edit(q) ==
    /\ At(q, "edit", "start")
    /\ \E s \in Live(Splits) :
          /\ split[s].state = "n" /\ rows[s] = NoReq
          /\ \/ \E a \in Amounts : split' = [split EXCEPT ![s].amount = a]
             \/ split' = [split EXCEPT ![s].live = FALSE]
    /\ GoOn(q, "done")
    /\ UNCHANGED <<line, statusOf, booked, locks, got>>

Handle(q) == \/ Claim(q) \/ ReadLines(q) \/ ReadCandidates(q) \/ LockRows(q)
             \/ TieOut(q) \/ Commit(q)
             \/ Decide(q) \/ ReadStatus(q) \/ WriteStatus(q) \/ Edit(q)

FinalizeNext == \E q \in Reqs : Handle(q)

FinalizeSpec == FinalizeInit /\ [][FinalizeNext]_finalizeVars

--------------------------------------------------------------------------------
(* Properties. *)

\* finalizeReconcile: "every added line is booked exactly once", until an assignment of
\* the statement's account has read a status that it will write back.
OpenedAgain(b) == \E q \in Reqs : Kind[q] = "assign" /\ Target[q] = b /\ at[q] # "start"
AddedOnce == \A l \in Lines : OpenedAgain(Batch[l]) \/ booked[l] <= 1

\* What makes it inductive.  A request's record has its fields,
GotShaped ==
    /\ got = [q \in Reqs |-> got[q]]
    /\ \A q \in Reqs : got[q] = [lines |-> got[q].lines, auto |-> got[q].auto,
                                  status |-> got[q].status]

\* a finalize that has claimed its batch holds the row of a batch that is open,
\* and adds lines of that batch; an open batch has booked none.
Claims(q) == Kind[q] = "finalize" /\ at[q] \in {"claimed", "read", "matched", "locked", "tied"}
ClaimsHold ==
    \A q \in Reqs : Claims(q) =>
        /\ at[q] # "claimed" => DOMAIN got[q].lines = Mine(q)
        /\ OpenedAgain(Target[q])
           \/ (held[Target[q]] = q /\ statusOf[Target[q]] = "parsed")
NoneBookedYet ==
    \A l \in Lines : statusOf[Batch[l]] = "parsed" => OpenedAgain(Batch[l]) \/ booked[l] = 0
BookedTyped == /\ booked \in [Lines -> Nat] /\ statusOf \in [Batches -> {"parsed", "reconciled"}]
               /\ held \in [Batches -> Reqs \cup {NoReq}]
               /\ at \in [Reqs -> {"start", "claimed", "read", "matched", "locked", "tied", "done"}]
               /\ \A q \in Reqs : Kind[q] = "assign" /\ at[q] = "read" => got[q].status = "parsed"
BooksOnce == GotShaped /\ BookedTyped /\ ClaimsHold /\ NoneBookedYet /\ AddedOnce

\* The statement's own dates cover that of the line.
WithinStatement(l) ==
    /\ StartDate[Batch[l]] # Unstated => StartDate[Batch[l]] <= LineDate[l]
    /\ EndDate[Batch[l]] # Unstated => LineDate[l] <= EndDate[Batch[l]]

\* matchStatementLines: a split goes to one line, an explicit match is not
\* given away, and no line is left over while a split of the range would fit it;
\* for a line within the statement's own dates, no split of the ledger at all:
\* computeRange widens them "so boundary matches still resolve".  (Of the finalize
\* that has just read the candidates: the ledger may change later.)
FindsExactMatches ==
    \A q \in Reqs : ReadCandidates(q) =>
         LET auto == got'[q].auto IN
         /\ IsInjective(auto)
         /\ \A l \in DOMAIN auto : /\ Compatible(l, auto[l])
                                   /\ auto[l] \notin ExplicitSplits(q)
         /\ \A l \in Undecided(q) \ DOMAIN auto :
               \A s \in {t \in Live(Splits) : WithinStatement(l) \/ InRange(Target[q], t)} :
                  split[s].state = "n" /\ Compatible(l, s)
                     => s \in ExplicitSplits(q) \cup Range(auto)
MatchesAreExact == [][FindsExactMatches]_finalizeVars

\* A finalize that starts from the statement's opening balance arrives at its
\* closing balance, whatever amounts are edited and whichever splits deleted
\* while it runs.
ArrivesAtClosing ==
    \A q \in Reqs : Commit(q) /\ Balance = EffectiveOpening(Target[q])
          => Balance' = Closing[Target[q]]
FinalizeTiesOut == [][ArrivesAtClosing]_finalizeVars
================================================================================
