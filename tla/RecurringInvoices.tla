------------------------- MODULE RecurringInvoices -------------------------
(***************************************************************************)
(* One recurring definition and the runs that generate its documents        *)
(* (src/src/lib/business/recurring-invoices.ts).  A run claims each due     *)
(* occurrence by moving next_date with a conditional UPDATE, then creates   *)
(* the document, posts it if the definition says so, and notifies.  Runs    *)
(* are begun by bank syncs and by the user's button, and overlap.           *)
(*                                                                         *)
(* A query is one step; createInvoice and postInvoice are one transaction   *)
(* each.  Occurrences are the days 0, 1, 2, ... of a daily definition,      *)
(* whose cadence and auto_post, which a save may change too, stay.          *)
(***************************************************************************)
EXTENDS Integers, FiniteSets

CONSTANTS
    Runs,               \* processes that run the due definitions
    Editors,            \* users who edit the definition
    LastDay,            \* the last day of an instance
    MaxCatchup,         \* MAX_CATCHUP_PER_DEF
    AutoPost,           \* auto_post of the definition
    MaxEdits,           \* saves and deletions by the editors
    MaxMishaps,         \* deaths of runs and notifications that fail
    MaxErrors           \* failures of createInvoice and postInvoice

\* Assumed by the modules that use this one.
RecurringAssumption ==
    /\ LastDay \in Nat /\ MaxCatchup \in Nat \ {0} /\ AutoPost \in BOOLEAN
    /\ MaxEdits \in Nat /\ MaxMishaps \in Nat /\ MaxErrors \in Nat

VARIABLES
    def,        \* the row: next_date, active, deleted or not
    made,       \* how many documents each occurrence has
    posted,     \* the occurrences with a posted document
    reported,   \* the occurrences whose failure was notified
    run,        \* a run: its place, occurrence, count and today's date
    editing,    \* the editors whose save has found the row
    today, edits, mishaps, errors,
    skipped,    \* history: the days below next_date that a save passed over
    setBack     \* history: a save has put next_date back

history == <<skipped, setBack>>
recurringVars == <<def, made, posted, reported, run, editing, today, edits, mishaps, errors,
                   history>>

Days == 0..LastDay
Idle == [at |-> "idle", occ |-> 0, i |-> 0, asOf |-> 0]

RecurringInit ==
    /\ def = [next |-> 0, active |-> TRUE, there |-> TRUE]
    /\ made = [d \in Days |-> 0] /\ posted = {} /\ reported = {}
    /\ run = [r \in Runs |-> Idle] /\ editing = {} /\ skipped = {} /\ setBack = FALSE
    /\ today = 0 /\ edits = MaxEdits /\ mishaps = MaxMishaps /\ errors = MaxErrors

RecurringTypeOK ==
    /\ def \in [next : 0..LastDay + 1, active : BOOLEAN, there : BOOLEAN]
    /\ made \in [Days -> Nat] /\ reported \subseteq Days
    /\ \A d \in posted : made[d] > 0
    /\ run \in [Runs -> [at : {"idle", "loop", "create", "post", "notify", "report"},
                         occ : 0..LastDay + 1, i : 0..MaxCatchup, asOf : Days]]
    /\ editing \subseteq Editors /\ skipped \subseteq Days /\ setBack \in BOOLEAN
    /\ today \in Days /\ edits \in 0..MaxEdits /\ mishaps \in 0..MaxMishaps /\ errors \in 0..MaxErrors

---------------------------------------------------------------------------

\* Mutant: only today's occurrence makes a definition due.
BeginToday(r) ==
    /\ run[r].at = "idle" /\ def.there /\ def.active /\ def.next = today
    /\ run' = [run EXCEPT ![r] = [at |-> "loop", occ |-> def.next, i |-> 0, asOf |-> today]]
    /\ UNCHANGED <<def, made, posted, reported, editing, today, edits, mishaps, errors, history>>

\* The due definitions are loaded.
Begin(r) ==
    /\ run[r].at = "idle" /\ def.there /\ def.active /\ def.next <= today
    /\ run' = [run EXCEPT ![r] = [at |-> "loop", occ |-> def.next, i |-> 0, asOf |-> today]]
    /\ UNCHANGED <<def, made, posted, reported, editing, today, edits, mishaps, errors, history>>

\* The condition of the loop.
Due(r) == run[r].i < MaxCatchup /\ run[r].occ <= run[r].asOf

ClaimLoosely(r) ==
    /\ run[r].at = "loop" /\ Due(r) /\ def.there /\ def.next >= run[r].occ
    /\ def' = [def EXCEPT !.next = run[r].occ + 1]
    /\ run' = [run EXCEPT ![r].at = "create"]
    /\ UNCHANGED <<made, posted, reported, editing, today, edits, mishaps, errors, history>>
\* UPDATE ... SET next_date = next WHERE next_date = occurrence.
Claim(r) ==
    /\ run[r].at = "loop" /\ Due(r) /\ def.there /\ def.next = run[r].occ
    /\ def' = [def EXCEPT !.next = run[r].occ + 1]
    /\ run' = [run EXCEPT ![r].at = "create"]
    /\ UNCHANGED <<made, posted, reported, editing, today, edits, mishaps, errors, history>>

\* Nothing is due any more, or the claim changes no row.
Leave(r) ==
    /\ run[r].at = "loop"
    /\ ~Due(r) \/ ~def.there \/ def.next # run[r].occ
    /\ run' = [run EXCEPT ![r] = Idle]
    /\ UNCHANGED <<def, made, posted, reported, editing, today, edits, mishaps, errors, history>>

Create(r) ==
    /\ run[r].at = "create"
    /\ made' = [made EXCEPT ![run[r].occ] = @ + 1]
    /\ run' = [run EXCEPT ![r].at = IF AutoPost THEN "post" ELSE "notify"]
    /\ UNCHANGED <<def, posted, reported, editing, today, edits, mishaps, errors, history>>

Post(r) ==
    /\ run[r].at = "post"
    /\ posted' = posted \cup {run[r].occ}
    /\ run' = [run EXCEPT ![r].at = "notify"]
    /\ UNCHANGED <<def, made, reported, editing, today, edits, mishaps, errors, history>>

\* The notification of a document, once for an occurrence; then the next one.
Notify(r) ==
    /\ run[r].at = "notify"
    /\ run' = [run EXCEPT ![r].at = "loop", ![r].occ = @ + 1, ![r].i = @ + 1]
    /\ UNCHANGED <<def, made, posted, reported, editing, today, edits, mishaps, errors, history>>

\* createInvoice or postInvoice throws: the run leaves the definition.
Fail(r) ==
    /\ run[r].at \in {"create", "post"} /\ errors > 0 /\ errors' = errors - 1
    /\ run' = [run EXCEPT ![r].at = "report"]
    /\ UNCHANGED <<def, made, posted, reported, editing, today, edits, mishaps, history>>

\* The notification of the failure may fail too, and nobody hears of that.
Report(r) ==
    /\ run[r].at = "report"
    /\ \/ reported' = reported \cup {run[r].occ} /\ UNCHANGED mishaps
       \/ mishaps > 0 /\ mishaps' = mishaps - 1 /\ UNCHANGED reported
    /\ run' = [run EXCEPT ![r] = Idle]
    /\ UNCHANGED <<def, made, posted, editing, today, edits, errors, history>>

\* The process dies.
Die(r) ==
    /\ run[r].at # "idle" /\ mishaps > 0 /\ mishaps' = mishaps - 1
    /\ run' = [run EXCEPT ![r] = Idle]
    /\ UNCHANGED <<def, made, posted, reported, editing, today, edits, errors, history>>

\* updateRecurringInvoice reads the row,
Open(e) ==
    /\ e \notin editing /\ def.there
    /\ editing' = editing \cup {e}
    /\ UNCHANGED <<def, made, posted, reported, run, today, edits, mishaps, errors, history>>

\* and writes it whole: next_date is the date in the form, which shows the one the
\* page read and can be set to any, or the one just read.  (Of the dates outside
\* the instance, LastDay + 1 stands for the later ones.)
Save(e) ==
    /\ e \in editing /\ edits > 0 /\ edits' = edits - 1
    /\ \/ /\ def.there
          /\ \E n \in 0..LastDay + 1, a \in BOOLEAN :
                /\ def' = [def EXCEPT !.next = n, !.active = a]
                /\ skipped' = {d \in Days : d < n /\ (d \in skipped \/ d >= def.next)}
                /\ setBack' = (setBack \/ n < def.next)
       \/ ~def.there /\ UNCHANGED <<def, history>>
    /\ editing' = editing \ {e}
    /\ UNCHANGED <<made, posted, reported, run, today, mishaps, errors>>

\* deleteRecurringInvoice.
Delete ==
    /\ def.there /\ edits > 0 /\ edits' = edits - 1
    /\ def' = [def EXCEPT !.there = FALSE]
    /\ UNCHANGED <<made, posted, reported, run, editing, today, mishaps, errors, history>>

NextDay == /\ today < LastDay /\ today' = today + 1
           /\ UNCHANGED <<def, made, posted, reported, run, editing, edits, mishaps, errors, history>>

GoOn(r) == \/ Claim(r) \/ Leave(r) \/ Create(r) \/ Post(r) \/ Notify(r)
           \/ Fail(r) \/ Report(r)

RecurringNext ==
    \/ \E r \in Runs : Begin(r) \/ GoOn(r) \/ Die(r)
    \/ \E e \in Editors : Open(e) \/ Save(e)
    \/ Delete \/ NextDay

\* Syncs begin runs again and again, a begun run goes on, and days pass.
RecurringFairness ==
    /\ \A r \in Runs : WF_recurringVars(Begin(r)) /\ WF_recurringVars(GoOn(r))
    /\ WF_recurringVars(NextDay)

RecurringSpec == RecurringInit /\ [][RecurringNext]_recurringVars
RecurringFairSpec == RecurringSpec /\ RecurringFairness

---------------------------------------------------------------------------

\* "Two overlapping runners can never generate the same occurrence twice."
OnceEach == \A d \in Days : made[d] <= 1

InHand(d) == \E r \in Runs : run[r].occ = d /\ run[r].at \in {"create", "post", "report"}
Settled(d) == d \in reported \/ (IF AutoPost THEN d \in posted ELSE made[d] > 0)

\* The occurrences that next_date has left behind, by no save, with no document, no
\* notified failure and no run at them: a death, or a failure that nobody hears of,
\* loses the one that its run had in hand and no other.
Lost == {d \in Days : d < def.next /\ d \notin skipped /\ ~Settled(d) /\ ~InHand(d)}
EachMishapLosesOne == Cardinality(Lost) <= MaxMishaps - mishaps

\* runRecurringInvoices: "two overlapping runners can never generate the same
\* occurrence twice" (until a save puts next_date back); and however runs, saves
\* and a deletion overlap, an occurrence that no save passed over is lost only with
\* a death or a failure that nobody hears of, each of which loses one at most.
EachOccurrenceOnce == (~setBack => OnceEach) /\ EachMishapLosesOne

\* However many occurrences were missed, the definition catches up.
UpToDate == def.next > LastDay
CaughtUp == <>UpToDate

\* What makes them inductive.  A run between its claim and its document is at a
\* day of the instance, and one that posts has a document to post;
Claiming == {"create", "post", "notify", "report"}
RunsAgree ==
    \A r \in Runs :
        /\ run[r].at \in Claiming => run[r].occ \in Days /\ run[r].i < MaxCatchup
        /\ run[r].at = "post" => made[run[r].occ] > 0

\* of a definition that no save has put back, next_date is past every occurrence
\* that has a document or is claimed, and a claimed one has no document and one claim.
ClaimsAreOwn ==
    /\ \A d \in Days : d >= def.next => made[d] = 0
    /\ \A r \in Runs : run[r].at = "create" =>
          /\ run[r].occ < def.next /\ made[run[r].occ] = 0
          /\ \A s \in Runs \ {r} : run[s].at = "create" => run[s].occ # run[r].occ
    /\ OnceEach

RecurringInv == /\ RecurringTypeOK /\ RunsAgree
                /\ ~setBack => ClaimsAreOwn
                /\ EachMishapLosesOne

=============================================================================
