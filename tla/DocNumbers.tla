---------------------------- MODULE DocNumbers ----------------------------
(***************************************************************************)
(* The numbers of new documents (nextCounterId, invoice-engine.ts).  Each   *)
(* kind of document has a counter slot under the book's 'counters' frame.   *)
(* A number is the slot's value after an atomic UPDATE; a kind without a    *)
(* slot gets one, under an advisory lock of the book and the kind.          *)
(*                                                                         *)
(* PostgreSQL at READ COMMITTED: a new frame, slot or document is seen by   *)
(* others once its transaction commits.  findFirst has no ORDER BY, so of   *)
(* several frames it may return any.                                        *)
(***************************************************************************)
EXTENDS Integers, FiniteSetsExt

CONSTANTS
    Kinds,              \* gncInvoice, gncBill, the voucher counter
    Requests, NoHolder,
    KindOf,             \* the kind of document that a request creates
    Frames, NoFrame,
    Oldest,             \* the highest number in use before the first counter
    NoValue

\* Assumed by the modules that use this one.
NumbersAssumption ==
    /\ KindOf \in [Requests -> Kinds] /\ Oldest \in Nat
    /\ NoHolder \notin Requests /\ NoFrame \notin Frames /\ NoValue \notin Nat
    /\ Frames # {}

VARIABLES
    frames,     \* the committed 'counters' frames
    slot,       \* the committed counter of a frame and a kind
    docs,       \* committed documents: kind, number and request
    advisory,   \* the holder of a kind's advisory lock
    rowLock,    \* the holder of a counter slot's row lock
    req         \* a request: its place, the frame that it saw, its number

numbersVars == <<frames, slot, docs, advisory, rowLock, req>>

Stages == {"new", "increment", "wait", "again", "bootstrap", "ready", "done"}

NumbersInit ==
    /\ \E f \in Frames : frames \in {{}, {f}}
    /\ slot = [f \in Frames |-> [k \in Kinds |-> NoValue]]
    /\ docs = {[kind |-> k, number |-> Oldest, by |-> NoHolder] : k \in Kinds}
    /\ advisory = [k \in Kinds |-> NoHolder]
    /\ rowLock = [f \in Frames |-> [k \in Kinds |-> NoHolder]]
    /\ req = [r \in Requests |-> [at |-> "new", frame |-> NoFrame, number |-> 0]]

NumbersTypeOK ==
    /\ frames \subseteq Frames
    /\ slot \in [Frames -> [Kinds -> Nat \cup {NoValue}]]
    /\ \A f \in Frames, k \in Kinds : slot[f][k] # NoValue => f \in frames
    /\ docs \subseteq [kind : Kinds, number : Nat, by : Requests \cup {NoHolder}]
    /\ advisory \in [Kinds -> Requests \cup {NoHolder}]
    /\ rowLock \in [Frames -> [Kinds -> Requests \cup {NoHolder}]]
    /\ req \in [Requests -> [at : Stages, frame : Frames \cup {NoFrame}, number : Nat]]

---------------------------------------------------------------------------

To(r, place, frame) == req' = [req EXCEPT ![r].at = place, ![r].frame = frame]

\* findCounter: a frame if there is one, and the kind's slot under it.
Find(r, found, missing) ==
    IF frames = {} THEN To(r, missing, NoFrame)
    ELSE \E f \in frames : To(r, IF slot[f][KindOf[r]] # NoValue THEN found ELSE missing, f)

Look(r) ==
    /\ req[r].at = "new" /\ Find(r, "increment", "wait")
    /\ UNCHANGED <<frames, slot, docs, advisory, rowLock>>

\* UPDATE slots SET int64_val = int64_val + 1 ... RETURNING.
Increment(r) ==
    LET f == req[r].frame
        k == KindOf[r]
    IN  /\ req[r].at = "increment" /\ rowLock[f][k] = NoHolder
        /\ rowLock' = [rowLock EXCEPT ![f][k] = r]
        /\ req' = [req EXCEPT ![r].at = "ready", ![r].number = slot[f][k] + 1]
        /\ UNCHANGED <<frames, slot, docs, advisory>>

LockNobody(r) ==
    /\ req[r].at = "wait" /\ To(r, "again", req[r].frame)
    /\ UNCHANGED <<frames, slot, docs, advisory, rowLock>>
\* pg_advisory_xact_lock.
Lock(r) ==
    /\ req[r].at = "wait" /\ advisory[KindOf[r]] = NoHolder
    /\ advisory' = [advisory EXCEPT ![KindOf[r]] = r]
    /\ To(r, "again", req[r].frame)
    /\ UNCHANGED <<frames, slot, docs, rowLock>>

LookAgain(r) ==
    /\ req[r].at = "again" /\ Find(r, "increment", "bootstrap")
    /\ UNCHANGED <<frames, slot, docs, advisory, rowLock>>

\* The highest number in use, and one more; a frame if none was found.
Bootstrap(r) ==
    /\ req[r].at = "bootstrap"
    /\ \E f \in Frames :
         /\ IF req[r].frame # NoFrame THEN f = req[r].frame
            ELSE f \notin frames /\ \A o \in Requests : req[o].at = "ready" => req[o].frame # f
         /\ req' = [req EXCEPT ![r].at = "ready", ![r].frame = f,
              ![r].number = Max({d.number : d \in {e \in docs : e.kind = KindOf[r]}}) + 1]
    /\ UNCHANGED <<frames, slot, docs, advisory, rowLock>>

Unlocked(r) ==
    /\ rowLock' = [f \in Frames |-> [k \in Kinds |->
                     IF rowLock[f][k] = r THEN NoHolder ELSE rowLock[f][k]]]
    /\ advisory' = [k \in Kinds |-> IF advisory[k] = r THEN NoHolder ELSE advisory[k]]

WrittenWithoutFrame(r) ==
    /\ UNCHANGED frames
    /\ slot' = [slot EXCEPT ![req[r].frame][KindOf[r]] = req[r].number]
    /\ docs' = docs \cup {[kind |-> KindOf[r], number |-> req[r].number, by |-> r]}
\* What the commit makes visible.
Written(r) ==
    /\ frames' = frames \cup {req[r].frame}
    /\ slot' = [slot EXCEPT ![req[r].frame][KindOf[r]] = req[r].number]
    /\ docs' = docs \cup {[kind |-> KindOf[r], number |-> req[r].number, by |-> r]}

\* createInvoice inserts the document and commits.
Commit(r) == /\ req[r].at = "ready" /\ Written(r)
             /\ To(r, "done", NoFrame) /\ Unlocked(r)

\* The transaction is rolled back: its number is given again.
Abort(r) ==
    /\ req[r].at \notin {"new", "done"} /\ To(r, "done", NoFrame) /\ Unlocked(r)
    /\ UNCHANGED <<frames, slot, docs>>

Serve(r) == Look(r) \/ Increment(r) \/ Lock(r) \/ LookAgain(r) \/ Bootstrap(r) \/ Commit(r)

NumbersNext == \E r \in Requests : Serve(r) \/ Abort(r)

\* The database serves a begun transaction and grants free locks.
NumbersFairness == \A r \in Requests : WF_numbersVars(req[r].at # "new" /\ Serve(r))

NumbersSpec == NumbersInit /\ [][NumbersNext]_numbersVars
NumbersFairSpec == NumbersSpec /\ NumbersFairness

---------------------------------------------------------------------------

\* "Two concurrent calls ... always hand out distinct numbers".
DistinctNumbers ==
    \A d, e \in docs : d.kind = e.kind /\ d.number = e.number => d = e

\* A counter that is there is never behind a number in use, so that whoever
\* increments it next gets a new one.
CounterLeads ==
    \A f \in Frames, k \in Kinds :
      slot[f][k] # NoValue => \A d \in docs : d.kind = k => d.number <= slot[f][k]

\* The advisory lock and the row locks are never waited for in a circle: each
\* request that has begun is answered.
Numbered == \A r \in Requests : req[r].at # "new" ~> req[r].at = "done"

\* Kinds that bootstrap at once in a book without a frame make one each, and then
\* a kind may get a second counter.
OneFrameOnly == \A f, g \in frames : f = g
OneKindOnly == \A k, l \in Kinds : k = l

\* nextDocumentNumber: concurrent calls always hand out distinct numbers (of one
\* kind of document), and a counter is never behind a number in use, in a book
\* that has one kind of document, or has made no second frame.
NumbersAreUnique == OneKindOnly \/ OneFrameOnly => DistinctNumbers /\ CounterLeads

\* What makes it inductive.  A request that is to increment has found a counter,
\* one that has a number has a frame to store it in, and every kind has a document
\* with its highest number.
Placed ==
    \A r \in Requests :
        /\ req[r].at = "increment" =>
             req[r].frame \in frames /\ slot[req[r].frame][KindOf[r]] # NoValue
        /\ req[r].at = "ready" => req[r].frame \in Frames
HasHighest ==
    \A k \in Kinds : \E d \in docs : d.kind = k /\ \A e \in docs : e.kind = k => e.number <= d.number

\* Of one kind of document, a request that is to make a frame is alone at it;
OneFrame ==
    /\ OneFrameOnly
    /\ \A r \in Requests :
         /\ req[r].at = "bootstrap" =>
              (frames = {} /\ req[r].frame = NoFrame) \/ req[r].frame \in frames
         /\ req[r].at = "ready" => frames = {} \/ req[r].frame \in frames

\* while there is no second frame, a request between its second look and its commit
\* holds the advisory lock and its kind has no counter, or it holds the lock of its
\* kind's counter, and its number is above those in use.
Unnumbered(k) == \A f \in Frames : slot[f][k] = NoValue
First(r) == advisory[KindOf[r]] = r /\ Unnumbered(KindOf[r])
Incremented(r) ==
    LET f == req[r].frame
        k == KindOf[r]
    IN  f \in frames /\ rowLock[f][k] = r /\ slot[f][k] # NoValue /\ req[r].number = slot[f][k] + 1
InTurn ==
    \A r \in Requests :
        /\ req[r].at = "again" => advisory[KindOf[r]] = r
        /\ req[r].at = "bootstrap" => First(r)
        /\ req[r].at = "ready" =>
             /\ First(r) \/ Incremented(r)
             /\ \A d \in docs : d.kind = KindOf[r] => d.number < req[r].number

NumbersInv == /\ NumbersTypeOK /\ Placed /\ HasHighest
              /\ OneKindOnly => OneFrame
              /\ OneFrameOnly => InTurn /\ DistinctNumbers /\ CounterLeads

===========================================================================
