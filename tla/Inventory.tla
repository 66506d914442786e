----------------------------- MODULE Inventory -----------------------------
(***************************************************************************)
(* The stock ledger of inventory-engine.ts: an append-only log of signed   *)
(* movements.  Stock on hand, FIFO cost layers, what an invoice line has   *)
(* shipped and what a bill line has received are all sums over that log.   *)
(*                                                                         *)
(* Every operation is one transaction.  It locks the rows of the items it  *)
(* touches, in the order of their ids, checks the stock, prices the units  *)
(* it consumes and appends its movements.  The three operations that serve *)
(* a document (fulfil an invoice, return from it, receive from a bill)     *)
(* check the document's quantities BEFORE they take the locks.             *)
(*                                                                         *)
(* Quantities and costs are whole numbers of their smallest unit.  A       *)
(* movement carries its worth, the product of its quantity and unit cost.  *)
(* The ledger postings of a movement carry the same worth in the same      *)
(* transaction and are left out.  An item keeps its valuation method, which *)
(* updateItem would let a user switch.                                     *)
(***************************************************************************)
EXTENDS Integers, Sequences, FiniteSets, Functions, FiniteSetsExt

CONSTANTS
    Workers,      \* requests served at the same time
    Items,        \* ids of the items of one book
    Locations,
    Fifo,         \* the items valued 'fifo'; the others are valued 'average'
    Lines,        \* the entries of posted customer invoices and vendor bills
    Quantity,     \* Quantity[e]: the quantity on entry e
    Jobs,         \* what users may ask for
    Free,         \* no worker
    NoCost,       \* a movement without a unit cost
    NoLine,       \* a movement that serves no document
    MaxJobs       \* bound: transactions begun

Types == {"receive", "ship", "adjust", "transfer", "consume", "produce", "return_in"}

\* A line of a request: a signed quantity of an item at a location and, of a
\* transfer, the location that it goes to.
Line == [item : Items, loc : Locations, to : Locations, type : Types, qty : Int,
         cost : Nat \cup {NoCost}, line : Lines \cup {NoLine}]

\* Assumed by the modules that instantiate this one.  The sign of a line's quantity
\* is that of its type (signedQuantityForType), and each operation has lines of its
\* own types.
StockAssumption ==
    /\ IsFiniteSet(Workers) /\ Free \notin Workers
    /\ IsFiniteSet(Items) /\ Items \subseteq Nat /\ Fifo \subseteq Items
    /\ IsFiniteSet(Locations)
    /\ Quantity \in [Lines -> Nat] /\ NoLine \notin Lines
    /\ NoCost \notin Nat /\ MaxJobs \in Nat
    /\ \A r \in Jobs :
          /\ r = [op |-> r.op, lines |-> r.lines] /\ r.op # "none"
          /\ r.lines \in Seq(Line)
          /\ \A k \in DOMAIN r.lines : LET ln == r.lines[k] IN
                /\ ln.qty # 0
                /\ ln.type \in {"receive", "produce", "return_in"} => ln.qty > 0
                /\ ln.type \in {"ship", "transfer", "consume"} => ln.qty < 0
                /\ r.op = "fulfil" => ln.type = "ship"
                /\ r.op = "return" => ln.type = "return_in"
                /\ r.op = "receive" => ln.type = "receive"
                /\ r.op \notin {"fulfil", "return", "receive"} => ln.line = NoLine

VARIABLES
    job,        \* job[w]: the request w serves, or NoJob
    draft,      \* draft[w]: the rows w has inserted and not yet committed
    holder,     \* holder[i]: who holds the row lock of item i
    movements,  \* the committed log, oldest first (ORDER BY id)
    avg,        \* avg[i]: avg_cost of item i
    begun       \* transactions begun so far

stockVars == <<job, draft, holder, movements, avg, begun>>

(***************************************************************************)
(* Reading the log.                                                        *)
(***************************************************************************)
Quantities(log) == [k \in DOMAIN log |-> log[k].qty]

OnHand(log, i, l) ==
    SumFunctionOnSet(Quantities(log), {k \in DOMAIN log : log[k].item = i /\ log[k].loc = l})

OnHandTotal(log, i) ==
    SumFunctionOnSet(Quantities(log), {k \in DOMAIN log : log[k].item = i})

OfEntry(log, e, types) == {k \in DOMAIN log : log[k].line = e /\ log[k].type \in types}

\* What a document's entry has shipped, less what came back.
Fulfilled(log, e) ==
    -SumFunctionOnSet(Quantities(log), OfEntry(log, e, {"ship", "return_in"}))

Received(log, e) == SumFunctionOnSet(Quantities(log), OfEntry(log, e, {"receive"}))

(***************************************************************************)
(* FIFO layers, oldest first, with what is left of each; one that is empty *)
(* keeps its place, where the code drops it.  Taking q units empties the   *)
(* oldest layers; what no layer covers is dropped.                         *)
(***************************************************************************)
Left(layers) == [k \in DOMAIN layers |-> layers[k].qty]

Units(layers) == SumFunctionOnSet(Left(layers), DOMAIN layers)

TakenFrom(layers, q, k) ==
    LET left == q - SumFunctionOnSet(Left(layers), {j \in DOMAIN layers : j < k})
    IN  IF left <= 0 THEN 0 ELSE IF left < layers[k].qty THEN left ELSE layers[k].qty

Deplete(layers, q) ==
    [k \in DOMAIN layers |-> [qty  |-> layers[k].qty - TakenFrom(layers, q, k),
                              unit |-> layers[k].unit]]

AddToLayers(layers, m) ==
    IF m.qty > 0 THEN Append(layers, [qty |-> m.qty, unit |-> m.worth \div m.qty])
                 ELSE Deplete(layers, -m.qty)

\* The layers of item i after each movement of the log.  Transfers are skipped:
\* cost is book-wide.
LayersAfter(log, i) ==
    LET after[n \in 0..Len(log)] ==
            IF n = 0 THEN <<>>
            ELSE IF log[n].item = i /\ log[n].type # "transfer"
                 THEN AddToLayers(after[n - 1], log[n])
                 ELSE after[n - 1]
    IN  after

buildFifoLayers(log, i) == LayersAfter(log, i)[Len(log)]

\* The layers' worth of q units, or the average when the layers fall short.
consumptionCost(s, i, q) ==
    LET layers == buildFifoLayers(s.log, i)
    IN  IF i \in Fifo /\ q <= Units(layers)
        THEN SumFunctionOnSet([k \in DOMAIN layers |->
                                  TakenFrom(layers, q, k) * layers[k].unit], DOMAIN layers)
        ELSE q * s.avg[i]

Worths(log) == [k \in DOMAIN log |-> log[k].worth]

\* The weighted unit cost at which an entry's item was shipped.
shipmentUnitCost(s, ln) ==
    LET shipped == {k \in OfEntry(s.log, ln.line, {"ship"}) : s.log[k].item = ln.item}
    IN  IF shipped = {} THEN s.avg[ln.item]
        ELSE SumFunctionOnSet(Worths(s.log), shipped)
                \div (-SumFunctionOnSet(Quantities(s.log), shipped))

(***************************************************************************)
(* Writing the log.  s is the transaction's view of it, with the averages  *)
(* and the cost an assembly has consumed; ln is one line of the request,   *)
(* with the signed quantity of its movement.                               *)
(***************************************************************************)
insertMovement(s, ln, loc, qty, worth) ==
    [s EXCEPT !.log = Append(@, [item |-> ln.item, loc |-> loc, type |-> ln.type,
                                 qty |-> qty, worth |-> worth, line |-> ln.line])]

applyMovementToAvgCost(s, ln, unit) ==
    LET base == Max({OnHandTotal(s.log, ln.item), 0})
    IN  [s EXCEPT !.avg[ln.item] =
            IF unit = NoCost THEN @
            ELSE IF base = 0 THEN unit
            ELSE (base * @ + ln.qty * unit) \div (base + ln.qty)]

\* The unit cost of an inbound movement.
UnitCost(s, ln) ==
    CASE ln.type = "return_in" -> shipmentUnitCost(s, ln)
      [] ln.type = "produce"   -> s.spent \div ln.qty
      [] OTHER                 -> ln.cost

TakeIn(s, ln) ==
    LET unit  == UnitCost(s, ln)
        worth == IF unit = NoCost THEN 0 ELSE unit * ln.qty
    IN  insertMovement(applyMovementToAvgCost(s, ln, unit), ln, ln.loc, ln.qty, worth)

\* A shipment always records its cost, the others only on a FIFO item.
TakeOut(s, ln) ==
    LET cost  == consumptionCost(s, ln.item, -ln.qty)
        worth == IF ln.type = "ship" \/ ln.item \in Fifo THEN cost ELSE 0
    IN  [insertMovement(s, ln, ln.loc, ln.qty, worth) EXCEPT !.spent = @ + cost]

Move(s, ln) ==
    insertMovement(insertMovement(s, ln, ln.loc, ln.qty, 0), ln, ln.to, -ln.qty, 0)

WriteLine(s, ln) ==
    IF ln.type = "transfer" THEN Move(s, ln)
    ELSE IF ln.qty > 0 THEN TakeIn(s, ln)
    ELSE TakeOut(s, ln)

\* The view after each line of request r.
LinesWritten(r) ==
    LET after[n \in 0..Len(r.lines)] ==
            IF n = 0 THEN [log |-> movements, avg |-> avg, spent |-> 0]
            ELSE WriteLine(after[n - 1], r.lines[n])
    IN  after

Inserted(r) == LinesWritten(r)[Len(r.lines)]

(***************************************************************************)
(* What a request is held against.                                         *)
(***************************************************************************)
LineSet(r) == {r.lines[k] : k \in DOMAIN r.lines}

Needs(r) == {ln.item : ln \in LineSet(r)}

Abs(n) == IF n < 0 THEN -n ELSE n

\* What the lines take or bring on one document entry.
Allocated(r, e) ==
    SumFunctionOnSet([k \in DOMAIN r.lines |-> Abs(r.lines[k].qty)],
                     {k \in DOMAIN r.lines : r.lines[k].line = e})

EntriesOf(r) == {ln.line : ln \in LineSet(r)} \ {NoLine}

validateAllocations(r) == \A e \in EntriesOf(r) :
    /\ r.op = "fulfil"  => Fulfilled(movements, e) + Allocated(r, e) <= Quantity[e]
    /\ r.op = "return"  => Allocated(r, e) <= Fulfilled(movements, e)
    /\ r.op = "receive" => Received(movements, e) + Allocated(r, e) <= Quantity[e]

\* The lines of one request are held together against the stock.
Demand(r, i, l) ==
    SumFunctionOnSet([k \in DOMAIN r.lines |-> -r.lines[k].qty],
                     {k \in DOMAIN r.lines : /\ r.lines[k].item = i /\ r.lines[k].loc = l
                                             /\ r.lines[k].qty < 0})

assertSufficientStock(r) == \A ln \in LineSet(r) :
    ln.qty < 0 => OnHand(movements, ln.item, ln.loc) >= Demand(r, ln.item, ln.loc)

(***************************************************************************)
(* The transaction of worker w.                                            *)
(***************************************************************************)
Held(w) == {i \in Items : holder[i] = w}

Released(w) == [i \in Items |-> IF holder[i] = w THEN Free ELSE holder[i]]

NoJob == [op |-> "none", lines |-> <<>>]

\* The transaction is over, committed or rolled back.
End(w) ==
    /\ job' = [job EXCEPT ![w] = NoJob]
    /\ draft' = [draft EXCEPT ![w] = <<>>]
    /\ holder' = Released(w)
    /\ UNCHANGED begun

StockInit ==
    /\ job = [w \in Workers |-> NoJob]
    /\ draft = [w \in Workers |-> <<>>]
    /\ holder = [i \in Items |-> Free]
    /\ movements = <<>>
    /\ avg = [i \in Items |-> 0]
    /\ begun = 0

\* A request arrives and passes the checks made before the locks.
Arrive(w) == \E r \in Jobs :
    /\ job[w] = NoJob /\ begun < MaxJobs
    /\ validateAllocations(r)
    /\ job' = [job EXCEPT ![w] = r]
    /\ begun' = begun + 1
    /\ UNCHANGED <<draft, holder, movements, avg>>

\* Mutant: the rows are locked in the order the request names them.
ItemAsAsked(w) ==
    LET missing == {k \in DOMAIN job[w].lines : job[w].lines[k].item \notin Held(w)}
    IN  job[w].lines[Min(missing)].item

\* SELECT .. ORDER BY id FOR UPDATE: the rows are locked one after the other.
NextItem(w) == Min(Needs(job[w]) \ Held(w))

lockItems(w) ==
    /\ Needs(job[w]) # Held(w)
    /\ holder[NextItem(w)] = Free
    /\ holder' = [holder EXCEPT ![NextItem(w)] = w]
    /\ UNCHANGED <<job, draft, movements, avg, begun>>

\* Mutant: the items are read without FOR UPDATE.
ReadUnlocked(w) == job[w] # NoJob

AllLocked(w) == job[w] # NoJob /\ Needs(job[w]) = Held(w)

\* Under the locks: the stock check, the costs read from the log, the inserts.
Insert(w) ==
    /\ AllLocked(w) /\ draft[w] = <<>>
    /\ assertSufficientStock(job[w])
    /\ \E s \in {Inserted(job[w])} :
          draft' = [draft EXCEPT ![w] =
                       <<[rows |-> SubSeq(s.log, Len(movements) + 1, Len(s.log)),
                          avg  |-> s.avg]>>]
    /\ UNCHANGED <<job, holder, movements, avg, begun>>

\* The rows become visible, with the averages of the items they touch.
CommitStock(w) ==
    /\ draft[w] # <<>>
    /\ movements' = movements \o draft[w][1].rows
    /\ avg' = [i \in Items |-> IF i \in Needs(job[w]) THEN draft[w][1].avg[i] ELSE avg[i]]
    /\ End(w)

\* InventoryStockError: the transaction rolls back.
OutOfStock(w) ==
    /\ AllLocked(w) /\ draft[w] = <<>>
    /\ ~assertSufficientStock(job[w])
    /\ End(w)
    /\ UNCHANGED <<movements, avg>>

\* The transaction times out or the process dies: the database rolls back.
RollBack(w) ==
    /\ job[w] # NoJob
    /\ End(w)
    /\ UNCHANGED <<movements, avg>>

StockNext == \E w \in Workers :
    Arrive(w) \/ lockItems(w) \/ Insert(w) \/ CommitStock(w) \/ OutOfStock(w) \/ RollBack(w)

StockSpec == StockInit /\ [][StockNext]_stockVars

\* The database serves a begun transaction and hands it the locks that fall free.
StockFairness == \A w \in Workers :
    WF_stockVars(lockItems(w)) /\ WF_stockVars(Insert(w) \/ CommitStock(w) \/ OutOfStock(w))

FairStock == StockSpec /\ StockFairness

(***************************************************************************)
(* Properties.                                                             *)
(***************************************************************************)
\* A row of the log.
Row == {m \in [item : Items, loc : Locations, type : Types, qty : Int, worth : Nat,
               line : Lines \cup {NoLine}] :
           /\ m.qty # 0
           /\ m.type \in {"receive", "produce", "return_in"} => m.qty > 0
           /\ m.type \in {"ship", "consume"} => m.qty < 0}

\* Every variable stays in its range; row locks belong to live transactions
\* (lockItem, lockItems) and rows are inserted only under all of them.
StockTypeOK ==
    /\ job \in [Workers -> Jobs \cup {NoJob}]
    /\ holder \in [Items -> Workers \cup {Free}]
    /\ movements \in Seq(Row)
    /\ avg \in [Items -> Nat] /\ begun \in 0..MaxJobs
    /\ DOMAIN draft = Workers
    /\ \A w \in Workers :
          /\ Held(w) \subseteq Needs(job[w])
          /\ draft[w] # <<>> =>
                /\ AllLocked(w)
                /\ draft[w] = <<[rows |-> draft[w][1].rows, avg |-> draft[w][1].avg]>>
                /\ draft[w][1].rows \in Seq(Row) /\ draft[w][1].avg \in [Items -> Nat]

NoShortage(log, i) == \A l \in Locations : OnHand(log, i, l) >= 0

\* Stock on hand per item and location never goes below zero (the header of
\* inventory.service.ts), whatever operations race on the same shelf.
NeverBelowZero == \A i \in Items : NoShortage(movements, i)

InLayers(log, i) == Units(buildFifoLayers(log, i)) = OnHandTotal(log, i)

\* The units in an item's FIFO layers are the units on hand in the whole book
\* (buildFifoLayers): adjustments without a cost, transfers between locations
\* and returns leave the two in step, so no consumption falls back to avg_cost.
LayersMatchStock == \A i \in Items : InLayers(movements, i)

WorthIn(log, i) ==
    SumFunctionOnSet(Worths(log), {k \in DOMAIN log : log[k].item = i /\ log[k].qty > 0})

WorthOut(log, i) ==
    SumFunctionOnSet(Worths(log), {k \in DOMAIN log : log[k].item = i /\ log[k].qty < 0})

LayersWorth(layers) ==
    SumFunctionOnSet([k \in DOMAIN layers |-> layers[k].qty * layers[k].unit], DOMAIN layers)

AtCost(log, i) == WorthIn(log, i) = WorthOut(log, i) + LayersWorth(buildFifoLayers(log, i))

\* What came in at cost has either left at that cost or still lies in a layer
\* (consumptionUnitCost, computeFifoConsumption): no unit of a FIFO item is
\* relieved twice, or at another unit's cost, by requests that race.
ValueConserved == \A i \in Fifo : AtCost(movements, i)

\* An entry is fulfilled "across several calls/locations, but never beyond its
\* invoiced quantity" (fulfillInvoiceLines).
FulfilledWithinInvoice == \A e \in Lines : Fulfilled(movements, e) <= Quantity[e]

\* returnToStock "rejects returns exceeding the net fulfilled quantity per entry".
ReturnedWithinFulfilled == \A e \in Lines : Fulfilled(movements, e) >= 0

\* A bill's entry is received "across several calls/locations, but never beyond
\* its billed quantity" (receiveFromBill).
ReceivedWithinBill == \A e \in Lines : Received(movements, e) <= Quantity[e]

DocumentsKept(log) == \A e \in Lines :
    Fulfilled(log, e) \in 0..Quantity[e] /\ Received(log, e) <= Quantity[e]

\* The inductive invariant of the stock.  The rows that a transaction has inserted,
\* put after the log, leave its items in order whatever others commit meanwhile:
\* they cannot touch them.
InOrder(log, i) == NoShortage(log, i) /\ InLayers(log, i) /\ (i \in Fifo => AtCost(log, i))

View(w) == movements \o draft[w][1].rows

StockInv ==
    /\ StockTypeOK
    /\ \A i \in Items : InOrder(movements, i)
    /\ \A w \in Workers : draft[w] # <<>> =>
          /\ \A k \in DOMAIN draft[w][1].rows : draft[w][1].rows[k].item \in Needs(job[w])
          /\ \A i \in Needs(job[w]) : InOrder(View(w), i)

\* The same of the documents, for requests that come one at a time.
OneJobAtATime == \A v, w \in Workers : job[v] # NoJob /\ job[w] # NoJob => v = w

DocumentsInv ==
    /\ DocumentsKept(movements)
    /\ \A w \in Workers : /\ job[w] # NoJob => validateAllocations(job[w])
                          /\ draft[w] # <<>> => DocumentsKept(View(w))

\* Requests that lock several items never wait for each other for ever: every
\* transaction commits or rolls back (lockItems, "deadlock-safe").
EveryJobEnds == \A w \in Workers : job[w] # NoJob ~> job[w] = NoJob
=============================================================================
