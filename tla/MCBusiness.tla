------------------------------- MODULE MCBusiness -------------------------------
(***************************************************************************)
(* Instances for TLC of the modules about business documents, stock and    *)
(* the period lock.  They do not interact: a run explores one scenario     *)
(* after another, each of one module, while the others rest.  Invoices and *)
(* Inventory have several instances, which share the variables s1 to s7.   *)
(***************************************************************************)
EXTENDS PeriodLock, StripeEvents, RecurringInvoices, DocNumbers, MCDocuments

CONSTANTS r1, r2, d1, d2, d3, l1, l2, l3, f1, f2

VARIABLES scenario,  \* which never changes
          s1, s2, s3, s4, s5, s6, s7
slots == <<s1, s2, s3, s4, s5, s6, s7>>

---------------------------------------------------------------------------------
(* PeriodLock: in the first process a request that asks past the cache and  *)
(* one that does not; in the second one for a later date.                   *)

LockProcOf == [save |-> "web", undo |-> "web", payslip |-> "worker"]
LockDateOf == [save |-> 1, undo |-> 1, payslip |-> 2]

(* DocNumbers: three documents of one kind and two of another.              *)

NumbersKindOf == [i1 |-> "invoice", i2 |-> "invoice", i3 |-> "invoice", b1 |-> "bill",
                  b2 |-> "bill"]

---------------------------------------------------------------------------------
(* Invoices.                                                                *)

PostRequests == {"p1", "p2", "n1", "n2", "u1", "y1", "y2"}

\* The second of two documents is posted.
Postings == INSTANCE Invoices WITH
    Docs <- {1, 2}, PostedFirst <- {2}, Lots <- {l1, l2, l3}, NoLot <- None, NoDoc <- 0,
    Requests <- PostRequests, NoRequest <- None, Kind <- Only(PostRequests, InvoiceKind),
    Target <- Only(PostRequests, InvoiceTarget), PayOf <- Only(PostRequests, InvoicePayment),
    Payments <- {"first", "second"}, AmountOf <- PaymentAmount, FifoPayments <- {"first"},
    Totals <- {2, 3}, MaxDrops <- 1,
    doc <- s1, lot <- s2, paid <- s3, there <- s4, lock <- s5, req <- s6, drops <- s7

\* Both are.
Paying == INSTANCE Invoices WITH
    Docs <- {1, 2}, PostedFirst <- {1, 2}, Lots <- {l1, l2}, NoLot <- None, NoDoc <- 0,
    Requests <- PayRequests, NoRequest <- None, Kind <- Only(PayRequests, InvoiceKind),
    Target <- Only(PayRequests, InvoiceTarget), PayOf <- Only(PayRequests, InvoicePayment),
    Payments <- {"first", "second"}, AmountOf <- PaymentAmount, FifoPayments <- {"first"},
    Totals <- {2, 3}, MaxDrops <- 1,
    doc <- s1, lot <- s2, paid <- s3, there <- s4, lock <- s5, req <- s6, drops <- s7

\* A draft that is edited and deleted, posted and unposted.
DraftRequests == {"u1", "x1", "p1", "n1"}
Draft == INSTANCE Invoices WITH
    Docs <- {1, 2}, PostedFirst <- {}, Lots <- {l1, l2}, NoLot <- None, NoDoc <- 0,
    Requests <- DraftRequests, NoRequest <- None, Kind <- Only(DraftRequests, InvoiceKind),
    Target <- Only(DraftRequests, InvoiceTarget), PayOf <- Only(DraftRequests, InvoicePayment),
    Payments <- {"first", "second"}, AmountOf <- PaymentAmount, FifoPayments <- {"first"},
    Totals <- {2, 3}, MaxDrops <- 0,
    doc <- s1, lot <- s2, paid <- s3, there <- s4, lock <- s5, req <- s6, drops <- s7

---------------------------------------------------------------------------------
(* Inventory: two items and two locations.                                  *)

ShelfRequests ==
    {Plain("receive", 1, "depot", 2, 1), Plain("receive", 1, "depot", 1, 4),
     Plain("receive", 1, "shop", 1, None), Plain("ship", 1, "depot", -2, None),
     Plain("adjust", 1, "shop", -1, None), Plain("adjust", 1, "shop", 1, None),
     Transfer(1, "depot", "shop", 1)}
Shelves == INSTANCE Inventory WITH
    Workers <- {"w1", "w2"}, Items <- {1, 2}, Locations <- {"shop", "depot"}, Fifo <- {1, 2},
    Lines <- {"invoiced", "billed"}, Quantity <- TwoUnits, Jobs <- ShelfRequests,
    Free <- None, NoCost <- None, NoLine <- None, MaxJobs <- 4,
    job <- s1, draft <- s2, holder <- s3, movements <- s4, avg <- s5, begun <- s6

\* Assemblies against shipments of both items in the other order.
AssemblyRequests ==
    {Plain("receive", 2, "depot", 2, 1), Plain("receive", 2, "depot", 1, 4),
     Assemble("depot"),
     R("fulfil", <<L(1, "ship", "depot", -1, None, "invoiced"),
                   L(2, "ship", "depot", -1, None, "billed")>>),
     R("fulfil", <<L(2, "ship", "depot", -1, None, "invoiced"),
                   L(2, "ship", "depot", -1, None, "invoiced")>>)}
Assembly == INSTANCE Inventory WITH
    Workers <- {"w1", "w2"}, Items <- {1, 2}, Locations <- {"shop", "depot"}, Fifo <- {2},
    Lines <- {"invoiced", "billed"}, Quantity <- TwoUnits, Jobs <- AssemblyRequests,
    Free <- None, NoCost <- None, NoLine <- None, MaxJobs <- 5,
    job <- s1, draft <- s2, holder <- s3, movements <- s4, avg <- s5, begun <- s6

\* One request after another about the documents.
DocumentRequests ==
    {Plain("receive", 1, "depot", 2, 1), FromBill("depot", 2), FromBill("shop", 1),
     Fulfil("depot", 2), Fulfil("shop", 1), Return("depot", 1), Return("depot", 2)}
Documents == INSTANCE Inventory WITH
    Workers <- {"w1"}, Items <- {1, 2}, Locations <- {"shop", "depot"}, Fifo <- {1},
    Lines <- {"invoiced", "billed"}, Quantity <- TwoUnits, Jobs <- DocumentRequests,
    Free <- None, NoCost <- None, NoLine <- None, MaxJobs <- 6,
    job <- s1, draft <- s2, holder <- s3, movements <- s4, avg <- s5, begun <- s6

ASSUME /\ LockAssumption /\ StripeAssumption /\ RecurringAssumption /\ NumbersAssumption
       /\ Postings!InvoicesAssumption /\ Paying!InvoicesAssumption
       /\ Draft!InvoicesAssumption
       /\ Shelves!StockAssumption /\ Assembly!StockAssumption
       /\ Documents!StockAssumption

---------------------------------------------------------------------------------
(* A run.                                                                   *)

NoSlots == /\ s1 = None /\ s2 = None /\ s3 = None /\ s4 = None
           /\ s5 = None /\ s6 = None /\ s7 = None

BusinessInit ==
    /\ LockInit /\ StripeInit /\ RecurringInit /\ NumbersInit
    /\ \/ scenario \in {"lock", "stripe", "recurring", "numbers"} /\ NoSlots
       \/ scenario = "postings" /\ Postings!Init
       \/ scenario = "payments" /\ Paying!Init
       \/ scenario = "draft" /\ Draft!Init
       \/ scenario = "stock" /\ Shelves!StockInit /\ s7 = None
       \/ scenario = "assembly" /\ Assembly!StockInit /\ s7 = None
       \/ scenario = "documents" /\ Documents!StockInit /\ s7 = None
    /\ scenario # "numbers" => frames = {}

Apart == UNCHANGED <<lockVars, stripeVars, recurringVars, numbersVars>>

BusinessNext ==
    /\ UNCHANGED scenario
    /\ \/ /\ scenario = "lock" /\ LockNext
          /\ UNCHANGED <<stripeVars, recurringVars, numbersVars, slots>>
       \/ /\ scenario = "stripe" /\ StripeNext
          /\ UNCHANGED <<lockVars, recurringVars, numbersVars, slots>>
       \/ /\ scenario = "recurring" /\ RecurringNext
          /\ UNCHANGED <<lockVars, stripeVars, numbersVars, slots>>
       \/ /\ scenario = "numbers" /\ NumbersNext
          /\ UNCHANGED <<lockVars, stripeVars, recurringVars, slots>>
       \/ scenario = "postings" /\ Postings!Next /\ Apart
       \/ scenario = "payments" /\ Paying!Next /\ Apart
       \/ scenario = "draft" /\ Draft!Next /\ Apart
       \/ scenario = "stock" /\ Shelves!StockNext /\ Apart /\ UNCHANGED s7
       \/ scenario = "assembly" /\ Assembly!StockNext /\ Apart /\ UNCHANGED s7
       \/ scenario = "documents" /\ Documents!StockNext /\ Apart /\ UNCHANGED s7

all == <<scenario, lockVars, stripeVars, recurringVars, numbersVars, slots>>
BusinessSpec == BusinessInit /\ [][BusinessNext]_all

Symmetry == Permutations({r1, r2}) \cup Permutations({d1, d2, d3}) \cup Permutations({f1, f2})

---------------------------------------------------------------------------------
(* What Invoices and Inventory promise, in the scenarios where it holds.    *)

\* Every variable has its type, in every scenario.
BusinessTypeOK ==
    /\ LockTypeOK /\ StripeTypeOK /\ RecurringTypeOK /\ NumbersTypeOK
    /\ scenario = "postings" => Postings!TypeOK
    /\ scenario = "payments" => Paying!TypeOK
    /\ scenario = "draft" => Draft!TypeOK
    /\ scenario = "stock" => Shelves!StockTypeOK
    /\ scenario = "assembly" => Assembly!StockTypeOK
    /\ scenario = "documents" => Documents!StockTypeOK

\* postInvoice, unpostInvoice, applyPayment: the ledger holds one standing posting
\* for each posted document and none for a draft, however requests overlap; a
\* payment is applied in full, whatever was owed when it began, and no lot is paid
\* more than was posted into it (when no document is posted meanwhile).
InvoicesAddUp ==
    /\ scenario = "postings" => Postings!LedgerAgrees
    /\ scenario = "draft" => Draft!LedgerAgrees
    /\ scenario = "payments" =>
         Paying!LedgerAgrees /\ Paying!AppliedInFull /\ Paying!NeverOverpaid

\* Whatever races, no shelf goes below zero, an item's FIFO layers hold the units
\* on hand (buildFifoLayers), and what came in at cost has left at that cost or
\* lies in a layer; and requests that come one at a time never fulfil, return or
\* receive beyond a document's quantity, across several calls and locations.
StockAddsUp ==
    /\ scenario = "stock" => /\ Shelves!NeverBelowZero /\ Shelves!LayersMatchStock
                             /\ Shelves!ValueConserved
    /\ scenario = "assembly" => Assembly!NeverBelowZero /\ Assembly!ValueConserved
    /\ scenario = "documents" => /\ Documents!FulfilledWithinInvoice
                                 /\ Documents!ReturnedWithinFulfilled
                                 /\ Documents!ReceivedWithinBill
=================================================================================
