------------------------------- MODULE MCProgress -------------------------------
(***************************************************************************)
(* What must happen in the end, under each module's own fairness: payments, *)
(* recurring invoices, document numbers, a Stripe event, stock, a statement *)
(* whose extraction died, a bank connection that shows rows late, and a     *)
(* reconciliation that meets another one or a bulk recategorize.  The       *)
(* modules share the variables s1 to s12, each taking as many as it has.    *)
(***************************************************************************)
EXTENDS MCDocuments

CONSTANTS r1, r2, d1, d2, l1, l2, f1, f2, chk, sav, food, c1, t1, t2, NoRun, NoFeed, NoTxn,
          NoAccount

VARIABLES scenario,  \* which never changes
          s1, s2, s3, s4, s5, s6, s7, s8, s9, s10, s11, s12

everything == <<scenario, s1, s2, s3, s4, s5, s6, s7, s8, s9, s10, s11, s12>>

---------------------------------------------------------------------------------

\* Two posted documents that are paid and unposted.
Paying == INSTANCE Invoices WITH
    Docs <- {1, 2}, PostedFirst <- {1, 2}, Lots <- {l1, l2}, NoLot <- None, NoDoc <- 0,
    Requests <- PayRequests, NoRequest <- None, Kind <- Only(PayRequests, InvoiceKind),
    Target <- Only(PayRequests, InvoiceTarget), PayOf <- Only(PayRequests, InvoicePayment),
    Payments <- {"first", "second"}, AmountOf <- PaymentAmount, FifoPayments <- {"first"},
    Totals <- {2, 3}, MaxDrops <- 1,
    doc <- s1, lot <- s2, paid <- s3, there <- s4, lock <- s5, req <- s6, drops <- s7

\* Two runs that miss days.
Recurring == INSTANCE RecurringInvoices WITH
    Runs <- {r1, r2}, Editors <- {}, LastDay <- 3, MaxCatchup <- 2, AutoPost <- TRUE,
    MaxEdits <- 0, MaxMishaps <- 2, MaxErrors <- 1,
    def <- s1, made <- s2, posted <- s3, reported <- s4, run <- s5, editing <- s6, today <- s7,
    edits <- s8, mishaps <- s9, errors <- s10, skipped <- s11, setBack <- s12

\* Three documents of one kind, with the frame or without.
Invoiced == {"i1", "i2", "i3"}
Numbers == INSTANCE DocNumbers WITH
    Kinds <- {"invoice"}, Requests <- Invoiced, NoHolder <- None,
    KindOf <- [r \in Invoiced |-> "invoice"],
    Frames <- {f1, f2}, NoFrame <- None, Oldest <- 4, NoValue <- None,
    frames <- s1, slot <- s2, docs <- s3, advisory <- s4, rowLock <- s5, req <- s6

Stripe == INSTANCE StripeEvents WITH
    Deliveries <- {d1, d2}, Fee <- TRUE, MaxFaults <- 3, MaxDeaths <- 2,
    row <- s1, payment <- s2, fee <- s3, pc <- s4, saw <- s5, reply <- s6,
    slow <- s7, hasty <- s8, faults <- s9, deaths <- s10

\* Requests for both items, named in either order.
TwoItemRequests ==
    {R("receive", <<L(1, "receive", "depot", 1, 3, "billed"),
                    L(2, "receive", "depot", 1, 3, "billed")>>),
     R("receive", <<L(2, "receive", "depot", 1, 3, "billed"),
                    L(1, "receive", "depot", 1, 3, "billed")>>),
     R("fulfil", <<L(2, "ship", "depot", -1, None, "invoiced")>>), Assemble("depot")}
TwoItems == INSTANCE Inventory WITH
    Workers <- {"w1", "w2", "w3"}, Items <- {1, 2}, Locations <- {"shop", "depot"}, Fifo <- {},
    Lines <- {"invoiced", "billed"}, Quantity <- TwoUnits, Jobs <- TwoItemRequests,
    Free <- None, NoCost <- None, NoLine <- None, MaxJobs <- 4,
    job <- s1, draft <- s2, holder <- s3, movements <- s4, avg <- s5, begun <- s6

\* Two executions, a list, an assignment, one crash, one recovery attempt.
Statement == INSTANCE StatementIngest WITH
    Runs <- {r1, r2}, Callers <- {"q1", "q2"}, CallOf <- [q1 |-> "list", q2 |-> "assign"],
    MaxAttempts <- 1, MaxCrashes <- 1,
    status <- s1, marker <- s2, due <- s3, age <- s4, closing <- s5, lines <- s6, pc <- s7,
    job <- s8, snap <- s9, kept <- s10, req <- s11, crashes <- s12

\* A transfer of 5 seen from both accounts, its second leg a day later, six days,
\* and a period lock.
Feed == INSTANCE SimpleFinSync WITH
    Conns <- {c1}, Runs <- {r1}, ConnOf <- r1 :> c1, Accounts <- {chk, sav, food},
    Mapped <- c1 :> {chk, sav}, Guesses <- {food}, Feeds <- {f1, f2},
    AccountOf <- f1 :> chk @@ f2 :> sav, AmountOf <- f1 :> -5 @@ f2 :> 5,
    DayOf <- f1 :> 1 @@ f2 :> 2, OfferedBy <- f1 :> {c1} @@ f2 :> {c1},
    Txns <- {t1, t2}, Entered <- <<>>,
    Window <- 1, Overlap <- 2, Lookback <- 3, Late <- 1,
    MaxDay <- 5, MaxFailures <- 2, MaxEdits <- 0, MaxDeaths <- 1, LockDates <- {},
    ledger <- s1, meta <- s2, kept <- s3, cursor <- s4, lock <- s5, run <- s6,
    lockDate <- s7, now <- s8, shown <- s9, budget <- s10, conns <- s11

\* A finalize, which may create an adjustment, and one more request, over two
\* transactions of which the first has splits in two accounts.
Calls == "f1" :> "finalize" @@ "f2" :> "finalize" @@ "b2" :> "recategorize"
Reconcile(q) == INSTANCE Ledger WITH
    Reqs <- {"f1", q}, Op <- Only({"f1", q}, Calls), NoReq <- "none",
    Txns <- 1..4, Splits <- 1..5, Parent <- <<1, 1, 2, 3, 4>>, Accounts <- {"a", "b"},
    Amounts <- {1}, Dates <- {1}, Descs <- {"x"}, Replace <- [x |-> "x"],
    PutStates <- {"n"}, Deltas <- {0, 1},
    InitTx <- [t \in 1..4 |-> [status |-> IF t < 3 THEN "live" ELSE "unborn", date |-> 1,
                               desc |-> "x", ver |-> 0]],
    InitSplit <- [s \in 1..5 |-> [live |-> s < 4, acct |-> IF s = 2 THEN "b" ELSE "a",
                                  amt |-> IF s < 4 THEN 1 ELSE 0, state |-> "n"]],
    tx <- s1, split <- s2, rowLock <- s3, advLock <- s4, lockDate <- s5, pc <- s6, todo <- s7,
    arg <- s8, seen <- s9, sums <- s10, floor <- s11
Others == {"f2", "b2"}   \* s12 is the one that is made

ASSUME /\ Paying!InvoicesAssumption /\ Recurring!RecurringAssumption
       /\ Numbers!NumbersAssumption /\ Stripe!StripeAssumption
       /\ TwoItems!StockAssumption /\ Feed!SyncAssumption /\ Statement!IngestAssumption
       /\ \A q \in Others : Reconcile(q)!LedgerAssumption

---------------------------------------------------------------------------------

\* The variables that a module with n of its own leaves.
Few == s11 = None /\ s12 = None
Spare(n) == /\ n < 7 => s7 = None
            /\ n < 10 => s8 = None /\ s9 = None /\ s10 = None
Six == UNCHANGED <<s7, s8, s9, s10>>
Seven == UNCHANGED <<s8, s9, s10>>

ProgressInit ==
    \/ scenario = "payments" /\ Paying!Init /\ Spare(7) /\ Few
    \/ scenario = "recurring" /\ Recurring!RecurringInit
    \/ scenario = "numbers" /\ Numbers!NumbersInit /\ Spare(6) /\ Few
    \/ scenario = "stripe" /\ Stripe!StripeInit /\ Few
    \/ scenario = "two items" /\ TwoItems!StockInit /\ Spare(6) /\ Few
    \/ scenario = "late" /\ Feed!Init /\ s11 = {c1} /\ s12 = None
    \/ scenario = "statement" /\ Statement!Init
    \/ scenario = "finalize" /\ \E q \in Others : s12 = q /\ Reconcile(q)!Init

\* The scenarios' steps, with the variables that are not theirs.
Pay(A) == scenario = "payments" /\ A /\ Seven
Recur(A) == scenario = "recurring" /\ A
Number(A) == scenario = "numbers" /\ A /\ Six
Deliver(A) == scenario = "stripe" /\ A
Keep(A) == scenario = "two items" /\ A /\ Six
Sync(A) == scenario = "late" /\ A
Parse(A) == scenario = "statement" /\ A
Beside(q, A) == scenario = "finalize" /\ s12 = q /\ A
Rest == UNCHANGED <<scenario, s11, s12>>
Same == UNCHANGED <<scenario, s12>>

ProgressNext ==
    \/ /\ Rest
       /\ \/ Pay(Paying!Next) \/ Recur(Recurring!RecurringNext) \/ Number(Numbers!NumbersNext)
          \/ Deliver(Stripe!StripeNext) \/ Keep(TwoItems!StockNext) \/ Sync(Feed!Next)
    \/ UNCHANGED scenario /\ Parse(Statement!Next)
    \/ Same /\ \E q \in Others : Beside(q, Reconcile(q)!Next)

\* The fairness of each module, or less.  A run has one scenario, so what is
\* fair in several of them is stated once: what the first and the second actor
\* of a scenario, or any of its requests, has begun goes on ...
FirstGoesOn ==
    \/ /\ Rest
       /\ \/ Pay(\E r \in PayRequests : s6[r].at # "new" /\ Paying!Step(r))
          \/ Number(\E r \in Invoiced : s6[r].at # "new" /\ Numbers!Serve(r))
          \/ Keep(\E w \in {"w1", "w2", "w3"} : \/ TwoItems!lockItems(w) \/ TwoItems!Insert(w)
                                               \/ TwoItems!CommitStock(w) \/ TwoItems!OutOfStock(w))
          \/ Recur(Recurring!GoOn(r1)) \/ Deliver(Stripe!Proceed(d1)) \/ Sync(Feed!Work(r1))
    \/ UNCHANGED scenario /\ Parse(Statement!Step(r1))
    \/ Same /\ \E q \in Others : Beside(q, Reconcile(q)!InTransaction("f1"))
SecondGoesOn ==
    \/ Rest /\ (Recur(Recurring!GoOn(r2)) \/ Deliver(Stripe!Proceed(d2)))
    \/ UNCHANGED scenario /\ Parse(Statement!Step(r2) \/ Statement!Assign("q2"))
    \/ Same /\ \E q \in Others : Beside(q, Reconcile(q)!InTransaction(q))
\* ... syncs begin runs, Stripe delivers, somebody lists the statements, the
\* bank shows its rows, again and again ...
Begins ==
    \/ /\ Rest
       /\ \/ Recur(\E r \in {r1, r2} : Recurring!Begin(r))
          \/ Deliver(\E d \in {d1, d2} : Stripe!Deliver(d) \/ Stripe!Again(d))
          \/ Sync(\E f \in {f1, f2} : Feed!Show(f))
    \/ UNCHANGED scenario /\ Parse(Statement!Recover("q1"))
\* ... and time passes.
Passes ==
    \/ Rest /\ (Recur(Recurring!NextDay) \/ Deliver(Stripe!FiveMinutes))
    \/ UNCHANGED scenario /\ Parse(Statement!TimePasses)

ProgressFairness ==
    /\ WF_everything(FirstGoesOn) /\ WF_everything(SecondGoesOn)
    /\ WF_everything(Begins) /\ WF_everything(Passes)
    /\ SF_everything(Rest /\ Sync(Feed!Fetch(r1)))
    /\ SF_everything(Rest /\ Sync(Feed!Tick))

ProgressSpec == ProgressInit /\ [][ProgressNext]_everything /\ ProgressFairness

---------------------------------------------------------------------------------

\* Locks are not waited for in a circle: each request that has begun is answered,
\* of those that lock documents (applyPayment, unpostInvoice), the counter's
\* advisory lock and its slot (nextDocumentNumber), items (lockItems), or an
\* account to reconcile and rows (finalizeReconciliation, the bulk edits).
RequestsEnd ==
    <>[](/\ scenario = "payments" => \A r \in PayRequests : s6[r].at \in {"new", "done"}
         /\ scenario = "numbers" =>
              \A r \in Invoiced : s6[r].at \in {"new", "done"}
         /\ scenario = "two items" => \A w \in DOMAIN s1 : s1[w] = TwoItems!NoJob
         /\ scenario = "finalize" =>
              \A r \in {"f1", s12} : s6[r] \in {"idle", "loaded", "done"})

\* What was missed, failed or died halfway is made good.  However many
\* occurrences were missed, a recurring definition catches up; a paid event is in
\* the ledger with its fee (if no delivery was slow or hasty); a row that the bank shows in time is recorded, unless
\* it failed until it was older than the lookback.
WorkIsMadeGood ==
    /\ <>(scenario = "recurring" => Recurring!UpToDate)
    /\ <>[](scenario = "stripe" => Stripe!InTheBooks \/ s7 \/ s8)
    /\ <>(scenario = "late" => \A f \in {f1, f2} : Feed!AccountedFor(f))

\* Statement recovery: a batch is not left in 'parsing' by a worker that died or
\* by a request that wrote an old status back; it gets out, or its budget is spent.
NoStuckParsing ==
    (scenario = "statement" /\ s1 = "parsing")
       ~> (scenario = "statement" /\ (s1 # "parsing" \/ s2 = 1))
=================================================================================
