----------------------------- MODULE Invoices -----------------------------
(***************************************************************************)
(* Posting, unposting and paying the documents of one owner                 *)
(* (src/src/lib/business/invoice-engine.ts).  A post writes a receivable    *)
(* into a lot of its own, an unpost a reversal into the same lot, a payment *)
(* splits into the lots it pays; what is due is what a lot sums to.         *)
(*                                                                         *)
(* PostgreSQL at READ COMMITTED.  A step that takes no row lock and the     *)
(* write that ends a transaction are one step each; a row lock is held from *)
(* the step that takes it to the commit.  All documents have one currency   *)
(* and one post date, so that guids (numbers here) order them.              *)
(***************************************************************************)
EXTENDS Integers, FiniteSets, Functions

CONSTANTS
    Docs,               \* guids of the owner's invoices, as numbers
    Lots, NoLot, NoDoc,
    Requests, NoRequest,
    Kind,               \* what a request does
    Target,             \* the document that it names, if it does
    Payments, PayOf,    \* guids of payments: a retry carries the same one
    AmountOf,           \* the amount of a payment
    FifoPayments,       \* payments without explicit allocations
    Totals,             \* totals that an edit of the lines may give
    PostedFirst,        \* the documents that are posted at the beginning
    MaxDrops            \* payments that the user deletes from the ledger

\* Assumed by the modules that instantiate this one.
InvoicesAssumption ==
    /\ IsFiniteSet(Docs) /\ IsFiniteSet(Lots) /\ IsFiniteSet(Payments)
    /\ Docs \subseteq Nat /\ PostedFirst \subseteq Docs /\ NoDoc \notin Docs
    /\ NoLot \notin Lots /\ NoRequest \notin Requests
    /\ \E f \in [PostedFirst -> Lots] : \A d, e \in PostedFirst : f[d] = f[e] => d = e
    /\ Kind \in [Requests -> {"update", "delete", "post", "unpost", "pay"}]
    /\ Target \in [Requests -> Docs] /\ PayOf \in [Requests -> Payments]
    /\ AmountOf \in [Payments -> Nat \ {0}] /\ FifoPayments \subseteq Payments
    /\ Totals \subseteq Nat \ {0} /\ Totals # {}

VARIABLES
    doc,    \* invoices: status, the total of its lines, post_lot
    lot,    \* lots: the document posted into it, its amount, reversed or not
    paid,   \* what a payment's splits put into each lot
    there,  \* the payments in the ledger
    lock,   \* the holder of an invoice's row lock
    req,    \* a request: its place, and what it has read
    drops

vars == <<doc, lot, paid, there, lock, req, drops>>

Nothing == [l \in Lots |-> 0]
New == [at |-> "new", todo |-> {}, total |-> 0, alloc |-> Nothing]

\* One lot for each document posted at the beginning.
LotOf == CHOOSE f \in [PostedFirst -> Lots] : \A d, e \in PostedFirst : f[d] = f[e] => d = e
First == CHOOSE t \in Totals : TRUE

Init ==
    /\ doc = [d \in Docs |-> IF d \in PostedFirst
                             THEN [status |-> "posted", total |-> First, lot |-> LotOf[d]]
                             ELSE [status |-> "draft", total |-> First, lot |-> NoLot]]
    /\ lot = [l \in Lots |->
         IF \E d \in PostedFirst : LotOf[d] = l
         THEN [of |-> CHOOSE d \in PostedFirst : LotOf[d] = l, amount |-> First, reversed |-> FALSE]
         ELSE [of |-> NoDoc, amount |-> 0, reversed |-> FALSE]]
    /\ paid = [p \in Payments |-> Nothing] /\ there = {}
    /\ lock = [d \in Docs |-> NoRequest]
    /\ req = [r \in Requests |-> New]
    /\ drops = MaxDrops

\* Who holds a row lock is in the middle of something.
Holders ==
    \A d \in Docs : lock[d] # NoRequest => req[lock[d]].at \in {"locked", "locking", "paying"}

TypeOK ==
    /\ doc \in [Docs -> [status : {"draft", "posted", "deleted"}, total : Totals, lot : Lots \cup {NoLot}]]
    /\ \A d \in Docs : doc[d].status = "posted" => doc[d].lot # NoLot
    /\ lot \in [Lots -> [of : Docs \cup {NoDoc}, amount : Nat, reversed : BOOLEAN]]
    /\ there \subseteq Payments
    /\ \A p \in Payments : /\ paid[p] \in [Lots -> Nat]
                           /\ p \in there <=> paid[p] # Nothing
    /\ lock \in [Docs -> Requests \cup {NoRequest}]
    /\ Holders

---------------------------------------------------------------------------

Unlocked(r) == [d \in Docs |-> IF lock[d] = r THEN NoRequest ELSE lock[d]]
Free(d) == lock[d] = NoRequest
Paid(l) == SumFunctionOnSet([p \in Payments |-> paid[p][l]], there)
\* amountDueFromLotSplits.
Due(l) == (IF lot[l].reversed THEN 0 ELSE lot[l].amount) - Paid(l)

End(r) == req' = [req EXCEPT ![r] = [New EXCEPT !.at = "done"]] /\ lock' = Unlocked(r)
At(r, kinds, place) == Kind[r] \in kinds /\ req[r].at = place

\* updateInvoice and deleteInvoice look at the invoice, with no lock on it.
CheckDraft(r) ==
    /\ At(r, {"update", "delete"}, "new")
    /\ \/ /\ doc[Target[r]].status = "draft"
          /\ req' = [req EXCEPT ![r].at = "checked"] /\ UNCHANGED lock
       \/ doc[Target[r]].status # "draft" /\ End(r)
    /\ UNCHANGED <<doc, lot, paid, there, drops>>

\* The lines are replaced; the UPDATE of the invoice waits for its row lock.
Update(r) ==
    LET d == Target[r]
    IN  /\ At(r, {"update"}, "checked") /\ Free(d)
        /\ \/ doc[d].status # "deleted" /\ \E t \in Totals : doc' = [doc EXCEPT ![d].total = t]
           \/ doc[d].status = "deleted" /\ UNCHANGED doc
        /\ End(r)
        /\ UNCHANGED <<lot, paid, there, drops>>

Delete(r) ==
    LET d == Target[r]
    IN  /\ At(r, {"delete"}, "checked") /\ Free(d)
        /\ doc' = [doc EXCEPT ![d].status = "deleted"]
        /\ End(r)
        /\ UNCHANGED <<lot, paid, there, drops>>

PostUnlocked(r) ==
    LET d == Target[r]
    IN  /\ At(r, {"post"}, "new") /\ Free(d)
        /\ \/ /\ doc[d].status = "draft" /\ UNCHANGED lock
              /\ req' = [req EXCEPT ![r].at = "locked", ![r].total = doc[d].total]
           \/ doc[d].status # "draft" /\ End(r)
        /\ UNCHANGED <<doc, lot, paid, there, drops>>
\* postInvoice: FOR UPDATE, the check, the lines.
PostLock(r) ==
    LET d == Target[r]
    IN  /\ At(r, {"post"}, "new") /\ Free(d)
        /\ \/ /\ doc[d].status = "draft"
              /\ lock' = [lock EXCEPT ![d] = r]
              /\ req' = [req EXCEPT ![r].at = "locked", ![r].total = doc[d].total]
           \/ doc[d].status # "draft" /\ End(r)
        /\ UNCHANGED <<doc, lot, paid, there, drops>>

Post(r) ==
    LET d == Target[r]
    IN  /\ At(r, {"post"}, "locked")
        /\ \E l \in Lots :
             /\ lot[l].of = NoDoc
             /\ lot' = [lot EXCEPT ![l] = [of |-> d, amount |-> req[r].total, reversed |-> FALSE]]
             /\ doc' = [doc EXCEPT ![d].status = "posted", ![d].lot = l]
        /\ End(r)
        /\ UNCHANGED <<paid, there, drops>>

\* unpostInvoice: refused while payments are applied.
UnpostLock(r) ==
    LET d == Target[r]
    IN  /\ At(r, {"unpost"}, "new") /\ Free(d)
        /\ \/ /\ doc[d].status = "posted" /\ Paid(doc[d].lot) = 0
              /\ lock' = [lock EXCEPT ![d] = r]
              /\ req' = [req EXCEPT ![r].at = "locked"]
           \/ (doc[d].status # "posted" \/ Paid(doc[d].lot) # 0) /\ End(r)
        /\ UNCHANGED <<doc, lot, paid, there, drops>>

\* The reversal, and the invoice is a draft again.
Unpost(r) ==
    LET d == Target[r]
    IN  /\ At(r, {"unpost"}, "locked")
        /\ lot' = [lot EXCEPT ![doc[d].lot].reversed = TRUE]
        /\ doc' = [doc EXCEPT ![d].status = "draft", ![d].lot = NoLot]
        /\ End(r)
        /\ UNCHANGED <<paid, there, drops>>

\* applyPayment: the fast path, and the documents to lock.
PayFind(r) ==
    /\ At(r, {"pay"}, "new")
    /\ \/ PayOf[r] \in there /\ End(r)
       \/ /\ PayOf[r] \notin there /\ UNCHANGED lock
          /\ req' = [req EXCEPT ![r].at = "locking",
                                ![r].todo = {d \in Docs : doc[d].status = "posted"}]
    /\ UNCHANGED <<doc, lot, paid, there, drops>>

\* ORDER BY guid FOR UPDATE.
NextToLock(r) == {d \in req[r].todo : \A e \in req[r].todo : d <= e}

PayLock(r) ==
    /\ At(r, {"pay"}, "locking")
    /\ \E d \in NextToLock(r) :
         /\ Free(d)
         /\ req' = [req EXCEPT ![r].todo = req[r].todo \ {d}]
         /\ lock' = [lock EXCEPT ![d] = IF doc[d].status = "deleted" THEN NoRequest ELSE r]
    /\ UNCHANGED <<doc, lot, paid, there, drops>>

\* loadOpenDocuments: the posted documents of this moment.
Open == {d \in Docs : doc[d].status = "posted"}
DueOf(d) == IF d \in Open /\ Due(doc[d].lot) > 0 THEN Due(doc[d].lot) ELSE 0
DueOn(S) == SumFunctionOnSet([d \in Docs |-> DueOf(d)], S)

\* allocatePaymentFifo: what is left for a document once the earlier ones are paid.
FifoShare(amount, d) ==
    LET left == amount - DueOn({e \in Docs : e < d})
    IN  IF left <= 0 THEN 0 ELSE IF left < DueOf(d) THEN left ELSE DueOf(d)
Share(r, d) ==
    LET amount == AmountOf[PayOf[r]]
    IN  IF PayOf[r] \in FifoPayments THEN FifoShare(amount, d)
        ELSE IF d = Target[r] THEN amount ELSE 0
Covered(r) == AmountOf[PayOf[r]] <= DueOn(Docs)
NamedOpen(r) == Target[r] \in Open /\ AmountOf[PayOf[r]] <= DueOf(Target[r])

\* Overpayments and documents that are not open are refused.
Accepted(r) == IF PayOf[r] \in FifoPayments THEN Covered(r) ELSE NamedOpen(r)

\* The check for a retry, and the allocation or a refusal.
PayRead(r) ==
    /\ At(r, {"pay"}, "locking") /\ req[r].todo = {}
    /\ \/ (PayOf[r] \in there \/ ~Accepted(r)) /\ End(r)
       \/ /\ PayOf[r] \notin there /\ Accepted(r) /\ UNCHANGED lock
          /\ req' = [req EXCEPT ![r].at = "paying", ![r].alloc =
               [l \in Lots |-> SumFunctionOnSet([d \in Docs |-> Share(r, d)],
                                                {d \in Open : doc[d].lot = l})]]
    /\ UNCHANGED <<doc, lot, paid, there, drops>>

\* The payment; its guid is a primary key.
Pay(r) ==
    /\ At(r, {"pay"}, "paying")
    /\ \/ /\ PayOf[r] \notin there
          /\ there' = there \cup {PayOf[r]}
          /\ paid' = [paid EXCEPT ![PayOf[r]] = req[r].alloc]
       \/ PayOf[r] \in there /\ UNCHANGED <<paid, there>>
    /\ End(r)
    /\ UNCHANGED <<doc, lot, drops>>

\* The process dies, or the database gives the transaction up.
Abort(r) ==
    /\ req[r].at \notin {"new", "done"} /\ End(r)
    /\ UNCHANGED <<doc, lot, paid, there, drops>>

\* The user deletes a payment from the ledger, which looks at no invoice.
Drop(p) ==
    /\ p \in there /\ drops > 0 /\ drops' = drops - 1
    /\ there' = there \ {p} /\ paid' = [paid EXCEPT ![p] = Nothing]
    /\ UNCHANGED <<doc, lot, lock, req>>

Step(r) == \/ CheckDraft(r) \/ Update(r) \/ Delete(r) \/ PostLock(r) \/ Post(r)
           \/ UnpostLock(r) \/ Unpost(r) \/ PayFind(r) \/ PayLock(r) \/ PayRead(r) \/ Pay(r)

Next == \/ \E r \in Requests : Step(r) \/ Abort(r)
        \/ \E p \in Payments : Drop(p)

\* A begun transaction goes on: the database serves it and grants free locks.
Fairness == \A r \in Requests : WF_vars(req[r].at # "new" /\ Step(r))

Spec == Init /\ [][Next]_vars
FairSpec == Spec /\ Fairness

---------------------------------------------------------------------------

LotsOf(d) == {l \in Lots : lot[l].of = d}

\* The ledger holds a receivable for a posted document, in its own lot, and
\* none for a draft: however posts, unposts and payments overlap, no posting is
\* doubled or left behind.
LedgerAgrees ==
    \A d \in Docs : doc[d].status # "deleted" =>
      {l \in LotsOf(d) : ~lot[l].reversed}
        = (IF doc[d].status = "posted" THEN {doc[d].lot} ELSE {})

\* No lot is paid more than was posted into it and still stands.
NeverOverpaid == \A l \in Lots : Due(l) >= 0

\* A payment is applied in full, whatever the documents owed when it began.
AppliedInFull == \A p \in there : SumFunctionOnSet(paid[p], Lots) = AmountOf[p]

\* What makes LedgerAgrees inductive.  The rows have their types,
DocsTyped ==
    /\ doc \in [Docs -> [status : {"draft", "posted", "deleted"}, total : Totals, lot : Lots \cup {NoLot}]]
    /\ lot \in [Lots -> [of : Docs \cup {NoDoc}, amount : Nat, reversed : BOOLEAN]]
    /\ lock \in [Docs -> Requests \cup {NoRequest}]

\* a request has its fields,
ReqShaped ==
    /\ req = [r \in Requests |-> req[r]]
    /\ \A r \in Requests :
         req[r] = [at |-> req[r].at, todo |-> req[r].todo, total |-> req[r].total, alloc |-> req[r].alloc]

\* and one that is to post or to unpost a document holds its row, which is still
\* as it was when the row was locked.
Held ==
    \A r \in Requests : req[r].at = "locked" =>
        /\ lock[Target[r]] = r
        /\ Kind[r] = "post" => doc[Target[r]].status = "draft" /\ req[r].total \in Totals
        /\ Kind[r] = "unpost" => doc[Target[r]].status = "posted"

PostingsInv == DocsTyped /\ ReqShaped /\ Held /\ LedgerAgrees

\* What makes AppliedInFull inductive: also a payment that is about to be written
\* is allocated in full.
PaymentsTyped ==
    /\ there \subseteq Payments /\ paid \in [Payments -> [Lots -> Nat]]
    /\ \A p \in Payments \ there : paid[p] = Nothing
Allocated ==
    \A r \in Requests : req[r].at = "paying" =>
        req[r].alloc \in [Lots -> Nat] /\ SumFunctionOnSet(req[r].alloc, Lots) = AmountOf[PayOf[r]]

PaymentsInv == PostingsInv /\ PaymentsTyped /\ Allocated /\ AppliedInFull

\* What makes NeverOverpaid inductive where no request posts.  A document that is
\* to be edited or deleted is not posted,
EditedUnposted ==
    \A r \in Requests : Kind[r] \in {"update", "delete"} /\ req[r].at = "checked" =>
        doc[Target[r]].status # "posted"

\* nor is one that is to be unposted paid;
UnpaidReversed ==
    \A r \in Requests : Kind[r] = "unpost" /\ req[r].at = "locked" => Paid(doc[Target[r]].lot) = 0

\* what a payment has not locked it has on its list,
Listed ==
    \A r \in Requests : req[r].at = "locking" =>
        \A d \in Open : d \in req[r].todo \/ lock[d] = r

\* and one that is about to be written has every posted document locked, of which
\* there is one, and exceeds no lot.
Affordable ==
    \A r \in Requests : req[r].at = "paying" =>
        /\ Open # {} /\ \A d \in Open : lock[d] = r
        /\ \A l \in Lots : req[r].alloc[l] <= Due(l)

DuesInv ==
    PaymentsInv /\ EditedUnposted /\ UnpaidReversed /\ Listed /\ Affordable /\ NeverOverpaid

\* The hypothesis: postInvoice, which locks no document that a payment has listed,
\* is not called.
NoPosts == \A r \in Requests : Kind[r] # "post"

\* Requests that wait for each other's row locks are never a circle: each that
\* has begun is answered.
Answered == \A r \in Requests : req[r].at # "new" ~> req[r].at = "done"

===========================================================================
