------------------------------- MODULE MCDocuments -------------------------------
(***************************************************************************)
(* The requests about invoices and stock of which the instances for TLC    *)
(* are made, in MCBusiness and in MCProgress.                              *)
(***************************************************************************)
EXTENDS Integers, TLC

CONSTANT None

Only(S, f) == [r \in S |-> f[r]]

\* y3 is a retry of the payment y1, which applies to the oldest.
InvoiceKind == [u1 |-> "update", x1 |-> "delete", p1 |-> "post", p2 |-> "post",
                n1 |-> "unpost", n2 |-> "unpost", y1 |-> "pay", y2 |-> "pay", y3 |-> "pay"]
InvoiceTarget == [r \in DOMAIN InvoiceKind |-> IF r = "n2" THEN 2 ELSE 1]
InvoicePayment == [r \in DOMAIN InvoiceKind |-> IF r = "y2" THEN "second" ELSE "first"]
PaymentAmount == [first |-> 3, second |-> 2]
PayRequests == {"y1", "y2", "y3", "n1", "n2"}

\* One entry each of an invoice and a bill, of two units.
L(item, type, loc, qty, cost, line) ==
    [item |-> item, type |-> type, loc |-> loc, to |-> loc,
     qty |-> qty, cost |-> cost, line |-> line]
R(op, lines) == [op |-> op, lines |-> lines]
Plain(type, item, loc, qty, cost) == R("plain", <<L(item, type, loc, qty, cost, None)>>)
Transfer(item, from, to, qty) ==
    R("plain", <<[L(item, "transfer", from, -qty, None, None) EXCEPT !.to = to]>>)
\* One batch takes two of item 2 and makes one of item 1.
Assemble(loc) ==
    R("plain", <<L(2, "consume", loc, -2, None, None), L(1, "produce", loc, 1, None, None)>>)
Fulfil(loc, qty) == R("fulfil", <<L(1, "ship", loc, -qty, None, "invoiced")>>)
Return(loc, qty) == R("return", <<L(1, "return_in", loc, qty, None, "invoiced")>>)
FromBill(loc, qty) == R("receive", <<L(1, "receive", loc, qty, 3, "billed")>>)
TwoUnits == [invoiced |-> 2, billed |-> 2]
=================================================================================
