---------------------------- MODULE StripeEvents ----------------------------
(***************************************************************************)
(* One event of the payment processor and its deliveries                    *)
(* (src/src/lib/business/stripe-webhook.ts).  A delivery claims the event's *)
(* row, books the payment and then the processor's fee under guids derived  *)
(* from the event, and answers 200, or 503 to be delivered again.           *)
(*                                                                         *)
(* A query is one step; applyPayment is one transaction that a second call  *)
(* with the same guid finds done (module Invoices).  The event has a paid   *)
(* session and an invoice; the processor delivers until it hears a 200.     *)
(***************************************************************************)
EXTENDS Integers

CONSTANTS
    Deliveries,
    Fee,                \* the account takes fees and the fee is not zero
    MaxFaults,          \* errors of the database or the processor's API
    MaxDeaths

\* Assumed by the modules that use this one.
StripeAssumption == Fee \in BOOLEAN /\ MaxFaults \in Nat /\ MaxDeaths \in Nat

VARIABLES
    row,        \* gnucash_web_payment_events: status, younger than five minutes
    payment,    \* the payment is in the ledger
    fee,        \* the fee is in the ledger
    pc,         \* where a delivery is
    saw,        \* what its last look at the ledger showed
    reply,      \* the processor has heard a 200
    slow,       \* history: a delivery has worked for five minutes
    hasty,      \* history: one was made before an earlier one was answered, or
                \* within five minutes of one that was lost
    faults, deaths

stripeVars == <<row, payment, fee, pc, saw, reply, slow, hasty, faults, deaths>>

Working == {"claim", "reclaim", "pay", "posted", "loadFee", "lookFee", "putFee",
            "clear", "catch", "fail"}
Places == Working \cup {"waiting", "answered", "refused", "dead"}

StripeInit ==
    /\ row = [status |-> "none", fresh |-> FALSE]
    /\ payment = FALSE /\ fee = FALSE
    /\ pc = [d \in Deliveries |-> "waiting"] /\ saw = [d \in Deliveries |-> FALSE]
    /\ reply = FALSE /\ slow = FALSE /\ hasty = FALSE /\ faults = MaxFaults /\ deaths = MaxDeaths

StripeTypeOK ==
    /\ row \in [status : {"none", "processing", "payment_posted", "failed", "cleared"}, fresh : BOOLEAN]
    /\ payment \in BOOLEAN /\ fee \in BOOLEAN /\ (fee => payment)
    /\ pc \in [Deliveries -> Places] /\ saw \in [Deliveries -> BOOLEAN]
    /\ {reply, slow, hasty} \subseteq BOOLEAN /\ faults \in 0..MaxFaults /\ deaths \in 0..MaxDeaths

---------------------------------------------------------------------------

Go(d, place) == pc' = [pc EXCEPT ![d] = place]

\* The earlier deliveries are answered, or lost five minutes ago.
Busy == \E d \in Deliveries : pc[d] \in Working
Timely == ~Busy /\ (row.fresh => \A d \in Deliveries : pc[d] # "dead")

\* The processor delivers the event until it hears a 200: again after a 503,
\* when a delivery is lost, and when it is not answered in time.
Deliver(d) ==
    /\ pc[d] = "waiting" /\ ~reply /\ Go(d, "claim") /\ hasty' = (hasty \/ ~Timely)
    /\ UNCHANGED <<row, payment, fee, saw, reply, slow, faults, deaths>>

\* INSERT ... ON CONFLICT DO NOTHING.
claimEvent(d) ==
    /\ pc[d] = "claim"
    /\ \/ /\ row.status = "none" /\ Go(d, "pay")
          /\ row' = [status |-> "processing", fresh |-> TRUE]
       \/ row.status # "none" /\ Go(d, "reclaim") /\ UNCHANGED row
    /\ UNCHANGED <<payment, fee, saw, reply, slow, hasty, faults, deaths>>

\* What a later delivery may take up again.
Reclaimable == \/ row.status \in {"payment_posted", "failed"}
               \/ row.status = "processing" /\ ~row.fresh

\* The UPDATE, or the answer "duplicate".
Reclaim(d) ==
    /\ pc[d] = "reclaim"
    /\ \/ /\ Reclaimable /\ Go(d, "pay") /\ UNCHANGED reply
          /\ row' = [status |-> "processing", fresh |-> TRUE]
       \/ ~Reclaimable /\ Go(d, "answered") /\ reply' = TRUE /\ UNCHANGED row
    /\ UNCHANGED <<payment, fee, saw, slow, hasty, faults, deaths>>

\* applyPayment.
Pay(d) ==
    /\ pc[d] = "pay" /\ payment' = TRUE /\ Go(d, "posted")
    /\ UNCHANGED <<row, fee, saw, reply, slow, hasty, faults, deaths>>

\* The payment is linked to the event, and the row says so.
MarkPosted(d) ==
    /\ pc[d] = "posted" /\ Go(d, "loadFee")
    /\ row' = [row EXCEPT !.status = "payment_posted"]
    /\ UNCHANGED <<payment, fee, saw, reply, slow, hasty, faults, deaths>>

\* The processor is asked for its fee; the fee's guid is looked up.
LoadFee(d) ==
    /\ pc[d] = "loadFee" /\ Go(d, IF Fee THEN "lookFee" ELSE "clear")
    /\ UNCHANGED <<row, payment, fee, saw, reply, slow, hasty, faults, deaths>>
LookFee(d) ==
    /\ pc[d] = "lookFee" /\ Go(d, IF fee THEN "clear" ELSE "putFee")
    /\ UNCHANGED <<row, payment, fee, saw, reply, slow, hasty, faults, deaths>>

\* The fee; its guid is a primary key, and a second insert of it throws.
PutFee(d) ==
    /\ pc[d] = "putFee" /\ fee' = TRUE /\ Go(d, IF fee THEN "catch" ELSE "clear")
    /\ UNCHANGED <<row, payment, saw, reply, slow, hasty, faults, deaths>>

MarkCleared(d) ==
    /\ pc[d] = "clear" /\ Go(d, "answered") /\ reply' = TRUE
    /\ row' = [row EXCEPT !.status = "cleared"]
    /\ UNCHANGED <<payment, fee, saw, slow, hasty, faults, deaths>>

\* A call that fails.
Throw(d) ==
    /\ pc[d] \in {"pay", "posted", "loadFee", "lookFee", "putFee", "clear"}
    /\ faults > 0 /\ faults' = faults - 1 /\ Go(d, "catch")
    /\ UNCHANGED <<row, payment, fee, saw, reply, slow, hasty, deaths>>

\* The catch: is the payment there?  Then the row, and a 503.
Catch(d) ==
    /\ pc[d] = "catch" /\ Go(d, "fail") /\ saw' = [saw EXCEPT ![d] = payment]
    /\ UNCHANGED <<row, payment, fee, reply, slow, hasty, faults, deaths>>

MarkFailedAnswered(d) ==
    /\ pc[d] = "fail" /\ Go(d, "answered") /\ reply' = TRUE
    /\ row' = [row EXCEPT !.status = IF saw[d] THEN "payment_posted" ELSE "failed"]
    /\ UNCHANGED <<payment, fee, saw, slow, hasty, faults, deaths>>
MarkFailed(d) ==
    /\ pc[d] = "fail" /\ Go(d, "refused")
    /\ row' = [row EXCEPT !.status = IF saw[d] THEN "payment_posted" ELSE "failed"]
    /\ UNCHANGED <<payment, fee, saw, reply, slow, hasty, faults, deaths>>

\* The slots of the model are few: an ended delivery's is used for a later one.
Again(d) ==
    /\ pc[d] \in {"refused", "dead"} /\ ~reply /\ Go(d, "claim")
    /\ hasty' = (hasty \/ ~Timely)
    /\ UNCHANGED <<row, payment, fee, saw, reply, slow, faults, deaths>>

Crash(d) ==
    /\ pc[d] \in Working /\ deaths > 0 /\ deaths' = deaths - 1 /\ Go(d, "dead")
    /\ UNCHANGED <<row, payment, fee, saw, reply, slow, hasty, faults>>

\* received_at is five minutes old.
FiveMinutes ==
    /\ row.fresh /\ row' = [row EXCEPT !.fresh = FALSE] /\ slow' = (slow \/ Busy)
    /\ UNCHANGED <<payment, fee, pc, saw, reply, hasty, faults, deaths>>

Proceed(d) ==
    \/ claimEvent(d) \/ Reclaim(d) \/ Pay(d) \/ MarkPosted(d) \/ LoadFee(d) \/ LookFee(d)
    \/ PutFee(d) \/ MarkCleared(d) \/ Catch(d) \/ MarkFailed(d)

StripeNext ==
    \/ \E d \in Deliveries : Deliver(d) \/ Proceed(d) \/ Throw(d) \/ Again(d) \/ Crash(d)
    \/ FiveMinutes

\* The processor delivers until it is answered, a delivery goes on, time passes.
StripeFairness ==
    /\ \A d \in Deliveries :
         WF_stripeVars(Proceed(d)) /\ WF_stripeVars(Deliver(d)) /\ WF_stripeVars(Again(d))
    /\ WF_stripeVars(FiveMinutes)

StripeSpec == StripeInit /\ [][StripeNext]_stripeVars
StripeFairSpec == StripeSpec /\ StripeFairness

---------------------------------------------------------------------------

\* What a row says is in the ledger is there, however deliveries overlap.
StatusIsBooked ==
    /\ row.status = "payment_posted" => payment
    /\ row.status = "cleared" => payment /\ (Fee => fee)

\* A row that says failed, which tells the user that no money has come in, has
\* no payment in the ledger.
FailedIsUnpaid == row.status = "failed" => ~payment

\* Once the processor has heard a 200 it never delivers the event again: then
\* the event is booked in full, or a delivery is still at it.
AnsweredIsBooked ==
    reply => Busy \/ (payment /\ (Fee => fee))

\* The Stripe webhook.  What a row of gnucash_web_payment_events says is booked is
\* booked, however deliveries overlap; one marked failed has no payment, while no
\* worker has outlived five minutes; and an event answered 200 is booked in full,
\* or a delivery is still at it, while none was made before an earlier one was
\* answered, or lost five minutes ago.
StripeAnswersTruly ==
    /\ StatusIsBooked
    /\ ~slow => FailedIsUnpaid
    /\ ~hasty => AnsweredIsBooked

\* A customer's payment and its fee come into the books at last, unless deliveries
\* were slow or hasty.
InTheBooks == payment /\ (Fee => fee)
Booked == <>[](InTheBooks \/ slow \/ hasty)

\* What makes them inductive.  A delivery that has gone past the payment met or
\* made it, and one that marks the event cleared met or made the fee;
Active == Working \ {"claim", "reclaim"}
PlacesTell ==
    \A d \in Deliveries :
        /\ pc[d] \in {"posted", "loadFee", "lookFee", "putFee", "clear"} => payment
        /\ pc[d] = "clear" => (Fee => fee)
        /\ saw[d] => payment
        /\ pc[d] = "reclaim" => row.status # "none"

\* until there is a payment, one delivery has the event to itself, and its claim
\* is fresh while it works;
OneUnpaid ==
    /\ \A d \in Deliveries : pc[d] \in Active /\ ~payment =>
          /\ row.status = "processing" /\ row.fresh
          /\ \A o \in Deliveries \ {d} : pc[o] \notin Active
    /\ \A d \in Deliveries : pc[d] = "fail" /\ ~saw[d] => ~payment
    /\ FailedIsUnpaid

\* deliveries that were made in time come one at a time, and find no fresh claim
\* of one before.
Freshly == row.status = "processing" /\ row.fresh
OneAtATime ==
    /\ \A d, o \in Deliveries : pc[d] \in Working /\ pc[o] \in Working => d = o
    /\ \A d \in Deliveries : pc[d] \in {"claim", "reclaim"} => ~Freshly
    /\ Freshly => \E d \in Deliveries : pc[d] \in Active \cup {"dead"}
    /\ reply => payment /\ (Fee => fee)

StripeInv == /\ StripeTypeOK /\ PlacesTell /\ StatusIsBooked
             /\ ~slow => OneUnpaid
             /\ ~hasty => OneAtATime

=============================================================================
