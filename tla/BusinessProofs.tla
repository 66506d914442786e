---------------------------- MODULE BusinessProofs ----------------------------
(***************************************************************************)
(* The modules about business documents and the period lock, each for all  *)
(* values of its constants.                                                *)
(*                                                                         *)
(* Every argument is about a claim that keeps others out: of an event row  *)
(* (StripeEvents), of a day by its next_date (RecurringInvoices), of a     *)
(* counter by its row lock or an advisory lock (DocNumbers), of a document *)
(* by its row lock (Invoices), of an item by its row lock (Inventory).     *)
(* The invariant says who holds the claim between the check and the write, *)
(* and that what was checked still holds.                                  *)
(* PeriodLock has no claim: its invariant is about the age of what was     *)
(* read before the date changed.                                           *)
(***************************************************************************)
EXTENDS StripeEvents, RecurringInvoices, PeriodLock, DocNumbers, Inventory, Sums

CONSTANTS Docs, Lots, NoLot, NoDoc, NoRequest, Kind, Target, Payments, PayOf, AmountOf, FifoPayments,
          Totals, PostedFirst, MaxDrops

VARIABLES doc, lot, paid, there, lock, drops

---------------------------------------------------------------------------------
(* StripeEvents: the deliveries of one Stripe event                          *)

\* A step of a delivery keeps the variables in their types.
LEMMA StripeTyping ==
  ASSUME StripeAssumption, StripeTypeOK, PlacesTell, [StripeNext]_stripeVars
  PROVE  StripeTypeOK'
<1>. USE DEF StripeAssumption, StripeTypeOK, Places, Working, Go
<1>1. ASSUME NEW d \in Deliveries, Deliver(d) PROVE StripeTypeOK'
  BY <1>1 DEF Deliver
<1>2. ASSUME NEW d \in Deliveries, claimEvent(d) PROVE StripeTypeOK'
  <2>1. CASE row.status = "none"
    <3>1. row' = [status |-> "processing", fresh |-> TRUE] /\ pc' = [pc EXCEPT ![d] = "pay"]
      BY <1>2, <2>1 DEF claimEvent
    <3>2. row' \in [status : {"none", "processing", "payment_posted", "failed", "cleared"},
                    fresh : BOOLEAN]
      BY <3>1
    <3>. QED  BY <1>2, <3>1, <3>2 DEF claimEvent
  <2>2. CASE row.status # "none"
    BY <1>2, <2>2 DEF claimEvent
  <2>. QED  BY <2>1, <2>2
<1>3. ASSUME NEW d \in Deliveries, Reclaim(d) PROVE StripeTypeOK'
  <2>1. CASE Reclaimable
    <3>1. row' = [status |-> "processing", fresh |-> TRUE] /\ pc' = [pc EXCEPT ![d] = "pay"]
      BY <1>3, <2>1 DEF Reclaim
    <3>2. row' \in [status : {"none", "processing", "payment_posted", "failed", "cleared"},
                    fresh : BOOLEAN]
      BY <3>1
    <3>. QED  BY <1>3, <2>1, <3>1, <3>2 DEF Reclaim
  <2>2. CASE ~Reclaimable
    BY <1>3, <2>2 DEF Reclaim
  <2>. QED  BY <2>1, <2>2
<1>4. ASSUME NEW d \in Deliveries, Pay(d) PROVE StripeTypeOK'
  BY <1>4 DEF Pay
<1>5. ASSUME NEW d \in Deliveries, MarkPosted(d) PROVE StripeTypeOK'
  BY <1>5 DEF MarkPosted
<1>6. ASSUME NEW d \in Deliveries, LoadFee(d) \/ LookFee(d) PROVE StripeTypeOK'
  BY <1>6 DEF LoadFee, LookFee
<1>7. ASSUME NEW d \in Deliveries, PutFee(d) PROVE StripeTypeOK'
  BY <1>7 DEF PutFee, PlacesTell
<1>8. ASSUME NEW d \in Deliveries, MarkCleared(d) PROVE StripeTypeOK'
  BY <1>8 DEF MarkCleared
<1>9. ASSUME NEW d \in Deliveries, Throw(d) PROVE StripeTypeOK'
  BY <1>9 DEF Throw
<1>10. ASSUME NEW d \in Deliveries, Catch(d) PROVE StripeTypeOK'
  BY <1>10 DEF Catch
<1>11. ASSUME NEW d \in Deliveries, MarkFailed(d) PROVE StripeTypeOK'
  BY <1>11 DEF MarkFailed
<1>12. ASSUME NEW d \in Deliveries, Again(d) \/ Crash(d) PROVE StripeTypeOK'
  <2>1. CASE Again(d)
    BY <2>1 DEF Again
  <2>2. CASE Crash(d)
    BY <2>2 DEF Crash
  <2>. QED  BY <1>12, <2>1, <2>2
<1>13. CASE FiveMinutes
  BY <1>13 DEF FiveMinutes
<1>14. CASE UNCHANGED stripeVars
  BY <1>14 DEF stripeVars
<1>. QED
  BY <1>1, <1>2, <1>3, <1>4, <1>5, <1>6, <1>7, <1>8, <1>9, <1>10, <1>11, <1>12, <1>13, <1>14
  DEF StripeNext, Proceed
\* What a delivery's place says of the payment and the fee, and what the status
\* says of them, stays true (claimEvent to markCleared).
LEMMA StripeFacts ==
  ASSUME StripeInv, [StripeNext]_stripeVars
  PROVE  PlacesTell' /\ StatusIsBooked'
<1>. USE DEF StripeInv, StripeTypeOK, PlacesTell, StatusIsBooked, Go, Working, Places
<1>1. ASSUME NEW d \in Deliveries, Deliver(d) PROVE PlacesTell' /\ StatusIsBooked'
  BY <1>1 DEF Deliver
<1>2. ASSUME NEW d \in Deliveries, claimEvent(d) PROVE PlacesTell' /\ StatusIsBooked'
  BY <1>2 DEF claimEvent
<1>3. ASSUME NEW d \in Deliveries, Reclaim(d) PROVE PlacesTell' /\ StatusIsBooked'
  BY <1>3 DEF Reclaim
<1>4. ASSUME NEW d \in Deliveries, Pay(d) PROVE PlacesTell' /\ StatusIsBooked'
  BY <1>4 DEF Pay
<1>5. ASSUME NEW d \in Deliveries, MarkPosted(d) PROVE PlacesTell' /\ StatusIsBooked'
  BY <1>5 DEF MarkPosted
<1>6. ASSUME NEW d \in Deliveries, LoadFee(d) PROVE PlacesTell' /\ StatusIsBooked'
  BY <1>6 DEF LoadFee
<1>7. ASSUME NEW d \in Deliveries, LookFee(d) PROVE PlacesTell' /\ StatusIsBooked'
  BY <1>7 DEF LookFee
<1>8. ASSUME NEW d \in Deliveries, PutFee(d) PROVE PlacesTell' /\ StatusIsBooked'
  BY <1>8 DEF PutFee
<1>9. ASSUME NEW d \in Deliveries, MarkCleared(d) PROVE PlacesTell' /\ StatusIsBooked'
  BY <1>9 DEF MarkCleared
<1>10. ASSUME NEW d \in Deliveries, Throw(d) PROVE PlacesTell' /\ StatusIsBooked'
  BY <1>10 DEF Throw
<1>11. ASSUME NEW d \in Deliveries, Catch(d) PROVE PlacesTell' /\ StatusIsBooked'
  BY <1>11 DEF Catch
<1>12. ASSUME NEW d \in Deliveries, MarkFailed(d) PROVE PlacesTell' /\ StatusIsBooked'
  BY <1>12 DEF MarkFailed
<1>13. ASSUME NEW d \in Deliveries, Again(d) PROVE PlacesTell' /\ StatusIsBooked'
  BY <1>13 DEF Again
<1>14. ASSUME NEW d \in Deliveries, Crash(d) PROVE PlacesTell' /\ StatusIsBooked'
  BY <1>14 DEF Crash
<1>15. CASE FiveMinutes
  BY <1>15 DEF FiveMinutes, Busy
<1>16. CASE UNCHANGED stripeVars
  BY <1>16 DEF stripeVars
<1>. QED
  BY <1>1, <1>2, <1>3, <1>4, <1>5, <1>6, <1>7, <1>8, <1>9,
     <1>10, <1>11, <1>12, <1>13, <1>14, <1>15, <1>16 DEF StripeNext, Proceed

\* While workers end within five minutes, the claim gives the event to one
\* delivery until it is paid, so one that fails without a payment finds none.
LEMMA StripeUnpaid ==
  ASSUME StripeInv, [StripeNext]_stripeVars, ~slow'
  PROVE  OneUnpaid'
<1>. USE DEF StripeInv, StripeTypeOK, PlacesTell, OneUnpaid, FailedIsUnpaid, StatusIsBooked, Go, Active, Working, Places
<1>1. ASSUME NEW d \in Deliveries, Deliver(d) PROVE OneUnpaid'
  BY <1>1 DEF Deliver
<1>2. ASSUME NEW d \in Deliveries, claimEvent(d) PROVE OneUnpaid'
  BY <1>2 DEF claimEvent
<1>3. ASSUME NEW d \in Deliveries, Reclaim(d) PROVE OneUnpaid'
  BY <1>3 DEF Reclaim, Reclaimable
<1>4. ASSUME NEW d \in Deliveries, Pay(d) PROVE OneUnpaid'
  BY <1>4 DEF Pay
<1>5. ASSUME NEW d \in Deliveries, MarkPosted(d) PROVE OneUnpaid'
  BY <1>5 DEF MarkPosted
<1>6. ASSUME NEW d \in Deliveries, LoadFee(d) PROVE OneUnpaid'
  BY <1>6 DEF LoadFee
<1>7. ASSUME NEW d \in Deliveries, LookFee(d) PROVE OneUnpaid'
  BY <1>7 DEF LookFee
<1>8. ASSUME NEW d \in Deliveries, PutFee(d) PROVE OneUnpaid'
  BY <1>8 DEF PutFee
<1>9. ASSUME NEW d \in Deliveries, MarkCleared(d) PROVE OneUnpaid'
  BY <1>9 DEF MarkCleared
<1>10. ASSUME NEW d \in Deliveries, Throw(d) PROVE OneUnpaid'
  BY <1>10 DEF Throw
<1>11. ASSUME NEW d \in Deliveries, Catch(d) PROVE OneUnpaid'
  BY <1>11 DEF Catch
<1>12. ASSUME NEW d \in Deliveries, MarkFailed(d) PROVE OneUnpaid'
  BY <1>12 DEF MarkFailed
<1>13. ASSUME NEW d \in Deliveries, Again(d) PROVE OneUnpaid'
  BY <1>13 DEF Again
<1>14. ASSUME NEW d \in Deliveries, Crash(d) PROVE OneUnpaid'
  BY <1>14 DEF Crash
<1>15. CASE FiveMinutes
  BY <1>15 DEF FiveMinutes, Busy
<1>16. CASE UNCHANGED stripeVars
  BY <1>16 DEF stripeVars
<1>. QED
  BY <1>1, <1>2, <1>3, <1>4, <1>5, <1>6, <1>7, <1>8, <1>9,
     <1>10, <1>11, <1>12, <1>13, <1>14, <1>15, <1>16 DEF StripeNext, Proceed

\* Deliveries that come one after another find no fresh claim of one before.
LEMMA StripeInTurn ==
  ASSUME StripeInv, [StripeNext]_stripeVars, ~hasty'
  PROVE  OneAtATime'
<1>. USE DEF StripeInv, StripeTypeOK, PlacesTell, OneAtATime, Freshly, StatusIsBooked, Go, Active, Working, Places
<1>1. ASSUME NEW d \in Deliveries, Deliver(d) PROVE OneAtATime'
  BY <1>1 DEF Deliver, Timely, Busy
<1>2. ASSUME NEW d \in Deliveries, claimEvent(d) PROVE OneAtATime'
  BY <1>2 DEF claimEvent
<1>3. ASSUME NEW d \in Deliveries, Reclaim(d) PROVE OneAtATime'
  BY <1>3 DEF Reclaim, Reclaimable
<1>4. ASSUME NEW d \in Deliveries, Pay(d) PROVE OneAtATime'
  BY <1>4 DEF Pay
<1>5. ASSUME NEW d \in Deliveries, MarkPosted(d) PROVE OneAtATime'
  BY <1>5 DEF MarkPosted
<1>6. ASSUME NEW d \in Deliveries, LoadFee(d) PROVE OneAtATime'
  BY <1>6 DEF LoadFee
<1>7. ASSUME NEW d \in Deliveries, LookFee(d) PROVE OneAtATime'
  BY <1>7 DEF LookFee
<1>8. ASSUME NEW d \in Deliveries, PutFee(d) PROVE OneAtATime'
  BY <1>8 DEF PutFee
<1>9. ASSUME NEW d \in Deliveries, MarkCleared(d) PROVE OneAtATime'
  BY <1>9 DEF MarkCleared
<1>10. ASSUME NEW d \in Deliveries, Throw(d) PROVE OneAtATime'
  BY <1>10 DEF Throw
<1>11. ASSUME NEW d \in Deliveries, Catch(d) PROVE OneAtATime'
  BY <1>11 DEF Catch
<1>12. ASSUME NEW d \in Deliveries, MarkFailed(d) PROVE OneAtATime'
  BY <1>12 DEF MarkFailed
<1>13. ASSUME NEW d \in Deliveries, Again(d) PROVE OneAtATime'
  BY <1>13 DEF Again, Timely, Busy
<1>14. ASSUME NEW d \in Deliveries, Crash(d) PROVE OneAtATime'
  BY <1>14 DEF Crash
<1>15. CASE FiveMinutes
  BY <1>15 DEF FiveMinutes, Busy
<1>16. CASE UNCHANGED stripeVars
  BY <1>16 DEF stripeVars
<1>. QED
  BY <1>1, <1>2, <1>3, <1>4, <1>5, <1>6, <1>7, <1>8, <1>9,
     <1>10, <1>11, <1>12, <1>13, <1>14, <1>15, <1>16 DEF StripeNext, Proceed

\* The invariant holds of an event that nobody has delivered.
LEMMA StripeStart == ASSUME StripeAssumption PROVE StripeInit => StripeInv
<1>. SUFFICES ASSUME StripeInit PROVE StripeInv
  OBVIOUS
<1>. USE DEF StripeInit, StripeAssumption
<1>1. row \in [status : {"none", "processing", "payment_posted", "failed", "cleared"},
             fresh : BOOLEAN]
  BY DEF StripeInit
<1>2. StripeTypeOK
  <2>1. saw \in [Deliveries -> BOOLEAN] /\ payment \in BOOLEAN /\ fee \in BOOLEAN /\ ~fee
        /\ reply \in BOOLEAN
    BY DEF StripeInit
  <2>2. pc \in [Deliveries -> Places] /\ faults \in 0..MaxFaults /\ deaths \in 0..MaxDeaths
    BY DEF Places
  <2>. QED  BY <1>1, <2>1, <2>2 DEF StripeTypeOK
<1>3. PlacesTell /\ StatusIsBooked
  BY DEF PlacesTell, StatusIsBooked
<1>4. OneUnpaid
  BY DEF OneUnpaid, FailedIsUnpaid, Active, Working
<1>5. OneAtATime
  BY DEF OneAtATime, Freshly, Active, Working
<1>. QED  BY <1>2, <1>3, <1>4, <1>5 DEF StripeInv

\* The inductive invariant of the Stripe webhook: every delivery's place tells
\* what is booked, and the claim of the event row keeps deliveries apart.
THEOREM StripeInvariant ==
  ASSUME StripeAssumption PROVE StripeSpec => []StripeInv
<1>1. StripeInv /\ [StripeNext]_stripeVars => StripeInv'
  BY StripeTyping, StripeFacts, StripeUnpaid, StripeInTurn DEF StripeInv
<1>. QED  BY <1>1, StripeStart, PTL DEF StripeSpec

\* The Stripe webhook: what a row of gnucash_web_payment_events says is booked is
\* booked; an event marked failed has no payment, while workers end in time; one
\* answered 200 is booked, when deliveries are repeated in time only.
THEOREM StripeAnswers ==
  ASSUME StripeAssumption PROVE StripeSpec => []StripeAnswersTruly
<1>1. StripeInv => StripeAnswersTruly
  BY DEF StripeInv, StripeAnswersTruly, OneUnpaid, OneAtATime,
         AnsweredIsBooked
<1>. QED  BY <1>1, StripeInvariant, PTL

---------------------------------------------------------------------------------
(* RecurringInvoices: the runs over one definition                           *)

RunRecord == [at : {"idle", "loop", "create", "post", "notify", "report"},
              occ : 0..LastDay + 1, i : 0..MaxCatchup, asOf : 0..LastDay]

\* A run that goes to another place keeps its occurrence, its count and its date.
LEMMA RunGoes ==
  ASSUME run \in [Runs -> RunRecord], NEW r \in Runs,
         NEW p \in {"idle", "loop", "create", "post", "notify", "report"},
         run' = [run EXCEPT ![r].at = p]
  PROVE  /\ run' \in [Runs -> RunRecord]
         /\ run'[r].at = p /\ run'[r].occ = run[r].occ /\ run'[r].i = run[r].i
         /\ \A s \in Runs \ {r} : run'[s] = run[s]
BY DEF RunRecord

\* A run that goes on with the next occurrence.
LEMMA RunAdvances ==
  ASSUME run \in [Runs -> RunRecord], NEW r \in Runs, MaxCatchup \in Nat, LastDay \in Nat,
         run[r].occ \in 0..LastDay, run[r].i < MaxCatchup,
         run' = [run EXCEPT ![r].at = "loop", ![r].occ = run[r].occ + 1, ![r].i = run[r].i + 1]
  PROVE  /\ run' \in [Runs -> RunRecord] /\ run'[r].at = "loop"
         /\ \A s \in Runs \ {r} : run'[s] = run[s]
<1>1. run[r].occ + 1 \in 0..LastDay + 1 /\ run[r].i + 1 \in 0..MaxCatchup
  BY DEF RunRecord
<1>2. [at |-> "loop", occ |-> run[r].occ + 1, i |-> run[r].i + 1, asOf |-> run[r].asOf]
        \in RunRecord
  BY <1>1 DEF RunRecord
<1>3. run'[r] = [at |-> "loop", occ |-> run[r].occ + 1, i |-> run[r].i + 1, asOf |-> run[r].asOf]
  BY DEF RunRecord
<1>. QED  BY <1>2, <1>3 DEF RunRecord

\* A run that leaves the definition.
LEMMA RunLeaves ==
  ASSUME run \in [Runs -> RunRecord], NEW r \in Runs, MaxCatchup \in Nat, LastDay \in Nat,
         run' = [run EXCEPT ![r] = Idle]
  PROVE  /\ run' \in [Runs -> RunRecord] /\ run'[r].at = "idle"
         /\ \A s \in Runs \ {r} : run'[s] = run[s]
BY DEF RunRecord, Idle

\* A step of a run or of an editor keeps the variables in their types, and a run
\* in the hands of an occurrence within the days of the instance.
LEMMA RecurringTyping ==
  ASSUME RecurringAssumption, RecurringTypeOK, RunsAgree,
         [RecurringNext]_recurringVars
  PROVE  RecurringTypeOK' /\ RunsAgree'
<1>. USE DEF RecurringAssumption, RecurringTypeOK, RunsAgree,
            Claiming, Days, history
<1>1. ASSUME NEW r \in Runs, Begin(r) PROVE RecurringTypeOK' /\ RunsAgree'
  BY <1>1, SMTT(40) DEF Begin, Idle
<1>2. ASSUME NEW r \in Runs, Claim(r) PROVE RecurringTypeOK' /\ RunsAgree'
  <2>1. run' = [run EXCEPT ![r].at = "create"]
    BY <1>2 DEF Claim
  <2>2. /\ run' \in [Runs -> RunRecord]
        /\ run'[r].at = "create" /\ run'[r].occ = run[r].occ /\ run'[r].i = run[r].i
        /\ \A s \in Runs \ {r} : run'[s] = run[s]
    BY <2>1, RunGoes DEF RunRecord
  <2>3. def' \in [next : 0..LastDay + 1, active : BOOLEAN, there : BOOLEAN]
    <3>1. run[r].occ + 1 \in 0..LastDay + 1
      BY <1>2, SMTT(40) DEF Claim, Due, RunRecord
    <3>2. def' = [def EXCEPT !.next = run[r].occ + 1]
      BY <1>2 DEF Claim
    <3>. QED  BY <3>1, <3>2, Zenon
  <2>4. UNCHANGED <<made, posted, reported, editing, today, edits, mishaps, errors, history>>
        /\ run[r].occ \in 0..LastDay /\ run[r].i < MaxCatchup /\ run[r].at = "loop"
    BY <1>2 DEF Claim, Due, RunRecord
  <2>. QED  BY <2>2, <2>3, <2>4 DEF RunRecord
<1>3. ASSUME NEW r \in Runs, Leave(r) PROVE RecurringTypeOK' /\ RunsAgree'
  <2>1. run' = [run EXCEPT ![r] = Idle]
    BY <1>3 DEF Leave
  <2>2. /\ run' \in [Runs -> RunRecord] /\ run'[r].at = "idle"
        /\ \A s \in Runs \ {r} : run'[s] = run[s]
    BY <2>1, RunLeaves DEF RunRecord
  <2>3. UNCHANGED <<def, made, posted, reported, editing, today, edits, mishaps, errors, history>>
    BY <1>3 DEF Leave
  <2>. QED  BY <2>2, <2>3 DEF RunRecord
<1>4. ASSUME NEW r \in Runs, Create(r) PROVE RecurringTypeOK' /\ RunsAgree'
  <2>1. made' \in [0..LastDay -> Nat] /\ (\A d \in posted : made'[d] > 0) /\ made'[run[r].occ] > 0
        /\ \A d \in 0..LastDay : made'[d] >= made[d]
    BY <1>4, SMTT(60) DEF Create
  <2>2. PICK p \in {"post", "notify"} : run' = [run EXCEPT ![r].at = p]
    BY <1>4 DEF Create
  <2>3. /\ run' \in [Runs -> RunRecord]
        /\ run'[r].at = p /\ run'[r].occ = run[r].occ /\ run'[r].i = run[r].i
        /\ \A s \in Runs \ {r} : run'[s] = run[s]
    BY <2>2, RunGoes DEF RunRecord
  <2>. QED  BY <1>4, <2>1, <2>3 DEF Create, RunRecord
<1>5. ASSUME NEW r \in Runs, Post(r) PROVE RecurringTypeOK' /\ RunsAgree'
  <2>1. run' = [run EXCEPT ![r].at = "notify"]
    BY <1>5 DEF Post
  <2>2. /\ run' \in [Runs -> RunRecord]
        /\ run'[r].at = "notify" /\ run'[r].occ = run[r].occ /\ run'[r].i = run[r].i
        /\ \A s \in Runs \ {r} : run'[s] = run[s]
    BY <2>1, RunGoes DEF RunRecord
  <2>3. UNCHANGED <<def, made, reported, editing, today, edits, mishaps, errors, history>>
        /\ posted' = posted \cup {run[r].occ} /\ run[r].at = "post" 
    BY <1>5 DEF Post
  <2>. QED  BY <2>2, <2>3 DEF RunRecord
<1>6. ASSUME NEW r \in Runs, Notify(r) PROVE RecurringTypeOK' /\ RunsAgree'
  <2>1. run' = [run EXCEPT ![r].at = "loop", ![r].occ = run[r].occ + 1, ![r].i = run[r].i + 1]
    BY <1>6 DEF Notify
  <2>2. run[r].occ \in 0..LastDay /\ run[r].i < MaxCatchup
    BY <1>6 DEF Notify
  <2>3. /\ run' \in [Runs -> RunRecord] /\ run'[r].at = "loop"
        /\ \A s \in Runs \ {r} : run'[s] = run[s]
    BY <2>1, <2>2, RunAdvances DEF RunRecord
  <2>4. UNCHANGED <<def, made, posted, reported, editing, today, edits, mishaps, errors, history>>
    BY <1>6 DEF Notify
  <2>. QED  BY <2>3, <2>4 DEF RunRecord
<1>7. ASSUME NEW r \in Runs, Fail(r) PROVE RecurringTypeOK' /\ RunsAgree'
  <2>1. run' = [run EXCEPT ![r].at = "report"]
    BY <1>7 DEF Fail
  <2>2. /\ run' \in [Runs -> RunRecord]
        /\ run'[r].at = "report" /\ run'[r].occ = run[r].occ /\ run'[r].i = run[r].i
        /\ \A s \in Runs \ {r} : run'[s] = run[s]
    BY <2>1, RunGoes DEF RunRecord
  <2>3. UNCHANGED <<def, made, posted, reported, editing, today, edits, mishaps, history>>
        /\ errors' \in 0..MaxErrors /\ run[r].at \in {"create", "post"}
    BY <1>7, SMTT(30) DEF Fail
  <2>. QED  BY <2>2, <2>3 DEF RunRecord
<1>8. ASSUME NEW r \in Runs, Report(r) PROVE RecurringTypeOK' /\ RunsAgree'
  <2>1. run' = [run EXCEPT ![r] = Idle]
    BY <1>8 DEF Report
  <2>2. /\ run' \in [Runs -> RunRecord] /\ run'[r].at = "idle"
        /\ \A s \in Runs \ {r} : run'[s] = run[s]
    BY <2>1, RunLeaves DEF RunRecord
  <2>3. UNCHANGED <<def, made, posted, editing, today, edits, errors, history>>
        /\ mishaps' \in 0..MaxMishaps /\ reported' \subseteq 0..LastDay
    <3>1. CASE reported' = reported \cup {run[r].occ} /\ UNCHANGED mishaps
      BY <1>8, <3>1 DEF Report
    <3>2. CASE mishaps > 0 /\ mishaps' = mishaps - 1 /\ UNCHANGED reported
      BY <1>8, <3>2 DEF Report
    <3>. QED  BY <1>8, <3>1, <3>2 DEF Report
  <2>. QED  BY <2>2, <2>3 DEF RunRecord
<1>9. ASSUME NEW r \in Runs, Die(r) PROVE RecurringTypeOK' /\ RunsAgree'
  <2>1. run' = [run EXCEPT ![r] = Idle]
    BY <1>9 DEF Die
  <2>2. /\ run' \in [Runs -> RunRecord] /\ run'[r].at = "idle"
        /\ \A s \in Runs \ {r} : run'[s] = run[s]
    BY <2>1, RunLeaves DEF RunRecord
  <2>3. UNCHANGED <<def, made, posted, reported, editing, today, edits, errors, history>>
        /\ mishaps' \in 0..MaxMishaps
    BY <1>9 DEF Die
  <2>. QED  BY <2>2, <2>3 DEF RunRecord
<1>10. ASSUME NEW e \in Editors, Open(e) PROVE RecurringTypeOK' /\ RunsAgree'
  BY <1>10 DEF Open
<1>11. ASSUME NEW e \in Editors, Save(e) PROVE RecurringTypeOK' /\ RunsAgree'
  <2>1. def' \in [next : 0..LastDay + 1, active : BOOLEAN, there : BOOLEAN]
    <3>1. CASE def.there
      <4>1. PICK n \in 0..LastDay + 1, a \in BOOLEAN :
              def' = [def EXCEPT !.next = n, !.active = a]
        BY <1>11, <3>1 DEF Save
      <4>. QED  BY <4>1, Zenon
    <3>2. CASE ~def.there
      BY <1>11, <3>2 DEF Save
    <3>. QED  BY <3>1, <3>2
  <2>2. skipped' \subseteq Days /\ setBack' \in BOOLEAN
    BY <1>11, Zenon DEF Save
  <2>3. /\ edits > 0 /\ edits' = edits - 1 /\ editing' = editing \ {e}
        /\ UNCHANGED <<made, posted, reported, run, today, mishaps, errors>>
    BY <1>11, Zenon DEF Save
  <2>. QED  BY <2>1, <2>2, <2>3
<1>12. ASSUME Delete PROVE RecurringTypeOK' /\ RunsAgree'
  <2>1. def' \in [next : 0..LastDay + 1, active : BOOLEAN, there : BOOLEAN]
    BY <1>12, Zenon DEF Delete
  <2>2. /\ edits' \in 0..MaxEdits
        /\ UNCHANGED <<made, posted, reported, run, editing, today, mishaps, errors, history>>
    BY <1>12 DEF Delete
  <2>. QED  BY <2>1, <2>2
<1>13. CASE NextDay
  BY <1>13 DEF NextDay
<1>14. CASE UNCHANGED recurringVars
  BY <1>14 DEF recurringVars
<1>. QED  BY <1>1, <1>2, <1>3, <1>4, <1>5, <1>6, <1>7, <1>8, <1>9, <1>10, <1>11, <1>12,
            <1>13, <1>14 DEF RecurringNext, GoOn

\* Until a save puts next_date back, its compare-and-set gives an occurrence to one
\* run (claimOccurrence).
LEMMA RecurringOnce ==
  ASSUME RecurringAssumption, RecurringInv, ~setBack',
         [RecurringNext]_recurringVars
  PROVE  ClaimsAreOwn'
<1>. USE DEF RecurringAssumption, RecurringTypeOK, RunsAgree,
            Claiming, Days, history,
            RecurringInv, ClaimsAreOwn, OnceEach
<1>1. ASSUME NEW r \in Runs, Begin(r) PROVE ClaimsAreOwn'
  BY <1>1 DEF Begin, Idle
<1>2. ASSUME NEW r \in Runs, Claim(r) PROVE ClaimsAreOwn'
  <2>1. run' = [run EXCEPT ![r].at = "create"]
    BY <1>2 DEF Claim
  <2>2. /\ run' \in [Runs -> RunRecord]
        /\ run'[r].at = "create" /\ run'[r].occ = run[r].occ /\ run'[r].i = run[r].i
        /\ \A s \in Runs \ {r} : run'[s] = run[s]
    BY <2>1, RunGoes DEF RunRecord
  <2>3. def'.next = def.next + 1 /\ run[r].occ = def.next /\ run[r].at = "loop"
    BY <1>2 DEF Claim
  <2>4. run[r].occ \in 0..LastDay
    BY <1>2 DEF Claim, Due, RunRecord
  <2>5. UNCHANGED <<made, setBack>>
    BY <1>2 DEF Claim
  <2>6. OnceEach' /\ \A d \in 0..LastDay : d >= def'.next => made'[d] = 0
    BY <2>3, <2>5
  <2>7. ASSUME NEW s \in Runs, run'[s].at = "create"
        PROVE  /\ run'[s].occ < def'.next /\ made'[run'[s].occ] = 0
               /\ \A t \in Runs \ {s} : run'[t].at = "create" => run'[t].occ # run'[s].occ
    <3>1. ~setBack /\ ClaimsAreOwn
      BY <2>5
    <3>2. \A t \in Runs \ {r} : run'[t].at = "create" => run'[t].occ < def.next /\ run'[t] = run[t]
      BY <2>2, <3>1
    <3>3. CASE s = r
      BY <2>2, <2>3, <2>4, <2>5, <3>1, <3>2, <3>3
    <3>4. CASE s # r
      <4>1. run'[s] = run[s] /\ run[s].occ < def.next /\ made[run[s].occ] = 0
        BY <2>2, <2>7, <3>1, <3>4
      <4>2. run[s].occ \in 0..LastDay + 1 /\ def.next \in 0..LastDay + 1
        BY DEF RunRecord
      <4>3. \A t \in Runs \ {s} : run'[t].at = "create" => run'[t].occ # run'[s].occ
        <5>1. SUFFICES ASSUME NEW t \in Runs \ {s}, run'[t].at = "create"
                       PROVE  run'[t].occ # run'[s].occ
          OBVIOUS
        <5>2. CASE t = r
          BY <2>2, <2>3, <4>1, <4>2, <5>2
        <5>3. CASE t # r
          BY <2>2, <2>7, <3>1, <4>1, <5>1, <5>3, SMTT(40)
        <5>. QED  BY <5>2, <5>3
      <4>. QED  BY <2>3, <2>5, <4>1, <4>2, <4>3
    <3>. QED  BY <3>3, <3>4
  <2>. QED  BY <2>6, <2>7
<1>3. ASSUME NEW r \in Runs, Leave(r) PROVE ClaimsAreOwn'
  BY <1>3 DEF Leave, Idle
<1>4. ASSUME NEW r \in Runs, Create(r) PROVE ClaimsAreOwn'
  BY <1>4, SMTT(30) DEF Create
<1>5. ASSUME NEW r \in Runs, Post(r) PROVE ClaimsAreOwn'
  BY <1>5 DEF Post
<1>6. ASSUME NEW r \in Runs, Notify(r) PROVE ClaimsAreOwn'
  BY <1>6, SMTT(30) DEF Notify
<1>7. ASSUME NEW r \in Runs, Fail(r) PROVE ClaimsAreOwn'
  BY <1>7, SMTT(30) DEF Fail
<1>8. ASSUME NEW r \in Runs, Report(r) PROVE ClaimsAreOwn'
  BY <1>8 DEF Report, Idle
<1>9. ASSUME NEW r \in Runs, Die(r) PROVE ClaimsAreOwn'
  BY <1>9 DEF Die, Idle
<1>10. ASSUME NEW e \in Editors, Open(e) PROVE ClaimsAreOwn'
  BY <1>10 DEF Open
<1>11. ASSUME NEW e \in Editors, Save(e) PROVE ClaimsAreOwn'
  <2>1. UNCHANGED <<made, run>>
    BY <1>11 DEF Save
  <2>2. ~setBack /\ def'.next >= def.next /\ def'.next \in Int
    <3>1. CASE def.there
      <4>1. PICK n \in 0..LastDay + 1, a \in BOOLEAN :
              def' = [def EXCEPT !.next = n, !.active = a] /\ setBack' = (setBack \/ n < def.next)
        BY <1>11, <3>1 DEF Save
      <4>2. ~setBack /\ ~(n < def.next)
        BY <4>1, Zenon
      <4>3. def'.next = n /\ def.next \in Int
        BY <4>1
      <4>. QED  BY <4>2, <4>3
    <3>2. CASE ~def.there
      <4>1. UNCHANGED <<def, skipped, setBack>>
        BY <1>11, <3>2, Zenon DEF Save
      <4>2. def.next \in Int
        OBVIOUS
      <4>. QED  BY <4>1, <4>2
    <3>. QED  BY <3>1, <3>2
  <2>3. \A r \in Runs : run[r].occ \in Int
    BY DEF RunRecord
  <2>4. ClaimsAreOwn /\ def.next \in Int
    BY <2>2
  <2>5. \A d \in 0..LastDay : d >= def'.next => made[d] = 0
    BY <2>2, <2>4
  <2>6. \A r \in Runs : run[r].at = "create" => run[r].occ < def'.next
    BY <2>2, <2>3, <2>4
  <2>. QED  BY <2>1, <2>4, <2>5, <2>6
<1>12. ASSUME Delete PROVE ClaimsAreOwn'
  <2>1. def'.next = def.next /\ UNCHANGED <<made, run, setBack>>
    BY <1>12 DEF Delete
  <2>. QED  BY <2>1
<1>13. CASE NextDay
  BY <1>13 DEF NextDay
<1>14. CASE UNCHANGED recurringVars
  BY <1>14 DEF recurringVars
<1>. QED  BY <1>1, <1>2, <1>3, <1>4, <1>5, <1>6, <1>7, <1>8, <1>9, <1>10, <1>11, <1>12,
            <1>13, <1>14 DEF RecurringNext, GoOn
\* A document that is made takes none away.
LEMMA MadeGrows ==
  ASSUME made \in [0..LastDay -> Nat], NEW o \in 0..LastDay, made' = [made EXCEPT ![o] = @ + 1]
  PROVE  made'[o] > 0 /\ \A d \in 0..LastDay : made'[d] >= made[d]
OBVIOUS

\* A step that moves one day at most from the others to the lost ones, and no
\* fault, loses none; a fault may lose one.
LEMMA LostCount ==
  ASSUME RecurringAssumption, RecurringTypeOK, RecurringTypeOK', EachMishapLosesOne,
         NEW d, \/ Lost' \subseteq Lost /\ mishaps' = mishaps
                \/ Lost' \subseteq Lost \cup {d} /\ mishaps' = mishaps - 1
  PROVE  EachMishapLosesOne'
<1>. USE DEF EachMishapLosesOne, RecurringAssumption, RecurringTypeOK
<1>1. IsFiniteSet(Days)
  BY FS_Interval DEF Days
<1>2. IsFiniteSet(Lost) /\ IsFiniteSet(Lost \cup {d})
  BY <1>1, FS_Subset, FS_AddElement DEF Lost
<1>3. Cardinality(Lost \cup {d}) <= Cardinality(Lost) + 1
      /\ Cardinality(Lost) \in Nat
  <2>1. Cardinality(Lost) \in Nat
    BY <1>2, FS_CardinalityType
  <2>2. \/ Cardinality(Lost \cup {d}) = Cardinality(Lost)
        \/ Cardinality(Lost \cup {d}) = Cardinality(Lost) + 1
    BY <1>2, FS_AddElement
  <2>. QED  BY <2>1, <2>2
<1>4. CASE Lost' \subseteq Lost /\ mishaps' = mishaps
  <2>1. Cardinality(Lost') <= Cardinality(Lost) /\ Cardinality(Lost') \in Nat
    BY <1>2, <1>4, FS_Subset, FS_CardinalityType
  <2>. QED  BY <1>3, <1>4, <2>1
<1>5. CASE Lost' \subseteq Lost \cup {d} /\ mishaps' = mishaps - 1
  <2>1. Cardinality(Lost') <= Cardinality(Lost \cup {d})
        /\ Cardinality(Lost') \in Nat /\ Cardinality(Lost \cup {d}) \in Nat
    BY <1>2, <1>5, FS_Subset, FS_CardinalityType
  <2>. QED  BY <1>3, <1>5, <2>1
<1>. QED  BY <1>4, <1>5

\* A step loses an occurrence only with a death or a failure nobody hears of, and
\* no more than one.
LEMMA RecurringLosses ==
  ASSUME RecurringAssumption, RecurringInv, RecurringTypeOK',
         [RecurringNext]_recurringVars
  PROVE  EachMishapLosesOne'
<1>. USE DEF RecurringAssumption, RecurringInv, RunsAgree,
            Claiming, Days, history, RecurringTypeOK,
            Lost, Settled, InHand
<1>1. ASSUME NEW r \in Runs, Begin(r) PROVE EachMishapLosesOne'
  <2>1. Lost' \subseteq Lost /\ mishaps' = mishaps
    BY <1>1 DEF Begin, Idle
  <2>. QED  BY <2>1, LostCount
<1>2. ASSUME NEW r \in Runs, Claim(r) PROVE EachMishapLosesOne'
  <2>1. Lost' \subseteq Lost /\ mishaps' = mishaps
    <3>1. run' = [run EXCEPT ![r].at = "create"]
      BY <1>2 DEF Claim
    <3>2. run'[r].at = "create" /\ run'[r].occ = run[r].occ /\ \A s \in Runs \ {r} : run'[s] = run[s]
      BY <3>1, RunGoes DEF RunRecord
    <3>3. /\ run[r].at = "loop" /\ run[r].occ = def.next /\ def'.next = def.next + 1
          /\ UNCHANGED <<made, posted, reported, editing, mishaps, history>>
      BY <1>2 DEF Claim
    <3>4. SUFFICES ASSUME NEW d \in Lost' PROVE d \in Lost
      BY <3>3
    <3>5. d # def.next
      BY <3>2, <3>3
    <3>6. d < def.next
      BY <3>3, <3>5, SMTT(30)
    <3>7. ~InHand(d)
      BY <3>2, <3>3
    <3>. QED  BY <3>3, <3>6, <3>7
  <2>. QED  BY <2>1, LostCount
<1>3. ASSUME NEW r \in Runs, Leave(r) PROVE EachMishapLosesOne'
  <2>1. Lost' \subseteq Lost /\ mishaps' = mishaps
    BY <1>3 DEF Leave, Idle
  <2>. QED  BY <2>1, LostCount
<1>4. ASSUME NEW r \in Runs, Create(r) PROVE EachMishapLosesOne'
  <2>1. Lost' \subseteq Lost /\ mishaps' = mishaps
    <3>1. PICK p \in {"post", "notify"} :
            run' = [run EXCEPT ![r].at = p] /\ (p = IF AutoPost THEN "post" ELSE "notify")
      BY <1>4 DEF Create
    <3>2. run'[r].at = p /\ run'[r].occ = run[r].occ /\ \A s \in Runs \ {r} : run'[s] = run[s]
      BY <3>1, RunGoes DEF RunRecord
    <3>3. /\ run[r].at = "create" /\ run[r].occ \in 0..LastDay
          /\ made' = [made EXCEPT ![run[r].occ] = @ + 1]
          /\ UNCHANGED <<def, posted, reported, editing, mishaps, history>>
      BY <1>4 DEF Create
    <3>4. \A d \in 0..LastDay : made'[d] >= made[d]
      BY <3>3, MadeGrows
    <3>5. made'[run[r].occ] > 0
      BY <3>3, MadeGrows
    <3>6. SUFFICES ASSUME NEW d \in Lost' PROVE d \in Lost
      BY <3>3
    <3>7. d < def.next /\ ~Settled(d)
      <4>1. d \in 0..LastDay /\ made[d] \in Nat /\ made'[d] >= made[d] /\ d < def.next
        BY <3>3, <3>4
      <4>2. ~Settled(d)'
        BY <3>6
      <4>3. CASE AutoPost
        BY <3>3, <4>1, <4>2, <4>3
      <4>4. CASE ~AutoPost
        <5>1. made'[d] \in Nat
          OBVIOUS
        <5>. QED  BY <3>3, <4>1, <4>2, <4>4, <5>1, SMTT(40)
      <4>. QED  BY <4>3, <4>4
    <3>8. ~InHand(d)
      <4>1. CASE d = run[r].occ
        BY <3>1, <3>2, <3>5, <4>1
      <4>2. CASE d # run[r].occ
        BY <3>2, <4>2
      <4>. QED  BY <4>1, <4>2
    <3>. QED  BY <3>3, <3>6, <3>7, <3>8
  <2>. QED  BY <2>1, LostCount
<1>5. ASSUME NEW r \in Runs, Post(r) PROVE EachMishapLosesOne'
  <2>1. Lost' \subseteq Lost /\ mishaps' = mishaps
    BY <1>5 DEF Post
  <2>. QED  BY <2>1, LostCount
<1>6. ASSUME NEW r \in Runs, Notify(r) PROVE EachMishapLosesOne'
  <2>1. Lost' \subseteq Lost /\ mishaps' = mishaps
    BY <1>6 DEF Notify
  <2>. QED  BY <2>1, LostCount
<1>7. ASSUME NEW r \in Runs, Fail(r) PROVE EachMishapLosesOne'
  <2>1. Lost' \subseteq Lost /\ mishaps' = mishaps
    <3>1. run' = [run EXCEPT ![r].at = "report"]
      BY <1>7 DEF Fail
    <3>2. run'[r].at = "report" /\ run'[r].occ = run[r].occ /\ \A s \in Runs \ {r} : run'[s] = run[s]
      BY <3>1, RunGoes DEF RunRecord
    <3>3. UNCHANGED <<def, made, posted, reported, editing, mishaps, history>>
      BY <1>7 DEF Fail
    <3>. QED  BY <3>2, <3>3
  <2>. QED  BY <2>1, LostCount
<1>8. ASSUME NEW r \in Runs, Report(r) PROVE EachMishapLosesOne'
  <2>1. \/ Lost' \subseteq Lost /\ mishaps' = mishaps
        \/ Lost' \subseteq Lost \cup {run[r].occ} /\ mishaps' = mishaps - 1
    BY <1>8 DEF Report, Idle
  <2>. QED  BY <2>1, LostCount
<1>9. ASSUME NEW r \in Runs, Die(r) PROVE EachMishapLosesOne'
  <2>1. \/ Lost' \subseteq Lost /\ mishaps' = mishaps
        \/ Lost' \subseteq Lost \cup {run[r].occ} /\ mishaps' = mishaps - 1
    BY <1>9 DEF Die, Idle
  <2>. QED  BY <2>1, LostCount
<1>10. ASSUME NEW e \in Editors, Open(e) PROVE EachMishapLosesOne'
  <2>1. Lost' \subseteq Lost /\ mishaps' = mishaps
    BY <1>10 DEF Open
  <2>. QED  BY <2>1, LostCount
<1>11. ASSUME NEW e \in Editors, Save(e) PROVE EachMishapLosesOne'
  <2>1. Lost' \subseteq Lost /\ mishaps' = mishaps
    <3>1. UNCHANGED <<made, posted, reported, run, mishaps>>
      BY <1>11 DEF Save
    <3>2. \A d \in 0..LastDay : d < def'.next /\ d \notin skipped' => d < def.next /\ d \notin skipped
      <4>1. CASE def.there
        <5>1. PICK n \in 0..LastDay + 1, a \in BOOLEAN :
                /\ def' = [def EXCEPT !.next = n, !.active = a]
                /\ skipped' = {d \in Days : d < n /\ (d \in skipped \/ d >= def.next)}
          BY <1>11, <4>1 DEF Save
        <5>2. def'.next = n /\ def.next \in Int
          BY <5>1
        <5>. QED  BY <5>1, <5>2, SMTT(40)
      <4>2. CASE ~def.there
        BY <1>11, <4>2 DEF Save
      <4>. QED  BY <4>1, <4>2
    <3>. QED  BY <3>1, <3>2
  <2>. QED  BY <2>1, LostCount
<1>12. ASSUME Delete PROVE EachMishapLosesOne'
  <2>1. Lost' \subseteq Lost /\ mishaps' = mishaps
    BY <1>12, SMTT(30) DEF Delete
  <2>. QED  BY <2>1, LostCount
<1>13. CASE NextDay
  <2>1. Lost' \subseteq Lost /\ mishaps' = mishaps
    BY <1>13 DEF NextDay
  <2>. QED  BY <2>1, LostCount
<1>14. CASE UNCHANGED recurringVars
  BY <1>14 DEF recurringVars, EachMishapLosesOne
<1>. QED  BY <1>1, <1>2, <1>3, <1>4, <1>5, <1>6, <1>7, <1>8, <1>9, <1>10, <1>11, <1>12,
            <1>13, <1>14 DEF RecurringNext, GoOn
\* The invariant holds of a definition that nobody has run.
LEMMA RecurringStart ==
  ASSUME RecurringAssumption PROVE RecurringInit => RecurringInv
<1>. SUFFICES ASSUME RecurringInit PROVE RecurringInv
  OBVIOUS
<1>. USE DEF RecurringAssumption, RecurringInit, Days
<1>1. RecurringTypeOK
  <2>1. run \in [Runs -> RunRecord]
    BY DEF RunRecord, Idle
  <2>2. def \in [next : 0..LastDay + 1, active : BOOLEAN, there : BOOLEAN]
    <3>1. 0 \in 0..LastDay + 1
      OBVIOUS
    <3>2. def = [next |-> 0, active |-> TRUE, there |-> TRUE]
      BY DEF RecurringInit
    <3>. HIDE DEF RecurringInit
    <3>. QED  BY <3>1, <3>2, Zenon
  <2>3. editing \subseteq Editors /\ skipped \subseteq Days /\ setBack \in BOOLEAN
    BY Zenon
  <2>. QED  BY <2>1, <2>2, <2>3 DEF RecurringTypeOK, RunRecord
<1>2. RunsAgree
  BY DEF RunsAgree, Idle, Claiming
<1>3. ClaimsAreOwn
  BY DEF ClaimsAreOwn, OnceEach, Idle
<1>4. EachMishapLosesOne
  <2>1. Lost = {}
    BY DEF Lost
  <2>. QED  BY <2>1, FS_EmptySet DEF EachMishapLosesOne
<1>. QED  BY <1>1, <1>2, <1>3, <1>4 DEF RecurringInv

\* The inductive invariant of recurring invoices: claims are their run's own, and
\* what is lost is paid for by faults.
THEOREM RecurringInvariant ==
  ASSUME RecurringAssumption PROVE RecurringSpec => []RecurringInv
<1>1. RecurringInv /\ [RecurringNext]_recurringVars => RecurringInv'
  <2>. SUFFICES ASSUME RecurringInv, [RecurringNext]_recurringVars
                PROVE  RecurringInv'
    OBVIOUS
  <2>1. RecurringTypeOK' /\ RunsAgree'
    BY RecurringTyping DEF RecurringInv
  <2>2. ~setBack' => ClaimsAreOwn'
    BY RecurringOnce
  <2>3. EachMishapLosesOne'
    BY <2>1, RecurringLosses
  <2>. QED  BY <2>1, <2>2, <2>3 DEF RecurringInv
<1>. QED  BY <1>1, RecurringStart, PTL DEF RecurringSpec

\* runRecurringInvoices: "two overlapping runners can never generate the same
\* occurrence twice" until a save puts next_date back; and a death, or a failure
\* that nobody hears of, loses one occurrence at most of those no save passed over.
THEOREM RecurringPromise ==
  ASSUME RecurringAssumption PROVE RecurringSpec => []EachOccurrenceOnce
<1>1. RecurringInv => EachOccurrenceOnce
  BY DEF RecurringInv, EachOccurrenceOnce, ClaimsAreOwn
<1>. QED  BY <1>1, RecurringInvariant, PTL

---------------------------------------------------------------------------------
(* PeriodLock: the caches of the lock date                                   *)

Question == [at : {"idle", "asking", "passed"}, date : 0..MaxDate, age : 0..Slow, sure : BOOLEAN]
Entry == [date : 0..MaxDate, left : 0..TTL]

\* Nobody counts on a question any more.
LEMMA Unsure == ASSUME NEW q \in Question PROVE [q EXCEPT !.sure = FALSE] \in Question
BY DEF Question

\* A verdict is a record of its request's type: none, or passed with the date that
\* it was given, which is before the request's.
LEMMA VerdictTells ==
  ASSUME LockAssumption, NEW r \in Writers, NEW d \in 0..MaxDate, NEW s \in BOOLEAN
  PROVE  /\ Verdict(r, d, s) \in Question
         /\ Verdict(r, d, s).at # "asking"
         /\ Verdict(r, d, s).at = "passed" =>
              Verdict(r, d, s).sure = s /\ DateOf[r] > d
<1>. USE DEF LockAssumption
<1>0. DateOf[r] \in Nat /\ d \in Int
  OBVIOUS
<1>1. CASE DateOf[r] <= d
  <2>1. Verdict(r, d, s) = [at |-> "idle", date |-> 0, age |-> 0, sure |-> FALSE]
    BY <1>1 DEF Verdict, Locked, NoCheck
  <2>2. 0 \in 0..MaxDate /\ 0 \in 0..Slow
    OBVIOUS
  <2>3. [at |-> "idle", date |-> 0, age |-> 0, sure |-> FALSE] \in Question
    BY <2>2, Zenon DEF Question
  <2>. QED  BY <2>1, <2>3
<1>2. CASE ~(DateOf[r] <= d)
  <2>1. Verdict(r, d, s) = [at |-> "passed", date |-> d, age |-> 0, sure |-> s]
    BY <1>2 DEF Verdict, Locked
  <2>2. 0 \in 0..Slow /\ DateOf[r] > d
    BY <1>0, <1>2
  <2>3. [at |-> "passed", date |-> d, age |-> 0, sure |-> s] \in Question
    BY <2>2, Zenon DEF Question
  <2>. QED  BY <2>1, <2>2, <2>3
<1>. QED  BY <1>1, <1>2

\* Request r is answered and the others stay as they are.
LEMMA LockAnswers ==
  ASSUME LockAssumption, check \in [Writers -> Question],
         NEW r \in Writers, NEW d \in 0..MaxDate, NEW s \in BOOLEAN,
         check' = [check EXCEPT ![r] = Verdict(r, d, s)]
  PROVE  /\ check' \in [Writers -> Question]
         /\ check'[r].at # "asking"
         /\ check'[r].at = "passed" => check'[r].sure = s /\ DateOf[r] > d
         /\ \A q \in Writers \ {r} : check'[q] = check[q]
<1>1. check'[r] = Verdict(r, d, s) /\ \A q \in Writers \ {r} : check'[q] = check[q]
  OBVIOUS
<1>2. check' \in [Writers -> Question]
  BY VerdictTells
<1>. QED  BY <1>1, <1>2, VerdictTells

\* A step of a request, of the setter, of the clock or a restart keeps the
\* invariant of the period lock.
LEMMA LockStep ==
  ASSUME LockAssumption, LockInv, [LockNext]_lockVars
  PROVE  LockInv'
<1>. USE DEF LockInv, LockAssumption, LockTypeOK, StaleEntriesExpire,
            StaleAnswersAge, SettledLockHolds, PassedChecks, Settling
<1>0. /\ check \in [Writers -> Question] /\ cache \in [Procs -> Entry]
      /\ \A r \in Writers : /\ ProcOf[r] \in Procs /\ check[r].date \in 0..MaxDate /\ check[r].age \in 0..Slow
                             /\ check[r].sure \in BOOLEAN
      /\ \A p \in Procs : cache[p].date \in 0..MaxDate /\ cache[p].left \in 0..TTL
  BY DEF Question, Entry
<1>1. ASSUME NEW r \in Writers, Hit(r) PROVE LockInv'
  <2>1. /\ check' = [check EXCEPT ![r] = Verdict(r, cache[ProcOf[r]].date, Sure(r))]
        /\ r \notin Bypassing /\ cache[ProcOf[r]].left > 0
        /\ UNCHANGED <<stored, cache, closing, setter, since, budget>>
    BY <1>1 DEF Hit
  <2>2. /\ check' \in [Writers -> Question]
        /\ check'[r].at # "asking"
        /\ check'[r].at = "passed" => check'[r].sure = Sure(r) /\ DateOf[r] > cache[ProcOf[r]].date
        /\ \A q \in Writers \ {r} : check'[q] = check[q]
    <3>1. Sure(r) \in BOOLEAN
      BY DEF Sure
    <3>. QED  BY <1>0, <2>1, <3>1, LockAnswers
  <2>3. Sure(r) => cache[ProcOf[r]].date = stored
    BY <1>0, <2>1 DEF Sure
  <2>4. SettledLockHolds'
    BY <2>1, <2>2, <2>3
  <2>5. LockTypeOK' /\ StaleEntriesExpire' /\ StaleAnswersAge'
    BY <2>1, <2>2 DEF Question
  <2>. QED  BY <2>4, <2>5
<1>2. ASSUME NEW r \in Writers, Ask(r) PROVE LockInv'
  <2>1. /\ check' = [check EXCEPT ![r] =
                     [at |-> "asking", date |-> stored, age |-> 0, sure |-> Sure(r)]]
        /\ UNCHANGED <<stored, cache, closing, setter, since, budget>>
    BY <1>2 DEF Ask
  <2>2. [at |-> "asking", date |-> stored, age |-> 0, sure |-> Sure(r)] \in Question
    <3>1. Sure(r) \in BOOLEAN /\ 0 \in 0..Slow /\ stored \in 0..MaxDate
      BY DEF Sure
    <3>. QED  BY <3>1, Zenon DEF Question
  <2>3. /\ check' \in [Writers -> Question] /\ check'[r].at = "asking" /\ check'[r].date = stored
        /\ \A q \in Writers \ {r} : check'[q] = check[q]
    BY <1>0, <2>1, <2>2
  <2>. QED  BY <2>1, <2>3 DEF Question
<1>3. ASSUME NEW r \in Writers, Answer(r) PROVE LockInv'
  <2>1. /\ check' = [check EXCEPT ![r] = Verdict(r, check[r].date, check[r].sure)]
        /\ cache' = [cache EXCEPT ![ProcOf[r]] = [date |-> check[r].date, left |-> TTL]]
        /\ check[r].at = "asking"
        /\ UNCHANGED <<stored, closing, setter, since, budget>>
    BY <1>3 DEF Answer
  <2>2. /\ check' \in [Writers -> Question]
        /\ check'[r].at # "asking"
        /\ check'[r].at = "passed" => check'[r].sure = check[r].sure /\ DateOf[r] > check[r].date
        /\ \A q \in Writers \ {r} : check'[q] = check[q]
    BY <1>0, <2>1, LockAnswers
  <2>3. /\ cache' \in [Procs -> Entry] /\ cache'[ProcOf[r]] = [date |-> check[r].date, left |-> TTL]
        /\ \A p \in Procs \ {ProcOf[r]} : cache'[p] = cache[p]
    BY <1>0, <2>1 DEF Entry
  <2>4. SettledLockHolds'
    BY <2>1, <2>2
  <2>5. StaleEntriesExpire'
    BY <1>0, <2>1, <2>3
  <2>6. StaleAnswersAge'
    BY <2>1, <2>2
  <2>7. LockTypeOK'
    BY <2>1, <2>2, <2>3 DEF Question, Entry
  <2>. QED  BY <2>4, <2>5, <2>6, <2>7
<1>4. ASSUME NEW r \in Writers, Write(r) PROVE LockInv'
  <2>1. check' = [check EXCEPT ![r] = [at |-> "idle", date |-> 0, age |-> 0, sure |-> FALSE]]
        /\ UNCHANGED <<stored, cache, closing, setter, since, budget>>
    BY <1>4 DEF Write, NoCheck
  <2>2. [at |-> "idle", date |-> 0, age |-> 0, sure |-> FALSE] \in Question
    <3>1. 0 \in 0..Slow /\ 0 \in 0..MaxDate
      OBVIOUS
    <3>. QED  BY <3>1, Zenon DEF Question
  <2>3. /\ check' \in [Writers -> Question] /\ check'[r].at = "idle"
        /\ \A q \in Writers \ {r} : check'[q] = check[q]
    BY <1>0, <2>1, <2>2
  <2>. QED  BY <2>1, <2>3 DEF Question
<1>5. ASSUME NEW p \in Procs, Store(p) PROVE LockInv'
  <2>1. /\ stored' \in 0..MaxDate /\ since' = 0 /\ setter' = p /\ closing' = closing \cup {p}
        /\ check' = [r \in Writers |-> [check[r] EXCEPT !.sure = FALSE]]
        /\ budget' = [budget EXCEPT !.changes = @ - 1] /\ budget.changes > 0 /\ UNCHANGED cache
    BY <1>5 DEF Store
  <2>2. \A r \in Writers : /\ ~check'[r].sure /\ check'[r].at = check[r].at
                            /\ check'[r].date = check[r].date /\ check'[r].age = check[r].age
    BY <1>0, <2>1 DEF Question
  <2>3. check' \in [Writers -> Question]
    <3>1. \A r \in Writers : [check[r] EXCEPT !.sure = FALSE] \in Question
      BY <1>0, Unsure
    <3>. QED  BY <2>1, <3>1
  <2>4. StaleAnswersAge' /\ SettledLockHolds'
    <3>1. \A r \in Writers : check[r].age \in Nat
      BY <1>0
    <3>. QED  BY <2>1, <2>2, <3>1
  <2>5. StaleEntriesExpire'
    BY <1>0, <2>1
  <2>6. budget' \in [changes : 0..MaxChanges, restarts : 0..MaxRestarts]
    BY <2>1
  <2>7. LockTypeOK'
    BY <2>1, <2>3, <2>6 DEF Question
  <2>. QED  BY <2>4, <2>5, <2>7
<1>6. ASSUME NEW p \in Procs, Invalidate(p) PROVE LockInv'
  <2>1. /\ cache' = [cache EXCEPT ![p] = [date |-> 0, left |-> 0]] /\ closing' = closing \ {p}
        /\ UNCHANGED <<stored, check, setter, since, budget>>
    BY <1>6 DEF Invalidate, Empty
  <2>. QED  BY <1>0, <2>1
<1>7. ASSUME NEW p \in Procs, Restart(p) PROVE LockInv'
  <2>1. /\ cache' = [cache EXCEPT ![p] = [date |-> 0, left |-> 0]] /\ closing' = closing \ {p}
        /\ check' = [r \in Writers |-> IF ProcOf[r] = p THEN NoCheck ELSE check[r]]
        /\ budget.restarts > 0 /\ budget' = [budget EXCEPT !.restarts = @ - 1]
        /\ UNCHANGED <<stored, setter, since>>
    BY <1>7 DEF Restart, Empty
  <2>2. NoCheck \in Question /\ NoCheck.at = "idle"
    <3>1. 0 \in 0..Slow /\ 0 \in 0..MaxDate
      OBVIOUS
    <3>. QED  BY <3>1, Zenon DEF Question, NoCheck
  <2>3. /\ check' \in [Writers -> Question]
        /\ \A r \in Writers : check'[r].at = "idle" \/ check'[r] = check[r]
    BY <1>0, <2>1, <2>2
  <2>4. budget' \in [changes : 0..MaxChanges, restarts : 0..MaxRestarts]
    BY <2>1
  <2>5. StaleAnswersAge' /\ SettledLockHolds'
    BY <2>1, <2>3
  <2>6. StaleEntriesExpire' /\ cache' \in [Procs -> Entry]
    BY <1>0, <2>1 DEF Entry
  <2>7. LockTypeOK'
    BY <2>1, <2>3, <2>4, <2>6 DEF Question, Entry
  <2>. QED  BY <2>5, <2>6, <2>7
<1>8. CASE Tick
  <2>1. /\ check' = [r \in Writers |-> IF check[r].at = "asking"
                                      THEN [check[r] EXCEPT !.age = check[r].age + 1] ELSE check[r]]
        /\ cache' = [p \in Procs |-> [cache[p] EXCEPT
                       !.left = IF cache[p].left = 0 THEN 0 ELSE cache[p].left - 1]]
        /\ since' = (IF since = Settling THEN since ELSE since + 1)
        /\ \A r \in Writers : check[r].at = "asking" => check[r].age < Slow
        /\ UNCHANGED <<stored, closing, setter, budget>>
    BY <1>8 DEF Tick
  <2>2. check' \in [Writers -> Question]
    <3>1. ASSUME NEW r \in Writers, check[r].at = "asking"
          PROVE  [check[r] EXCEPT !.age = check[r].age + 1] \in Question
      <4>1. check[r].age + 1 \in 0..Slow /\ check[r] \in Question
        BY <1>0, <2>1, <3>1
      <4>. QED  BY <4>1, Zenon DEF Question
    <3>. QED  BY <1>0, <2>1, <3>1
  <2>3. \A r \in Writers : /\ check'[r].at = check[r].at /\ check'[r].date = check[r].date
                            /\ check'[r].sure = check[r].sure
                            /\ check[r].at = "asking" => check'[r].age = check[r].age + 1
    BY <1>0, <2>1 DEF Question
  <2>4. \A p \in Procs : /\ cache'[p].date = cache[p].date
                         /\ cache'[p].left = IF cache[p].left = 0 THEN 0 ELSE cache[p].left - 1
    BY <1>0, <2>1 DEF Entry
  <2>5. cache' \in [Procs -> Entry]
    BY <1>0, <2>1, SMTT(40) DEF Entry
  <2>6. since' \in 0..(TTL + Slow)
    <3>1. since \in 0..(TTL + Slow) /\ TTL + Slow \in Nat
      OBVIOUS
    <3>2. since' = IF since = TTL + Slow THEN since ELSE since + 1
      BY <2>1
    <3>. HIDE DEF LockTypeOK
    <3>. QED  BY <3>1, <3>2
  <2>7. StaleEntriesExpire'
    BY <1>0, <2>1, <2>4
  <2>8. StaleAnswersAge'
    BY <1>0, <2>1, <2>3
  <2>9. SettledLockHolds'
    BY <2>1, <2>3
  <2>10. LockTypeOK'
    BY <2>1, <2>2, <2>5, <2>6 DEF Question, Entry
  <2>. QED  BY <2>7, <2>8, <2>9, <2>10
<1>9. CASE UNCHANGED lockVars
  BY <1>9 DEF lockVars
<1>. QED  BY <1>1, <1>2, <1>3, <1>4, <1>5, <1>6, <1>7, <1>8, <1>9 DEF LockNext

\* The invariant holds of empty caches.
LEMMA LockStart == ASSUME LockAssumption PROVE LockInit => LockInv
<1>. SUFFICES ASSUME LockInit PROVE LockInv
  OBVIOUS
<1>. USE DEF LockInit, LockAssumption
<1>1. NoCheck \in Question /\ NoCheck.at = "idle"
  <2>1. 0 \in 0..Slow /\ 0 \in 0..MaxDate
    OBVIOUS
  <2>. QED  BY <2>1, Zenon DEF Question, NoCheck
<1>2. LockTypeOK
  BY <1>1 DEF LockTypeOK, Question, Empty, Settling
<1>. QED
  BY <1>1, <1>2 DEF LockInv, StaleEntriesExpire, StaleAnswersAge,
                    SettledLockHolds, PassedChecks, Empty

\* The inductive invariant of the period lock: what a cache or an answer under way
\* holds is the stored date or ages together with it (getCachedLockDate).
THEOREM LockInvariant ==
  ASSUME LockAssumption PROVE LockSpec => []LockInv
BY LockStart, LockStep, PTL DEF LockSpec

\* Whatever the caches hold, a check past them that began after the date was stored
\* lets no write into the closed period, and no check does once the TTL and the
\* slowest answer have passed since (getCachedLockDate, assertNotLocked).
THEOREM LockPromise ==
  ASSUME LockAssumption PROVE LockSpec => []LockTakesHold
<1>1. LockInv => LockTakesHold
  BY DEF LockInv, LockTakesHold, BypassSeesTheLock, SettledLockHolds
<1>. QED  BY <1>1, LockInvariant, PTL

---------------------------------------------------------------------------------
(* DocNumbers: the counters of document numbers                              *)

Applicant == [at : Stages, frame : Frames \cup {NoFrame}, number : Nat]
Document == [kind : Kinds, number : Nat, by : Requests \cup {NoHolder}]

\* The highest member of a set that has one.
LEMMA HighestIs ==
  ASSUME NEW S \in SUBSET Nat, NEW m \in S, \A x \in S : x <= m
  PROVE  Max(S) = m
<1>. DEFINE M == Max(S)
<1>1. M \in S /\ \A y \in S : M >= y
  <2>1. \E x \in S : \A y \in S : x >= y
    OBVIOUS
  <2>. QED  BY <2>1, Zenon DEF Max
<1>. HIDE DEF M
<1>2. M = m
  BY <1>1
<1>. QED  BY <1>2 DEF M

\* A request gets a number, and a frame to store it in.
LEMMA ReadyTells ==
  ASSUME req \in [Requests -> Applicant], NEW r \in Requests, NEW f \in Frames, NEW n \in Nat,
         \/ req' = [req EXCEPT ![r].at = "ready", ![r].frame = f, ![r].number = n]
         \/ req' = [req EXCEPT ![r].at = "ready", ![r].number = n] /\ f = req[r].frame
  PROVE  /\ req' \in [Requests -> Applicant]
         /\ req'[r].at = "ready" /\ req'[r].frame = f /\ req'[r].number = n
         /\ \A s \in Requests \ {r} : req'[s] = req[s]
<1>1. req' \in [Requests -> Applicant]
  BY DEF Applicant, Stages
<1>. QED  BY <1>1 DEF Applicant

\* A request that goes to another place keeps its number.
LEMMA ToTells ==
  ASSUME req \in [Requests -> Applicant], NEW r \in Requests, NEW p \in Stages,
         NEW f \in Frames \cup {NoFrame}, To(r, p, f)
  PROVE  /\ req' \in [Requests -> Applicant]
         /\ req'[r].at = p /\ req'[r].frame = f /\ req'[r].number = req[r].number
         /\ \A s \in Requests \ {r} : req'[s] = req[s]
BY DEF To, Applicant

\* What findCounter tells: no frame; or one, and whether the kind's counter is in it.
LEMMA FindTells ==
  ASSUME req \in [Requests -> Applicant], frames \subseteq Frames, NEW r \in Requests,
         NEW found \in Stages, NEW missing \in Stages,
         Find(r, found, missing)
  PROVE  /\ req' \in [Requests -> Applicant] /\ req'[r].number = req[r].number
         /\ \A s \in Requests \ {r} : req'[s] = req[s]
         /\ \/ /\ req'[r].at = found
               /\ req'[r].frame \in frames /\ slot[req'[r].frame][KindOf[r]] # NoValue
            \/ /\ req'[r].at = missing
               /\ req'[r].frame \in frames /\ slot[req'[r].frame][KindOf[r]] = NoValue
            \/ /\ req'[r].at = missing
               /\ frames = {} /\ req'[r].frame = NoFrame
<1>1. CASE frames = {}
  <2>1. To(r, missing, NoFrame)
    BY <1>1 DEF Find
  <2>. QED  BY <1>1, <2>1, ToTells
<1>2. CASE frames # {}
  <2>1. PICK f \in frames :
          To(r, IF slot[f][KindOf[r]] # NoValue THEN found ELSE missing, f)
    BY <1>2 DEF Find
  <2>. f \in Frames \cup {NoFrame}
    OBVIOUS
  <2>2. CASE slot[f][KindOf[r]] # NoValue
    <3>1. To(r, found, f)
      BY <2>1, <2>2
    <3>. QED  BY <2>2, <3>1, ToTells
  <2>3. CASE slot[f][KindOf[r]] = NoValue
    <3>1. To(r, missing, f)
      BY <2>1, <2>3
    <3>. QED  BY <2>3, <3>1, ToTells
  <2>. QED  BY <2>2, <2>3
<1>. QED  BY <1>1, <1>2

\* The end of a transaction frees its locks and no others.
LEMMA UnlockedTells ==
  ASSUME NumbersAssumption, NumbersTypeOK, NEW r \in Requests, Unlocked(r)
  PROVE  /\ advisory' \in [Kinds -> Requests \cup {NoHolder}]
         /\ rowLock' \in [Frames -> [Kinds -> Requests \cup {NoHolder}]]
         /\ \A s \in Requests \ {r}, k \in Kinds : advisory[k] = s => advisory'[k] = s
         /\ \A s \in Requests \ {r}, f \in Frames, k \in Kinds :
              rowLock[f][k] = s => rowLock'[f][k] = s
BY DEF Unlocked, NumbersTypeOK, NumbersAssumption

\* The number of a kind's first counter is above its highest document's.
LEMMA BootstrapTells ==
  ASSUME NumbersAssumption, NumbersTypeOK, HasHighest,
         NEW r \in Requests, Bootstrap(r)
  PROVE  \E f \in Frames, n \in Nat :
           /\ \A d \in docs : d.kind = KindOf[r] => d.number < n
           /\ req' \in [Requests -> Applicant]
           /\ req'[r].at = "ready" /\ req'[r].frame = f /\ req'[r].number = n
           /\ \A s \in Requests \ {r} : req'[s] = req[s]
           /\ IF req[r].frame # NoFrame THEN f = req[r].frame ELSE f \notin frames
<1>. DEFINE S == {d.number : d \in {e \in docs : e.kind = KindOf[r]}}
<1>1. KindOf[r] \in Kinds /\ docs \subseteq Document
  BY DEF NumbersAssumption, NumbersTypeOK, Document
<1>2. PICK d \in docs : d.kind = KindOf[r] /\ \A e \in docs : e.kind = KindOf[r] => e.number <= d.number
  BY <1>1 DEF HasHighest
<1>3. S \in SUBSET Nat /\ d.number \in S /\ \A x \in S : x <= d.number
  BY <1>1, <1>2 DEF Document
<1>4. Max(S) = d.number /\ d.number \in Nat
  BY <1>3, HighestIs
<1>5. \A e \in docs : e.kind = KindOf[r] => e.number < d.number + 1
  BY <1>1, <1>2 DEF Document
<1>6. PICK f \in Frames :
        /\ IF req[r].frame # NoFrame THEN f = req[r].frame ELSE f \notin frames
        /\ req' = [req EXCEPT ![r].at = "ready", ![r].frame = f, ![r].number = Max(S) + 1]
  BY DEF Bootstrap
<1>7. req' = [req EXCEPT ![r].at = "ready", ![r].frame = f, ![r].number = d.number + 1]
  BY <1>4, <1>6
<1>8. d.number + 1 \in Nat
  BY <1>4
<1>9. req \in [Requests -> Applicant]
  BY DEF NumbersTypeOK, Applicant
<1>10. /\ req' \in [Requests -> Applicant]
       /\ req'[r].at = "ready" /\ req'[r].frame = f /\ req'[r].number = d.number + 1
       /\ \A s \in Requests \ {r} : req'[s] = req[s]
  BY <1>7, <1>8, <1>9, ReadyTells
<1>. HIDE DEF S
<1>. QED  BY <1>5, <1>6, <1>8, <1>10

\* A commit of request r with a frame.
LEMMA WrittenTells ==
  ASSUME NumbersAssumption, NumbersTypeOK, NEW r \in Requests,
         req[r].frame \in Frames, Written(r)
  PROVE  /\ slot' \in [Frames -> [Kinds -> Nat \cup {NoValue}]]
         /\ slot'[req[r].frame][KindOf[r]] = req[r].number
         /\ \A f \in Frames, k \in Kinds :
              f # req[r].frame \/ k # KindOf[r] => slot'[f][k] = slot[f][k]
         /\ \E d \in Document : /\ docs' = docs \cup {d} /\ d.kind = KindOf[r]
                                /\ d.number = req[r].number /\ d.by = r
         /\ frames' = frames \cup {req[r].frame}
<1>. USE DEF NumbersAssumption, NumbersTypeOK, Written
<1>1. req[r].number \in Nat /\ KindOf[r] \in Kinds
  OBVIOUS
<1>2. [kind |-> KindOf[r], number |-> req[r].number, by |-> r] \in Document
  BY <1>1 DEF Document
<1>. QED  BY <1>1, <1>2

\* A step of a request keeps the variables in their types, a request that goes on
\* to a number at a frame, and a highest document for every kind.
LEMMA NumbersTyping ==
  ASSUME NumbersAssumption, NumbersTypeOK, Placed, HasHighest,
         [NumbersNext]_numbersVars
  PROVE  NumbersTypeOK' /\ Placed' /\ HasHighest'
<1>. DEFINE Goal == NumbersTypeOK' /\ Placed' /\ HasHighest'
<1>. USE DEF NumbersAssumption, Placed, HasHighest
<1>0. /\ req \in [Requests -> Applicant] /\ docs \subseteq Document /\ frames \subseteq Frames
      /\ \A r \in Requests : KindOf[r] \in Kinds
  BY DEF NumbersTypeOK, Applicant, Document
<1>1. ASSUME NEW r \in Requests, Look(r) PROVE Goal
  <2>1. Find(r, "increment", "wait") /\ UNCHANGED <<frames, slot, docs, advisory, rowLock>>
    BY <1>1 DEF Look
  <2>2. "increment" \in Stages /\ "wait" \in Stages
    BY DEF Stages
  <2>3. /\ req' \in [Requests -> Applicant] /\ (\A s \in Requests \ {r} : req'[s] = req[s])
        /\ req'[r].at # "ready"
        /\ req'[r].at = "increment" =>
             req'[r].frame \in frames /\ slot[req'[r].frame][KindOf[r]] # NoValue
    BY <1>0, <2>1, <2>2, FindTells
  <2>. QED  BY <2>1, <2>3 DEF NumbersTypeOK, Applicant
<1>2. ASSUME NEW r \in Requests, Increment(r) PROVE Goal
  <2>. DEFINE f == req[r].frame
              k == KindOf[r]
  <2>1. /\ req' = [req EXCEPT ![r].at = "ready", ![r].number = slot[f][k] + 1]
        /\ rowLock' = [rowLock EXCEPT ![f][k] = r] /\ req[r].at = "increment"
        /\ UNCHANGED <<frames, slot, docs, advisory>>
    BY <1>2 DEF Increment
  <2>2. f \in Frames /\ k \in Kinds /\ slot[f][k] \in Nat
    BY <1>0, <2>1 DEF NumbersTypeOK
  <2>3. /\ req' \in [Requests -> Applicant] /\ (\A s \in Requests \ {r} : req'[s] = req[s])
        /\ req'[r].at = "ready" /\ req'[r].frame = f
    <3>1. slot[f][k] + 1 \in Nat
      BY <2>2
    <3>. QED  BY <1>0, <2>1, <2>2, <3>1, ReadyTells, ZenonT(60)
  <2>4. rowLock' \in [Frames -> [Kinds -> Requests \cup {NoHolder}]]
    BY <2>1, <2>2 DEF NumbersTypeOK
  <2>. HIDE DEF f, k
  <2>. QED  BY <2>1, <2>2, <2>3, <2>4 DEF NumbersTypeOK, Applicant
<1>3. ASSUME NEW r \in Requests, Lock(r) PROVE Goal
  <2>1. /\ To(r, "again", req[r].frame)
        /\ advisory' = [advisory EXCEPT ![KindOf[r]] = r]
        /\ UNCHANGED <<frames, slot, docs, rowLock>>
    BY <1>3 DEF Lock
  <2>2. "again" \in Stages /\ req[r].frame \in Frames \cup {NoFrame}
    BY <1>0 DEF Stages, Applicant
  <2>3. /\ req' \in [Requests -> Applicant] /\ (\A s \in Requests \ {r} : req'[s] = req[s])
        /\ req'[r].at = "again"
    BY <1>0, <2>1, <2>2, ToTells
  <2>. QED  BY <1>0, <2>1, <2>3 DEF NumbersTypeOK, Applicant
<1>4. ASSUME NEW r \in Requests, LookAgain(r) PROVE Goal
  <2>1. Find(r, "increment", "bootstrap") /\ UNCHANGED <<frames, slot, docs, advisory, rowLock>>
    BY <1>4 DEF LookAgain
  <2>2. "increment" \in Stages /\ "bootstrap" \in Stages
    BY DEF Stages
  <2>3. /\ req' \in [Requests -> Applicant] /\ (\A s \in Requests \ {r} : req'[s] = req[s])
        /\ req'[r].at # "ready"
        /\ req'[r].at = "increment" =>
             req'[r].frame \in frames /\ slot[req'[r].frame][KindOf[r]] # NoValue
    BY <1>0, <2>1, <2>2, FindTells
  <2>. QED  BY <2>1, <2>3 DEF NumbersTypeOK, Applicant
<1>5. ASSUME NEW r \in Requests, Bootstrap(r) PROVE Goal
  <2>1. UNCHANGED <<frames, slot, docs, advisory, rowLock>>
    BY <1>5 DEF Bootstrap
  <2>2. PICK f \in Frames : req'[r].frame = f
    BY <1>5, BootstrapTells
  <2>3. /\ req' \in [Requests -> Applicant] /\ (\A s \in Requests \ {r} : req'[s] = req[s])
        /\ req'[r].at = "ready"
    BY <1>5, BootstrapTells
  <2>. QED  BY <2>1, <2>2, <2>3 DEF NumbersTypeOK, Applicant
<1>6. ASSUME NEW r \in Requests, Commit(r) PROVE Goal
  <2>1. /\ req[r].at = "ready" /\ Written(r) /\ To(r, "done", NoFrame)
        /\ Unlocked(r)
    BY <1>6 DEF Commit
  <2>2. /\ slot' \in [Frames -> [Kinds -> Nat \cup {NoValue}]]
        /\ slot'[req[r].frame][KindOf[r]] = req[r].number
        /\ \A f \in Frames, k \in Kinds :
             f # req[r].frame \/ k # KindOf[r] => slot'[f][k] = slot[f][k]
        /\ frames' = frames \cup {req[r].frame}
    BY <2>1, WrittenTells
  <2>3. PICK d \in Document : docs' = docs \cup {d} /\ d.kind = KindOf[r]
    BY <2>1, WrittenTells
  <2>4. req[r].frame \in Frames /\ req[r].number \in Nat
    BY <1>0, <2>1 DEF Applicant
  <2>5. /\ req' \in [Requests -> Applicant] /\ (\A s \in Requests \ {r} : req'[s] = req[s])
        /\ req'[r].at = "done"
    BY <1>0, <2>1, ToTells DEF Stages
  <2>6. HasHighest'
    <3>. SUFFICES ASSUME NEW k \in Kinds
                  PROVE  \E h \in docs' : h.kind = k /\ \A e \in docs' : e.kind = k => e.number <= h.number
      OBVIOUS
    <3>1. PICK h \in docs : h.kind = k /\ \A e \in docs : e.kind = k => e.number <= h.number
      OBVIOUS
    <3>2. \A e \in docs \cup {d} : e.number \in Nat
      BY <1>0 DEF Document
    <3>3. CASE d.kind = k /\ d.number > h.number
      BY <2>3, <3>1, <3>2, <3>3
    <3>4. CASE ~(d.kind = k /\ d.number > h.number)
      BY <2>3, <3>1, <3>2, <3>4
    <3>. QED  BY <3>3, <3>4
  <2>7. Placed'
    <3>. SUFFICES ASSUME NEW s \in Requests
         PROVE  /\ req'[s].at = "increment" =>
                     req'[s].frame \in frames' /\ slot'[req'[s].frame][KindOf[s]] # NoValue
                /\ req'[s].at = "ready" => req'[s].frame \in Frames
      OBVIOUS
    <3>1. CASE s = r
      BY <2>5, <3>1
    <3>2. CASE s # r
      BY <1>0, <2>2, <2>4, <2>5, <3>2
    <3>. QED  BY <3>1, <3>2
  <2>8. NumbersTypeOK'
    <3>1. /\ advisory' \in [Kinds -> Requests \cup {NoHolder}]
          /\ rowLock' \in [Frames -> [Kinds -> Requests \cup {NoHolder}]]
      BY <2>1, UnlockedTells
    <3>2. frames' \subseteq Frames /\ docs' \subseteq Document
      BY <1>0, <2>2, <2>3, <2>4
    <3>3. \A f \in Frames, k \in Kinds : slot'[f][k] # NoValue => f \in frames'
      BY <2>2 DEF NumbersTypeOK
    <3>. QED  BY <2>2, <2>5, <3>1, <3>2, <3>3 DEF NumbersTypeOK, Applicant, Document
  <2>. QED  BY <2>6, <2>7, <2>8
<1>7. ASSUME NEW r \in Requests, Abort(r) PROVE Goal
  <2>1. To(r, "done", NoFrame) /\ Unlocked(r) /\ UNCHANGED <<frames, slot, docs>>
    BY <1>7 DEF Abort
  <2>2. /\ req' \in [Requests -> Applicant] /\ (\A s \in Requests \ {r} : req'[s] = req[s])
        /\ req'[r].at = "done"
    BY <1>0, <2>1, ToTells DEF Stages
  <2>3. /\ advisory' \in [Kinds -> Requests \cup {NoHolder}]
        /\ rowLock' \in [Frames -> [Kinds -> Requests \cup {NoHolder}]]
    BY <2>1, UnlockedTells
  <2>. QED  BY <2>1, <2>2, <2>3 DEF NumbersTypeOK, Applicant
<1>8. CASE UNCHANGED numbersVars
  BY <1>8 DEF numbersVars, NumbersTypeOK
<1>. QED
  BY <1>1, <1>2, <1>3, <1>4, <1>5, <1>6, <1>7, <1>8 DEF NumbersNext, Serve

\* Two requests that hold a number of one kind, or are about to make its counter,
\* are one.
LEMMA OneAtACounter ==
  ASSUME NumbersAssumption, NumbersTypeOK, OneFrameOnly, InTurn,
         NEW r \in Requests, NEW s \in Requests, KindOf[r] = KindOf[s],
         req[r].at = "ready", req[s].at \in {"bootstrap", "ready"}
  PROVE  r = s
BY DEF NumbersAssumption, NumbersTypeOK, OneFrameOnly, InTurn, First,
       Unnumbered, Incremented

\* While a book has no second frame, the advisory lock and the lock of the counter's row
\* let one request of a kind number its document at a time.
LEMMA NumbersOnce ==
  ASSUME NumbersAssumption, NumbersInv, OneFrameOnly,
         [NumbersNext]_numbersVars
  PROVE  InTurn' /\ DistinctNumbers' /\ CounterLeads'
<1>. DEFINE Goal == InTurn' /\ DistinctNumbers' /\ CounterLeads'
<1>. USE DEF NumbersAssumption, NumbersInv, Placed
<1>0. /\ req \in [Requests -> Applicant] /\ docs \subseteq Document /\ frames \subseteq Frames
      /\ \A r \in Requests : KindOf[r] \in Kinds
  BY DEF NumbersTypeOK, Applicant, Document
<1>1. ASSUME NEW r \in Requests, Look(r) PROVE Goal
  <2>1. Find(r, "increment", "wait") /\ UNCHANGED <<frames, slot, docs, advisory, rowLock>>
    BY <1>1 DEF Look
  <2>2. "increment" \in Stages /\ "wait" \in Stages
    BY DEF Stages
  <2>3. /\ \A s \in Requests \ {r} : req'[s] = req[s]
        /\ req'[r].at \in {"increment", "wait"}
    BY <1>0, <2>1, <2>2, FindTells
  <2>. QED  BY <2>1, <2>3 DEF InTurn, First, Unnumbered,
    Incremented, DistinctNumbers, CounterLeads
<1>2. ASSUME NEW r \in Requests, Increment(r) PROVE Goal
  <2>. DEFINE f == req[r].frame
              k == KindOf[r]
  <2>1. /\ req' = [req EXCEPT ![r].at = "ready", ![r].number = slot[f][k] + 1]
        /\ rowLock' = [rowLock EXCEPT ![f][k] = r] /\ req[r].at = "increment"
        /\ rowLock[f][k] = NoHolder
        /\ UNCHANGED <<frames, slot, docs, advisory>>
    BY <1>2 DEF Increment
  <2>2. f \in frames /\ f \in Frames /\ k \in Kinds /\ slot[f][k] \in Nat /\ slot[f][k] # NoValue
    BY <1>0, <2>1 DEF NumbersTypeOK
  <2>3. /\ \A s \in Requests \ {r} : req'[s] = req[s]
        /\ req'[r].at = "ready" /\ req'[r].frame = f /\ req'[r].number = slot[f][k] + 1
    <3>1. slot[f][k] + 1 \in Nat
      BY <2>2
    <3>. QED  BY <1>0, <2>1, <2>2, <3>1, ReadyTells, ZenonT(60)
  <2>4. /\ rowLock'[f][k] = r
        /\ \A s \in Requests, g \in Frames, l \in Kinds : rowLock[g][l] = s => rowLock'[g][l] = s
    BY <2>1, <2>2 DEF NumbersTypeOK
  <2>5. \A d \in docs : d.kind = k => d.number < slot[f][k] + 1
    BY <1>0, <2>2 DEF Document, CounterLeads
  <2>. HIDE DEF f, k
  <2>6. InTurn'
    <3>. SUFFICES ASSUME NEW s \in Requests
         PROVE  /\ req'[s].at = "again" => advisory'[KindOf[s]] = s
                /\ req'[s].at = "bootstrap" => First(s)'
                /\ req'[s].at = "ready" =>
                     /\ First(s)' \/ Incremented(s)'
                     /\ \A d \in docs' : d.kind = KindOf[s] => d.number < req'[s].number
      BY DEF InTurn
    <3>1. CASE s = r
      <4>1. Incremented(r)'
        BY <2>1, <2>2, <2>3, <2>4 DEF k, Incremented
      <4>. QED  BY <2>1, <2>3, <2>5, <3>1, <4>1 DEF k
    <3>2. CASE s # r
      <4>1. req'[s] = req[s] /\ KindOf[s] \in Kinds
        BY <1>0, <2>3, <3>2
      <4>2. First(s) => First(s)'
        BY <2>1 DEF First, Unnumbered
      <4>3. req[s].at = "ready" /\ Incremented(s) => Incremented(s)'
        BY <1>0, <2>1, <2>4, <4>1 DEF Incremented
      <4>. QED  BY <2>1, <4>1, <4>2, <4>3 DEF InTurn
    <3>. QED  BY <3>1, <3>2
  <2>. QED  BY <2>1, <2>6 DEF DistinctNumbers, CounterLeads
<1>3. ASSUME NEW r \in Requests, Lock(r) PROVE Goal
  <2>1. /\ To(r, "again", req[r].frame)
        /\ advisory' = [advisory EXCEPT ![KindOf[r]] = r] /\ advisory[KindOf[r]] = NoHolder
        /\ UNCHANGED <<frames, slot, docs, rowLock>>
    BY <1>3 DEF Lock
  <2>2. "again" \in Stages /\ req[r].frame \in Frames \cup {NoFrame}
    BY <1>0 DEF Stages, Applicant
  <2>3. /\ (\A s \in Requests \ {r} : req'[s] = req[s]) /\ req'[r].at = "again"
    BY <1>0, <2>1, <2>2, ToTells
  <2>4. /\ advisory'[KindOf[r]] = r
        /\ \A s \in Requests, k \in Kinds : advisory[k] = s => advisory'[k] = s
    BY <1>0, <2>1 DEF NumbersTypeOK
  <2>5. InTurn'
    BY <1>0, <2>1, <2>3, <2>4 DEF InTurn, First, Unnumbered, Incremented
  <2>. QED  BY <2>1, <2>5 DEF DistinctNumbers, CounterLeads
<1>4. ASSUME NEW r \in Requests, LookAgain(r) PROVE Goal
  <2>1. /\ Find(r, "increment", "bootstrap") /\ req[r].at = "again"
        /\ UNCHANGED <<frames, slot, docs, advisory, rowLock>>
    BY <1>4 DEF LookAgain
  <2>2. "increment" \in Stages /\ "bootstrap" \in Stages
    BY DEF Stages
  <2>3. \A s \in Requests \ {r} : req'[s] = req[s]
    BY <1>0, <2>1, <2>2, FindTells
  <2>4. \/ req'[r].at = "increment"
        \/ /\ req'[r].at = "bootstrap"
           /\ \/ req'[r].frame \in frames /\ slot[req'[r].frame][KindOf[r]] = NoValue
              \/ frames = {} /\ req'[r].frame = NoFrame
    BY <1>0, <2>1, <2>2, FindTells
  <2>5. req'[r].at = "bootstrap" => Unnumbered(KindOf[r])
    BY <1>0, <2>4 DEF NumbersTypeOK, Unnumbered, OneFrameOnly
  <2>6. InTurn'
    BY <2>1, <2>3, <2>4, <2>5 DEF InTurn, First, Unnumbered, Incremented
  <2>. QED  BY <2>1, <2>6 DEF DistinctNumbers, CounterLeads
<1>5. ASSUME NEW r \in Requests, Bootstrap(r) PROVE Goal
  <2>1. PICK f \in Frames, n \in Nat :
          /\ \A d \in docs : d.kind = KindOf[r] => d.number < n
          /\ req'[r].at = "ready" /\ req'[r].frame = f /\ req'[r].number = n
          /\ \A s \in Requests \ {r} : req'[s] = req[s]
          /\ IF req[r].frame # NoFrame THEN f = req[r].frame ELSE f \notin frames
    BY <1>5, BootstrapTells
  <2>2. UNCHANGED <<frames, slot, docs, advisory, rowLock>> /\ req[r].at = "bootstrap"
    BY <1>5 DEF Bootstrap
  <2>3. /\ (\A s \in Requests \ {r} : req'[s] = req[s])
        /\ req'[r].at = "ready" /\ req'[r].frame = f /\ req'[r].number = n
    BY <2>1
  <2>4. InTurn'
    <3>1. First(r)'
      BY <2>2 DEF InTurn, First, Unnumbered
    <3>2. \A s \in Requests \ {r} : /\ First(s) => First(s)'
                                    /\ Incremented(s) => Incremented(s)'
      BY <2>2, <2>3 DEF First, Unnumbered, Incremented
    <3>3. \A d \in docs' : d.kind = KindOf[r] => d.number < req'[r].number
      BY <2>1, <2>2, <2>3
    <3>. QED  BY <2>2, <2>3, <3>1, <3>2, <3>3 DEF InTurn
  <2>. QED  BY <2>2, <2>4 DEF DistinctNumbers, CounterLeads
<1>6. ASSUME NEW r \in Requests, Commit(r) PROVE Goal
  <2>. DEFINE f == req[r].frame
              k == KindOf[r]
              n == req[r].number
  <2>1. /\ req[r].at = "ready" /\ Written(r) /\ To(r, "done", NoFrame)
        /\ Unlocked(r)
    BY <1>6 DEF Commit
  <2>2. f \in Frames /\ n \in Nat /\ k \in Kinds /\ \A d \in docs : d.kind = k => d.number < n
    BY <1>0, <2>1 DEF Applicant, InTurn
  <2>3. /\ slot' \in [Frames -> [Kinds -> Nat \cup {NoValue}]]
        /\ slot'[f][k] = n
        /\ \A g \in Frames, l \in Kinds : g # f \/ l # k => slot'[g][l] = slot[g][l]
        /\ frames' = frames \cup {f}
    BY <2>1, <2>2, WrittenTells
  <2>4. PICK d \in Document : docs' = docs \cup {d} /\ d.kind = k /\ d.number = n
    BY <2>1, <2>2, WrittenTells
  <2>5. (\A s \in Requests \ {r} : req'[s] = req[s]) /\ req'[r].at = "done"
    BY <1>0, <2>1, ToTells DEF Stages
  <2>6. /\ \A s \in Requests \ {r}, l \in Kinds : advisory[l] = s => advisory'[l] = s
        /\ \A s \in Requests \ {r}, g \in Frames, l \in Kinds :
             rowLock[g][l] = s => rowLock'[g][l] = s
    BY <2>1, UnlockedTells
  <2>7. \A s \in Requests \ {r} : req[s].at \in {"bootstrap", "ready"} => KindOf[s] # k
    BY <2>1, OneAtACounter
  <2>8. \A g \in Frames : slot[g][k] # NoValue => g = f
    BY <1>0, <2>1, <2>2 DEF NumbersTypeOK, InTurn, OneFrameOnly, First,
       Unnumbered, Incremented
  <2>. HIDE DEF f, k, n
  <2>10. DistinctNumbers'
    <3>1. \A e \in docs : e.kind = k => e.number # n
      BY <1>0, <2>2 DEF Document
    <3>. QED  BY <2>4, <3>1 DEF DistinctNumbers
  <2>11. CounterLeads'
    <3>. SUFFICES ASSUME NEW g \in Frames, NEW l \in Kinds, slot'[g][l] # NoValue,
                         NEW e \in docs', e.kind = l
                  PROVE  e.number <= slot'[g][l]
      BY DEF CounterLeads
    <3>1. CASE l = k
      <4>1. g = f
        BY <2>3, <2>8, <3>1
      <4>2. e.number <= n
        BY <1>0, <2>2, <2>4, <3>1 DEF Document
      <4>. QED  BY <2>3, <3>1, <4>1, <4>2
    <3>2. CASE l # k
      BY <2>3, <2>4, <3>2 DEF CounterLeads
    <3>. QED  BY <3>1, <3>2
  <2>13. InTurn'
    <3>. SUFFICES ASSUME NEW s \in Requests
         PROVE  /\ req'[s].at = "again" => advisory'[KindOf[s]] = s
                /\ req'[s].at = "bootstrap" => First(s)'
                /\ req'[s].at = "ready" =>
                     /\ First(s)' \/ Incremented(s)'
                     /\ \A e \in docs' : e.kind = KindOf[s] => e.number < req'[s].number
      BY DEF InTurn
    <3>1. CASE s = r
      BY <2>5, <3>1
    <3>2. CASE s # r /\ req[s].at = "again"
      BY <1>0, <2>5, <2>6, <3>2 DEF InTurn
    <3>3. CASE s # r /\ req[s].at \in {"bootstrap", "ready"}
      <4>1. KindOf[s] # k /\ KindOf[s] \in Kinds /\ req'[s] = req[s]
        BY <1>0, <2>5, <2>7, <3>3
      <4>2. First(s) => First(s)'
        BY <2>3, <2>6, <3>3, <4>1 DEF First, Unnumbered
      <4>3. Incremented(s) => Incremented(s)'
        <5>. SUFFICES ASSUME Incremented(s) PROVE Incremented(s)'
          OBVIOUS
        <5>1. req[s].frame \in Frames
          BY <1>0 DEF Incremented
        <5>. QED  BY <2>3, <2>6, <3>3, <4>1, <5>1 DEF Incremented
      <4>4. \A e \in docs' : e.kind = KindOf[s] => e \in docs
        BY <2>4, <4>1
      <4>. QED  BY <3>3, <4>1, <4>2, <4>3, <4>4 DEF InTurn
    <3>4. CASE s # r /\ req[s].at \notin {"again", "bootstrap", "ready"}
      BY <2>5, <3>4
    <3>. QED  BY <3>1, <3>2, <3>3, <3>4
  <2>. QED  BY <2>10, <2>11, <2>13
<1>7. ASSUME NEW r \in Requests, Abort(r) PROVE Goal
  <2>1. To(r, "done", NoFrame) /\ Unlocked(r) /\ UNCHANGED <<frames, slot, docs>>
    BY <1>7 DEF Abort
  <2>2. (\A s \in Requests \ {r} : req'[s] = req[s]) /\ req'[r].at = "done"
    BY <1>0, <2>1, ToTells DEF Stages
  <2>3. /\ \A s \in Requests \ {r}, l \in Kinds : advisory[l] = s => advisory'[l] = s
        /\ \A s \in Requests \ {r}, g \in Frames, l \in Kinds :
             rowLock[g][l] = s => rowLock'[g][l] = s
    BY <2>1, UnlockedTells
  <2>4. InTurn'
    <3>. SUFFICES ASSUME NEW s \in Requests \ {r}
         PROVE  /\ req[s].at = "again" => advisory'[KindOf[s]] = s
                /\ req[s].at = "bootstrap" => First(s)'
                /\ req[s].at = "ready" => First(s)' \/ Incremented(s)'
      BY <2>1, <2>2 DEF InTurn
    <3>1. First(s) => First(s)'
      BY <1>0, <2>1, <2>3 DEF First, Unnumbered
    <3>2. req[s].at = "ready" /\ Incremented(s) => Incremented(s)'
      BY <1>0, <2>1, <2>2, <2>3 DEF Incremented
    <3>. QED  BY <1>0, <2>3, <3>1, <3>2 DEF InTurn
  <2>. QED  BY <2>1, <2>4 DEF DistinctNumbers, CounterLeads
<1>8. CASE UNCHANGED numbersVars
  BY <1>8 DEF InTurn, First, Unnumbered,
    Incremented, DistinctNumbers, CounterLeads, numbersVars
<1>. QED
  BY <1>1, <1>2, <1>3, <1>4, <1>5, <1>6, <1>7, <1>8 DEF NumbersNext, Serve

\* Of one kind of document, whoever makes the frame holds the kind's advisory lock.
LEMMA FrameOnce ==
  ASSUME NumbersAssumption, NumbersInv, OneKindOnly,
         [NumbersNext]_numbersVars
  PROVE  OneFrame'
<1>. USE DEF NumbersAssumption, NumbersInv, Placed, OneFrame, OneFrameOnly
<1>0. /\ req \in [Requests -> Applicant] /\ frames \subseteq Frames
      /\ \A r \in Requests : KindOf[r] \in Kinds
  BY DEF NumbersTypeOK, Applicant
<1>1. ASSUME NEW r \in Requests, Look(r) PROVE OneFrame'
  <2>1. Find(r, "increment", "wait") /\ UNCHANGED <<frames, slot>>
    BY <1>1 DEF Look
  <2>2. "increment" \in Stages /\ "wait" \in Stages
    BY DEF Stages
  <2>3. (\A s \in Requests \ {r} : req'[s] = req[s]) /\ req'[r].at \in {"increment", "wait"}
    BY <1>0, <2>1, <2>2, FindTells
  <2>. QED  BY <2>1, <2>3
<1>2. ASSUME NEW r \in Requests, Increment(r) PROVE OneFrame'
  <2>. DEFINE f == req[r].frame
              k == KindOf[r]
  <2>1. /\ req' = [req EXCEPT ![r].at = "ready", ![r].number = slot[f][k] + 1]
        /\ req[r].at = "increment" /\ UNCHANGED frames
    BY <1>2 DEF Increment
  <2>2. f \in frames /\ f \in Frames /\ slot[f][k] \in Nat
    BY <1>0, <2>1 DEF NumbersTypeOK
  <2>3. (\A s \in Requests \ {r} : req'[s] = req[s]) /\ req'[r].at = "ready" /\ req'[r].frame = f
    <3>1. slot[f][k] + 1 \in Nat
      BY <2>2
    <3>. QED  BY <1>0, <2>1, <2>2, <3>1, ReadyTells, ZenonT(60)
  <2>. HIDE DEF f, k
  <2>4. \A s \in Requests : s = r \/ req'[s] = req[s]
    BY <2>3
  <2>5. UNCHANGED frames
    BY <2>1
  <2>. QED  BY <2>2, <2>3, <2>4, <2>5
<1>3. ASSUME NEW r \in Requests, Lock(r) PROVE OneFrame'
  <2>1. To(r, "again", req[r].frame) /\ UNCHANGED frames
    BY <1>3 DEF Lock
  <2>2. "again" \in Stages /\ req[r].frame \in Frames \cup {NoFrame}
    BY <1>0 DEF Stages, Applicant
  <2>3. (\A s \in Requests \ {r} : req'[s] = req[s]) /\ req'[r].at = "again"
    BY <1>0, <2>1, <2>2, ToTells
  <2>. QED  BY <2>1, <2>3
<1>4. ASSUME NEW r \in Requests, LookAgain(r) PROVE OneFrame'
  <2>1. Find(r, "increment", "bootstrap") /\ UNCHANGED frames
    BY <1>4 DEF LookAgain
  <2>2. "increment" \in Stages /\ "bootstrap" \in Stages
    BY DEF Stages
  <2>3. /\ \A s \in Requests \ {r} : req'[s] = req[s]
        /\ \/ req'[r].at = "increment"
           \/ req'[r].at = "bootstrap" /\ req'[r].frame \in frames
           \/ req'[r].at = "bootstrap" /\ frames = {} /\ req'[r].frame = NoFrame
    BY <1>0, <2>1, <2>2, FindTells
  <2>. QED  BY <2>1, <2>3
<1>5. ASSUME NEW r \in Requests, Bootstrap(r) PROVE OneFrame'
  <2>1. PICK f \in Frames :
          /\ req'[r].at = "ready" /\ req'[r].frame = f
          /\ \A s \in Requests \ {r} : req'[s] = req[s]
          /\ IF req[r].frame # NoFrame THEN f = req[r].frame ELSE f \notin frames
    BY <1>5, BootstrapTells
  <2>2. UNCHANGED frames /\ req[r].at = "bootstrap"
    BY <1>5 DEF Bootstrap
  <2>3. frames = {} \/ f \in frames
    BY <1>0, <2>1, <2>2
  <2>. QED  BY <2>1, <2>2, <2>3
<1>6. ASSUME NEW r \in Requests, Commit(r) PROVE OneFrame'
  <2>1. req[r].at = "ready" /\ Written(r) /\ To(r, "done", NoFrame)
    BY <1>6 DEF Commit
  <2>2. (\A s \in Requests \ {r} : req'[s] = req[s]) /\ req'[r].at = "done"
    BY <1>0, <2>1, ToTells DEF Stages
  <2>3. frames' = frames \cup {req[r].frame} /\ (frames = {} \/ req[r].frame \in frames)
    BY <2>1 DEF Written
  <2>4. ASSUME NEW s \in Requests \ {r}, req[s].at \in {"bootstrap", "ready"} PROVE frames # {}
    <3>1. KindOf[r] = KindOf[s]
      BY <1>0 DEF OneKindOnly
    <3>. QED  BY <2>1, <2>4, <3>1, OneAtACounter
  <2>. QED  BY <2>2, <2>3, <2>4
<1>7. ASSUME NEW r \in Requests, Abort(r) PROVE OneFrame'
  <2>1. To(r, "done", NoFrame) /\ UNCHANGED frames
    BY <1>7 DEF Abort
  <2>2. (\A s \in Requests \ {r} : req'[s] = req[s]) /\ req'[r].at = "done"
    BY <1>0, <2>1, ToTells DEF Stages
  <2>. QED  BY <2>1, <2>2
<1>8. CASE UNCHANGED numbersVars
  BY <1>8 DEF numbersVars
<1>. QED
  BY <1>1, <1>2, <1>3, <1>4, <1>5, <1>6, <1>7, <1>8 DEF NumbersNext, Serve

\* The invariant holds of a book whose counters are not behind its documents.
LEMMA NumbersStart == ASSUME NumbersAssumption PROVE NumbersInit => NumbersInv
<1>. SUFFICES ASSUME NumbersInit PROVE NumbersInv
  OBVIOUS
<1>. USE DEF NumbersAssumption
<1>1. frames \subseteq Frames /\ OneFrameOnly
  BY DEF NumbersInit, OneFrameOnly
<1>2. \A r \in Requests : req[r].at = "new" /\ req[r].frame = NoFrame /\ req[r].number = 0
  BY DEF NumbersInit
<1>3. /\ docs \subseteq Document
      /\ \A k \in Kinds : \E d \in docs : d.kind = k
      /\ \A d \in docs : d.number = Oldest /\ d.by = NoHolder
      /\ \A d, e \in docs : d.kind = e.kind => d = e
  <2>1. docs = {[kind |-> k, number |-> Oldest, by |-> NoHolder] : k \in Kinds}
    BY DEF NumbersInit
  <2>2. docs \subseteq Document
    BY <2>1 DEF Document
  <2>3. \A d \in docs : d.number = Oldest /\ d.by = NoHolder
    BY <2>1
  <2>4. \A k \in Kinds : \E d \in docs : d.kind = k
    <3>. SUFFICES ASSUME NEW k \in Kinds PROVE \E d \in docs : d.kind = k
      OBVIOUS
    <3>1. [kind |-> k, number |-> Oldest, by |-> NoHolder] \in docs
      BY <2>1
    <3>2. [kind |-> k, number |-> Oldest, by |-> NoHolder].kind = k
      OBVIOUS
    <3>. QED  BY <3>1, <3>2
  <2>5. \A d, e \in docs : d.kind = e.kind => d = e
    BY <2>1
  <2>. QED  BY <2>2, <2>3, <2>4, <2>5
<1>4. NumbersTypeOK
  BY <1>1, <1>3 DEF NumbersTypeOK, NumbersInit, Stages, Document
<1>5. Placed /\ InTurn /\ OneFrame
  BY <1>1, <1>2 DEF Placed, InTurn, OneFrame
<1>6. HasHighest
  BY <1>3 DEF HasHighest
<1>7. DistinctNumbers /\ CounterLeads
  BY <1>3 DEF DistinctNumbers, CounterLeads, NumbersInit
<1>. QED  BY <1>4, <1>5, <1>6, <1>7 DEF NumbersInv

\* The inductive invariant of nextDocumentNumber: a request with a number not yet
\* stored is alone at it, and above every number in use.
THEOREM NumbersInvariant ==
  ASSUME NumbersAssumption PROVE NumbersSpec => []NumbersInv
<1>1. NumbersInv /\ [NumbersNext]_numbersVars => NumbersInv'
  <2>. SUFFICES ASSUME NumbersInv, [NumbersNext]_numbersVars PROVE NumbersInv'
    OBVIOUS
  <2>1. NumbersTypeOK' /\ Placed' /\ HasHighest'
    BY NumbersTyping, SMTT(40) DEF NumbersInv
  <2>2. OneFrameOnly' => OneFrameOnly
    BY ZenonT(60) DEF OneFrameOnly, NumbersNext, Serve, numbersVars, Look, Increment, Lock, LookAgain,
           Bootstrap, Commit, Written, Abort
  <2>. QED  BY <2>1, <2>2, NumbersOnce, FrameOnce DEF NumbersInv, OneKindOnly
<1>. QED  BY <1>1, NumbersStart, PTL DEF NumbersSpec

\* nextDocumentNumber: concurrent requests, however many, get distinct numbers, and
\* a counter is never behind a number in use (until a second kind of document makes
\* a second frame).
THEOREM NumbersPromise ==
  ASSUME NumbersAssumption PROVE NumbersSpec => []NumbersAreUnique
<1>1. NumbersInv => NumbersAreUnique
  BY DEF NumbersInv, NumbersAreUnique, OneFrame
<1>. QED  BY <1>1, NumbersInvariant, PTL

---------------------------------------------------------------------------------
(* Invoices: posting, unposting and paying                                   *)

Postings == INSTANCE Invoices

\* A request that goes to another place, with or without the total it has read,
\* keeps its shape.
LEMMA PlaceTells ==
  ASSUME Postings!ReqShaped, NEW r \in Requests, NEW p, NEW n,
         \/ req' = [req EXCEPT ![r].at = p] /\ n = req[r].total
         \/ req' = [req EXCEPT ![r].at = p, ![r].total = n]
  PROVE  /\ Postings!ReqShaped'
         /\ req'[r].at = p /\ req'[r].total = n
         /\ \A s \in Requests \ {r} : req'[s] = req[s]
BY DEF Postings!ReqShaped

\* A request whose list of work changes stays where it is.
LEMMA TodoTells ==
  ASSUME Postings!ReqShaped, NEW r \in Requests, NEW t,
         req' = [req EXCEPT ![r].todo = t]
  PROVE  /\ Postings!ReqShaped'
         /\ req'[r].at = req[r].at /\ req'[r].total = req[r].total
         /\ \A s \in Requests \ {r} : req'[s] = req[s]
BY DEF Postings!ReqShaped

\* A request that goes on with what it has read keeps its shape.
LEMMA ReadTells ==
  ASSUME Postings!ReqShaped, NEW r \in Requests, NEW p, NEW t,
         \/ req' = [req EXCEPT ![r].at = p, ![r].todo = t]
         \/ req' = [req EXCEPT ![r].at = p, ![r].alloc = t]
  PROVE  /\ Postings!ReqShaped' /\ req'[r].at = p
         /\ \A s \in Requests \ {r} : req'[s] = req[s]
BY DEF Postings!ReqShaped

\* The end of a request frees its row locks and no others.
LEMMA EndTells ==
  ASSUME Postings!InvoicesAssumption, Postings!ReqShaped, Postings!DocsTyped, NEW r \in Requests, Postings!End(r)
  PROVE  /\ Postings!ReqShaped' /\ req'[r].at = "done"
         /\ \A s \in Requests \ {r} : req'[s] = req[s]
         /\ lock' \in [Docs -> Requests \cup {NoRequest}]
         /\ \A d \in Docs : lock[d] # r => lock'[d] = lock[d]
<1>1. req' = [req EXCEPT ![r] = [at |-> "done", todo |-> {}, total |-> 0, alloc |-> Postings!Nothing]]
  <2>1. [Postings!New EXCEPT !.at = "done"]
          = [at |-> "done", todo |-> {}, total |-> 0, alloc |-> Postings!Nothing]
    BY DEF Postings!New
  <2>2. req' = [req EXCEPT ![r] = [Postings!New EXCEPT !.at = "done"]]
    BY DEF Postings!End
  <2>. QED  BY <2>1, <2>2
<1>2. req' = [s \in Requests |-> req'[s]] /\ (\A s \in Requests \ {r} : req'[s] = req[s])
      /\ req'[r] = [at |-> "done", todo |-> {}, total |-> 0, alloc |-> Postings!Nothing]
  BY <1>1 DEF Postings!ReqShaped
<1>3. Postings!ReqShaped'
  BY <1>2 DEF Postings!ReqShaped
<1>4. lock' = [d \in Docs |-> IF lock[d] = r THEN NoRequest ELSE lock[d]]
  BY DEF Postings!End, Postings!Unlocked
<1>. QED  BY <1>2, <1>3, <1>4 DEF Postings!DocsTyped

\* The requests other than one that goes on hold their rows as before.
LEMMA OthersHold ==
  ASSUME Postings!Held, NEW r \in Requests, Postings!InvoicesAssumption,
         \A s \in Requests \ {r} : req'[s] = req[s],
         \A d \in Docs : lock[d] \in Requests \ {r} => lock'[d] = lock[d] /\ doc'[d].status = doc[d].status,
         req'[r].at = "locked" =>
           /\ lock'[Target[r]] = r
           /\ Kind[r] = "post" => doc'[Target[r]].status = "draft" /\ req'[r].total \in Totals
           /\ Kind[r] = "unpost" => doc'[Target[r]].status = "posted"
  PROVE  Postings!Held'
<1>. SUFFICES ASSUME NEW s \in Requests, req'[s].at = "locked"
              PROVE  /\ lock'[Target[s]] = s
                     /\ Kind[s] = "post" => doc'[Target[s]].status = "draft" /\ req'[s].total \in Totals
                     /\ Kind[s] = "unpost" => doc'[Target[s]].status = "posted"
  BY DEF Postings!Held
<1>1. CASE s = r
  BY <1>1
<1>2. CASE s # r
  <2>1. req'[s] = req[s] /\ lock[Target[s]] = s /\ Target[s] \in Docs
    BY <1>2 DEF Postings!Held, Postings!InvoicesAssumption
  <2>2. lock'[Target[s]] = s /\ doc'[Target[s]].status = doc[Target[s]].status
    BY <1>2, <2>1
  <2>. QED  BY <2>1, <2>2 DEF Postings!Held
<1>. QED  BY <1>1, <1>2

\* A step of request r that leaves the documents and the lots alone, and does not
\* let r post or unpost.
LEMMA QuietStep ==
  ASSUME Postings!InvoicesAssumption, Postings!PostingsInv, NEW r \in Requests,
         UNCHANGED <<doc, lot>>, Postings!ReqShaped', req'[r].at # "locked",
         \A s \in Requests \ {r} : req'[s] = req[s],
         lock' \in [Docs -> Requests \cup {NoRequest}],
         \A d \in Docs : lock[d] \in Requests \ {r} => lock'[d] = lock[d]
  PROVE  Postings!PostingsInv'
<1>1. Postings!Held'
  BY OthersHold DEF Postings!PostingsInv
<1>. QED
  BY <1>1 DEF Postings!PostingsInv, Postings!DocsTyped, Postings!LedgerAgrees, Postings!LotsOf

\* The end of a request that leaves them alone.
LEMMA QuietEnd ==
  ASSUME Postings!InvoicesAssumption, Postings!PostingsInv, NEW r \in Requests,
         UNCHANGED <<doc, lot>>, Postings!End(r)
  PROVE  Postings!PostingsInv'
<1>1. /\ Postings!ReqShaped' /\ req'[r].at = "done"
      /\ \A s \in Requests \ {r} : req'[s] = req[s]
      /\ lock' \in [Docs -> Requests \cup {NoRequest}]
      /\ \A d \in Docs : lock[d] # r => lock'[d] = lock[d]
  BY EndTells DEF Postings!PostingsInv
<1>2. \A d \in Docs : lock[d] \in Requests \ {r} => lock'[d] = lock[d]
  BY <1>1
<1>. QED  BY <1>1, <1>2, QuietStep

\* A step of a request keeps the invariant: the row lock of a document makes the
\* re-check and the posting, or the reversal, one step for everybody else.
LEMMA PostingsStep ==
  ASSUME Postings!InvoicesAssumption, Postings!PostingsInv, [Postings!Next]_(Postings!vars)
  PROVE  Postings!PostingsInv'
<1>. USE DEF Postings!PostingsInv
<1>0. /\ \A r \in Requests : Target[r] \in Docs /\ r # NoRequest
      /\ NoLot \notin Lots /\ NoDoc \notin Docs
      /\ \A d \in Docs : /\ doc[d].total \in Nat /\ doc[d].total \in Totals
                         /\ doc[d].status \in {"draft", "posted", "deleted"}
      /\ lock \in [Docs -> Requests \cup {NoRequest}]
  BY DEF Postings!InvoicesAssumption, Postings!DocsTyped
<1>1. ASSUME NEW r \in Requests, Postings!CheckDraft(r) PROVE Postings!PostingsInv'
  <2>0. UNCHANGED <<doc, lot>>
    BY <1>1 DEF Postings!CheckDraft
  <2>1. CASE req' = [req EXCEPT ![r].at = "checked"] /\ UNCHANGED lock
    <3>1. Postings!ReqShaped' /\ req'[r].at = "checked" /\ \A s \in Requests \ {r} : req'[s] = req[s]
      BY <2>1, PlaceTells
    <3>. QED  BY <1>0, <2>0, <2>1, <3>1, QuietStep
  <2>2. CASE Postings!End(r)
    BY <2>0, <2>2, QuietEnd
  <2>. QED  BY <1>1, <2>1, <2>2 DEF Postings!CheckDraft
<1>2. ASSUME NEW r \in Requests, Postings!Update(r) PROVE Postings!PostingsInv'
  <2>1. /\ Postings!End(r) /\ UNCHANGED lot /\ lock[Target[r]] = NoRequest
        /\ \/ \E t \in Totals : doc' = [doc EXCEPT ![Target[r]].total = t]
           \/ UNCHANGED doc
    BY <1>2 DEF Postings!Update, Postings!Free
  <2>2. CASE UNCHANGED doc
    BY <2>1, <2>2, QuietEnd
  <2>3. CASE \E t \in Totals : doc' = [doc EXCEPT ![Target[r]].total = t]
    <3>1. /\ doc' \in [Docs -> [status : {"draft", "posted", "deleted"}, total : Totals,
                                lot : Lots \cup {NoLot}]]
          /\ \A d \in Docs : doc'[d].status = doc[d].status /\ doc'[d].lot = doc[d].lot
      BY <1>0, <2>3 DEF Postings!DocsTyped
    <3>2. /\ Postings!ReqShaped' /\ req'[r].at = "done"
          /\ \A s \in Requests \ {r} : req'[s] = req[s]
          /\ lock' \in [Docs -> Requests \cup {NoRequest}]
          /\ \A d \in Docs : lock[d] # r => lock'[d] = lock[d]
      BY <2>1, EndTells
    <3>3. Postings!Held'
      <4>. \A d \in Docs : lock[d] \in Requests \ {r} => lock'[d] = lock[d] /\ doc'[d].status = doc[d].status
        BY <3>1, <3>2
      <4>. QED  BY <3>2, OthersHold
    <3>4. Postings!LedgerAgrees'
      BY <2>1, <3>1 DEF Postings!LedgerAgrees, Postings!LotsOf
    <3>. QED  BY <2>1, <3>1, <3>2, <3>3, <3>4 DEF Postings!DocsTyped
  <2>. QED  BY <2>1, <2>2, <2>3
<1>3. ASSUME NEW r \in Requests, Postings!Delete(r) PROVE Postings!PostingsInv'
  <2>1. /\ Postings!End(r) /\ UNCHANGED lot /\ lock[Target[r]] = NoRequest
        /\ doc' = [doc EXCEPT ![Target[r]].status = "deleted"]
    BY <1>3 DEF Postings!Delete, Postings!Free
  <2>2. /\ doc' \in [Docs -> [status : {"draft", "posted", "deleted"}, total : Totals,
                              lot : Lots \cup {NoLot}]]
        /\ doc'[Target[r]].status = "deleted"
        /\ \A d \in Docs \ {Target[r]} : doc'[d] = doc[d]
    BY <1>0, <2>1 DEF Postings!DocsTyped
  <2>3. /\ Postings!ReqShaped' /\ req'[r].at = "done"
        /\ \A s \in Requests \ {r} : req'[s] = req[s]
        /\ lock' \in [Docs -> Requests \cup {NoRequest}]
        /\ \A d \in Docs : lock[d] # r => lock'[d] = lock[d]
    BY <2>1, EndTells
  <2>4. Postings!Held'
    <3>. \A d \in Docs : lock[d] \in Requests \ {r} => lock'[d] = lock[d] /\ doc'[d].status = doc[d].status
      BY <1>0, <2>1, <2>2, <2>3
    <3>. QED  BY <2>3, OthersHold
  <2>5. Postings!LedgerAgrees'
    BY <2>1, <2>2 DEF Postings!LedgerAgrees, Postings!LotsOf
  <2>. QED  BY <2>1, <2>2, <2>3, <2>4, <2>5 DEF Postings!DocsTyped
<1>4. ASSUME NEW r \in Requests, Postings!PostLock(r) PROVE Postings!PostingsInv'
  <2>0. UNCHANGED <<doc, lot>> /\ lock[Target[r]] = NoRequest /\ Kind[r] = "post"
    BY <1>4 DEF Postings!PostLock, Postings!Free, Postings!At
  <2>. DEFINE total == doc[Target[r]].total
  <2>1. CASE /\ doc[Target[r]].status = "draft" /\ lock' = [lock EXCEPT ![Target[r]] = r]
             /\ req' = [req EXCEPT ![r].at = "locked", ![r].total = total]
    <3>1. /\ Postings!ReqShaped' /\ req'[r].at = "locked" /\ req'[r].total = doc[Target[r]].total
          /\ \A s \in Requests \ {r} : req'[s] = req[s]
      <4>. HIDE DEF total
      <4>1. Postings!ReqShaped' /\ req'[r].at = "locked" /\ req'[r].total = total
            /\ \A s \in Requests \ {r} : req'[s] = req[s]
        BY <2>1, PlaceTells, ZenonT(60)
      <4>. QED  BY <4>1 DEF total
    <3>2. /\ lock' \in [Docs -> Requests \cup {NoRequest}] /\ lock'[Target[r]] = r
          /\ \A d \in Docs : lock[d] \in Requests \ {r} => lock'[d] = lock[d]
      BY <1>0, <2>0, <2>1
    <3>3. Postings!Held'
      <4>1. Kind[r] = "post" => doc'[Target[r]].status = "draft" /\ req'[r].total \in Totals
        BY <1>0, <2>0, <2>1, <3>1
      <4>2. Kind[r] = "unpost" => doc'[Target[r]].status = "posted"
        BY <2>0, <2>1
      <4>3. \A d \in Docs : lock[d] \in Requests \ {r} =>
                             lock'[d] = lock[d] /\ doc'[d].status = doc[d].status
        BY <2>0, <3>2
      <4>. QED  BY <3>1, <3>2, <4>1, <4>2, <4>3, OthersHold
    <3>. QED
      BY <2>0, <3>1, <3>2, <3>3 DEF Postings!DocsTyped, Postings!LedgerAgrees, Postings!LotsOf
  <2>2. CASE Postings!End(r)
    BY <2>0, <2>2, QuietEnd
  <2>. QED  BY <1>4, <2>1, <2>2 DEF Postings!PostLock
<1>5. ASSUME NEW r \in Requests, Postings!Post(r) PROVE Postings!PostingsInv'
  <2>. DEFINE d == Target[r]
  <2>1. PICK l \in Lots :
          /\ lot[l].of = NoDoc
          /\ lot' = [lot EXCEPT ![l] = [of |-> d, amount |-> req[r].total, reversed |-> FALSE]]
          /\ doc' = [doc EXCEPT ![d].status = "posted", ![d].lot = l]
    BY <1>5 DEF Postings!Post
  <2>2. Postings!End(r) /\ Kind[r] = "post" /\ req[r].at = "locked"
    BY <1>5 DEF Postings!Post, Postings!At
  <2>3. lock[d] = r /\ req[r].total \in Totals /\ doc[d].status = "draft" /\ d \in Docs
    BY <1>0, <2>2 DEF Postings!Held
  <2>. HIDE DEF d
  <2>4. /\ doc' \in [Docs -> [status : {"draft", "posted", "deleted"}, total : Totals,
                              lot : Lots \cup {NoLot}]]
        /\ doc'[d].status = "posted" /\ doc'[d].lot = l
        /\ \A e \in Docs \ {d} : doc'[e] = doc[e]
    BY <2>1, <2>3 DEF Postings!DocsTyped
  <2>5. /\ lot' \in [Lots -> [of : Docs \cup {NoDoc}, amount : Nat, reversed : BOOLEAN]]
        /\ lot'[l].of = d /\ ~lot'[l].reversed
        /\ \A m \in Lots \ {l} : lot'[m] = lot[m]
    <3>1. [of |-> d, amount |-> req[r].total, reversed |-> FALSE]
            \in [of : Docs \cup {NoDoc}, amount : Nat, reversed : BOOLEAN]
      <4>1. req[r].total \in Nat
        BY <2>3 DEF Postings!InvoicesAssumption
      <4>. QED  BY <2>3, <4>1
    <3>. QED  BY <2>1, <3>1 DEF Postings!DocsTyped
  <2>6. /\ Postings!ReqShaped' /\ req'[r].at = "done"
        /\ \A s \in Requests \ {r} : req'[s] = req[s]
        /\ lock' \in [Docs -> Requests \cup {NoRequest}]
        /\ \A e \in Docs : lock[e] # r => lock'[e] = lock[e]
    BY <2>2, EndTells
  <2>7. Postings!Held'
    <3>. \A e \in Docs : lock[e] \in Requests \ {r} => lock'[e] = lock[e] /\ doc'[e].status = doc[e].status
      BY <2>3, <2>4, <2>6
    <3>. QED  BY <2>6, OthersHold
  <2>8. Postings!LedgerAgrees'
    <3>. SUFFICES ASSUME NEW e \in Docs, doc'[e].status # "deleted"
                  PROVE  {m \in Lots : lot'[m].of = e /\ ~lot'[m].reversed}
                           = IF doc'[e].status = "posted" THEN {doc'[e].lot} ELSE {}
      BY DEF Postings!LedgerAgrees, Postings!LotsOf
    <3>1. \A c \in Docs : doc[c].status # "deleted" =>
            {m \in Lots : lot[m].of = c /\ ~lot[m].reversed}
              = IF doc[c].status = "posted" THEN {doc[c].lot} ELSE {}
      BY DEF Postings!LedgerAgrees, Postings!LotsOf
    <3>2. CASE e = d
      BY <2>3, <2>4, <2>5, <3>1, <3>2
    <3>3. CASE e # d
      <4>1. {m \in Lots : lot'[m].of = e /\ ~lot'[m].reversed}
              = {m \in Lots : lot[m].of = e /\ ~lot[m].reversed}
        BY <1>0, <2>1, <2>5, <3>3
      <4>. QED  BY <2>4, <3>1, <3>3, <4>1
    <3>. QED  BY <3>2, <3>3
  <2>. QED  BY <2>4, <2>5, <2>6, <2>7, <2>8 DEF Postings!DocsTyped
<1>6. ASSUME NEW r \in Requests, Postings!UnpostLock(r) PROVE Postings!PostingsInv'
  <2>0. UNCHANGED <<doc, lot>> /\ lock[Target[r]] = NoRequest /\ Kind[r] = "unpost"
    BY <1>6 DEF Postings!UnpostLock, Postings!Free, Postings!At
  <2>1. CASE /\ doc[Target[r]].status = "posted" /\ lock' = [lock EXCEPT ![Target[r]] = r]
             /\ req' = [req EXCEPT ![r].at = "locked"]
    <3>1. /\ Postings!ReqShaped' /\ req'[r].at = "locked" /\ req'[r].total = req[r].total
          /\ \A s \in Requests \ {r} : req'[s] = req[s]
      BY <2>1, PlaceTells
    <3>2. /\ lock' \in [Docs -> Requests \cup {NoRequest}] /\ lock'[Target[r]] = r
          /\ \A d \in Docs : lock[d] \in Requests \ {r} => lock'[d] = lock[d]
      BY <1>0, <2>0, <2>1
    <3>3. Postings!Held'
      <4>1. Kind[r] = "post" => doc'[Target[r]].status = "draft" /\ req'[r].total \in Totals
        BY <1>0, <2>0, <2>1, <3>1
      <4>2. Kind[r] = "unpost" => doc'[Target[r]].status = "posted"
        BY <2>0, <2>1
      <4>3. \A d \in Docs : lock[d] \in Requests \ {r} =>
                             lock'[d] = lock[d] /\ doc'[d].status = doc[d].status
        BY <2>0, <3>2
      <4>. QED  BY <3>1, <3>2, <4>1, <4>2, <4>3, OthersHold
    <3>. QED
      BY <2>0, <3>1, <3>2, <3>3 DEF Postings!DocsTyped, Postings!LedgerAgrees, Postings!LotsOf
  <2>2. CASE Postings!End(r)
    BY <2>0, <2>2, QuietEnd
  <2>. QED  BY <1>6, <2>1, <2>2 DEF Postings!UnpostLock
<1>7. ASSUME NEW r \in Requests, Postings!Unpost(r) PROVE Postings!PostingsInv'
  <2>. DEFINE d == Target[r]
  <2>1. /\ lot' = [lot EXCEPT ![doc[d].lot].reversed = TRUE]
        /\ doc' = [doc EXCEPT ![d].status = "draft", ![d].lot = NoLot]
        /\ Postings!End(r) /\ Kind[r] = "unpost" /\ req[r].at = "locked"
    BY <1>7 DEF Postings!Unpost, Postings!At
  <2>2. lock[d] = r /\ doc[d].status = "posted" /\ d \in Docs
    BY <1>0, <2>1 DEF Postings!Held
  <2>. HIDE DEF d
  <2>3. \A c \in Docs : doc[c].status # "deleted" =>
          {m \in Lots : lot[m].of = c /\ ~lot[m].reversed}
            = IF doc[c].status = "posted" THEN {doc[c].lot} ELSE {}
    BY DEF Postings!LedgerAgrees, Postings!LotsOf
  <2>4. doc[d].lot \in Lots /\ lot[doc[d].lot].of = d
    BY <2>2, <2>3
  <2>5. /\ doc' \in [Docs -> [status : {"draft", "posted", "deleted"}, total : Totals,
                              lot : Lots \cup {NoLot}]]
        /\ doc'[d].status = "draft"
        /\ \A e \in Docs \ {d} : doc'[e] = doc[e]
    BY <2>1, <2>2 DEF Postings!DocsTyped
  <2>6. /\ lot' \in [Lots -> [of : Docs \cup {NoDoc}, amount : Nat, reversed : BOOLEAN]]
        /\ \A m \in Lots : lot'[m].of = lot[m].of
        /\ lot'[doc[d].lot].reversed
        /\ \A m \in Lots : m # doc[d].lot => lot'[m] = lot[m]
    BY <2>1, <2>4 DEF Postings!DocsTyped
  <2>7. /\ Postings!ReqShaped' /\ req'[r].at = "done"
        /\ \A s \in Requests \ {r} : req'[s] = req[s]
        /\ lock' \in [Docs -> Requests \cup {NoRequest}]
        /\ \A e \in Docs : lock[e] # r => lock'[e] = lock[e]
    BY <2>1, EndTells
  <2>8. Postings!Held'
    <3>. \A e \in Docs : lock[e] \in Requests \ {r} => lock'[e] = lock[e] /\ doc'[e].status = doc[e].status
      BY <2>2, <2>5, <2>7
    <3>. QED  BY <2>7, OthersHold
  <2>9. Postings!LedgerAgrees'
    <3>. SUFFICES ASSUME NEW e \in Docs, doc'[e].status # "deleted"
                  PROVE  {m \in Lots : lot'[m].of = e /\ ~lot'[m].reversed}
                           = IF doc'[e].status = "posted" THEN {doc'[e].lot} ELSE {}
      BY DEF Postings!LedgerAgrees, Postings!LotsOf
    <3>1. CASE e = d
      BY <2>2, <2>3, <2>5, <2>6, <3>1
    <3>2. CASE e # d
      <4>1. {m \in Lots : lot'[m].of = e /\ ~lot'[m].reversed}
              = {m \in Lots : lot[m].of = e /\ ~lot[m].reversed}
        BY <2>4, <2>6, <3>2
      <4>. QED  BY <2>3, <2>5, <3>2, <4>1
    <3>. QED  BY <3>1, <3>2
  <2>. QED  BY <2>5, <2>6, <2>7, <2>8, <2>9 DEF Postings!DocsTyped
<1>8. ASSUME NEW r \in Requests, Postings!PayFind(r) PROVE Postings!PostingsInv'
  <2>0. UNCHANGED <<doc, lot>>
    BY <1>8 DEF Postings!PayFind
  <2>1. CASE /\ req' = [req EXCEPT ![r].at = "locking",
                                   ![r].todo = {d \in Docs : doc[d].status = "posted"}]
             /\ UNCHANGED lock
    <3>1. Postings!ReqShaped' /\ req'[r].at = "locking" /\ \A s \in Requests \ {r} : req'[s] = req[s]
      BY <2>1, ReadTells
    <3>. QED  BY <1>0, <2>0, <2>1, <3>1, QuietStep
  <2>2. CASE Postings!End(r)
    BY <2>0, <2>2, QuietEnd
  <2>. QED  BY <1>8, <2>1, <2>2 DEF Postings!PayFind
<1>9. ASSUME NEW r \in Requests, Postings!PayLock(r) PROVE Postings!PostingsInv'
  <2>1. PICK d : /\ lock[d] = NoRequest /\ req' = [req EXCEPT ![r].todo = req[r].todo \ {d}]
                 /\ lock' = [lock EXCEPT ![d] = IF doc[d].status = "deleted" THEN NoRequest ELSE r]
    BY <1>9 DEF Postings!PayLock, Postings!Free
  <2>2. UNCHANGED <<doc, lot>> /\ req[r].at = "locking"
    BY <1>9 DEF Postings!PayLock, Postings!At
  <2>3. /\ Postings!ReqShaped' /\ req'[r].at = "locking"
        /\ \A s \in Requests \ {r} : req'[s] = req[s]
    BY <2>1, <2>2, TodoTells
  <2>4. /\ lock' \in [Docs -> Requests \cup {NoRequest}]
        /\ \A e \in Docs : lock[e] \in Requests \ {r} => lock'[e] = lock[e]
    BY <1>0, <2>1
  <2>. QED  BY <2>2, <2>3, <2>4, QuietStep
<1>10. ASSUME NEW r \in Requests, Postings!PayRead(r) PROVE Postings!PostingsInv'
  <2>0. UNCHANGED <<doc, lot>>
    BY <1>10 DEF Postings!PayRead
  <2>1. ASSUME NEW a, req' = [req EXCEPT ![r].at = "paying", ![r].alloc = a], UNCHANGED lock
        PROVE  Postings!PostingsInv'
    <3>1. Postings!ReqShaped' /\ req'[r].at = "paying" /\ \A s \in Requests \ {r} : req'[s] = req[s]
      BY <2>1, ReadTells
    <3>. QED  BY <1>0, <2>0, <2>1, <3>1, QuietStep
  <2>2. CASE Postings!End(r)
    BY <2>0, <2>2, QuietEnd
  <2>. QED  BY <1>10, <2>1, <2>2 DEF Postings!PayRead
<1>11. ASSUME NEW r \in Requests, Postings!Pay(r) PROVE Postings!PostingsInv'
  BY <1>11, QuietEnd DEF Postings!Pay
<1>12. ASSUME NEW r \in Requests, Postings!Abort(r) PROVE Postings!PostingsInv'
  BY <1>12, QuietEnd DEF Postings!Abort
<1>13. ASSUME NEW p \in Payments, Postings!Drop(p) PROVE Postings!PostingsInv'
  BY <1>13 DEF Postings!Drop, Postings!DocsTyped, Postings!ReqShaped, Postings!Held,
               Postings!LedgerAgrees, Postings!LotsOf
<1>14. CASE UNCHANGED Postings!vars
  BY <1>14 DEF Postings!vars, Postings!DocsTyped, Postings!ReqShaped, Postings!Held,
               Postings!LedgerAgrees, Postings!LotsOf
<1>. QED
  BY <1>1, <1>2, <1>3, <1>4, <1>5, <1>6, <1>7, <1>8, <1>9, <1>10, <1>11, <1>12, <1>13, <1>14
  DEF Postings!Next, Postings!Step

\* The total of the documents at the beginning is one that a document may have.
LEMMA FirstTotal ==
  ASSUME Postings!InvoicesAssumption PROVE Postings!First \in Totals
BY DEF Postings!First, Postings!InvoicesAssumption

\* The invariant holds of a ledger with one posting for each posted document.
LEMMA PostingsStart ==
  ASSUME Postings!InvoicesAssumption PROVE Postings!Init => Postings!PostingsInv
<1>. SUFFICES ASSUME Postings!Init PROVE Postings!PostingsInv
  OBVIOUS
<1>0. Docs \subseteq Nat /\ PostedFirst \subseteq Docs /\ NoDoc \notin Docs /\ Totals \subseteq Nat \ {0}
  BY DEF Postings!InvoicesAssumption
<1>1. /\ Postings!LotOf \in [PostedFirst -> Lots]
      /\ \A d, e \in PostedFirst : Postings!LotOf[d] = Postings!LotOf[e] => d = e
  <2>1. \E f \in [PostedFirst -> Lots] : \A d, e \in PostedFirst : f[d] = f[e] => d = e
    BY DEF Postings!InvoicesAssumption
  <2>. QED  BY <2>1 DEF Postings!LotOf
<1>. DEFINE DocRow == [status : {"draft", "posted", "deleted"}, total : Totals, lot : Lots \cup {NoLot}]
            LotRow == [of : Docs \cup {NoDoc}, amount : Nat, reversed : BOOLEAN]
<1>2. ASSUME NEW d \in Docs
      PROVE  /\ doc[d] \in DocRow
             /\ d \in PostedFirst => doc[d].status = "posted" /\ doc[d].lot = Postings!LotOf[d]
             /\ d \notin PostedFirst => doc[d].status = "draft"
  <2>1. CASE d \in PostedFirst
    <3>1. doc[d] = [status |-> "posted", total |-> Postings!First, lot |-> Postings!LotOf[d]]
      BY <2>1 DEF Postings!Init
    <3>2. Postings!LotOf[d] \in Lots
      BY <1>1, <2>1
    <3>. QED  BY <2>1, <3>1, <3>2, FirstTotal
  <2>2. CASE d \notin PostedFirst
    <3>1. doc[d] = [status |-> "draft", total |-> Postings!First, lot |-> NoLot]
      BY <2>2 DEF Postings!Init
    <3>. QED  BY <2>2, <3>1, FirstTotal
  <2>. QED  BY <2>1, <2>2
<1>3. ASSUME NEW l \in Lots
      PROVE  /\ lot[l] \in LotRow
             /\ \A d \in PostedFirst : Postings!LotOf[d] = l => lot[l].of = d /\ ~lot[l].reversed
             /\ (\A d \in PostedFirst : Postings!LotOf[d] # l) => lot[l].of = NoDoc
  <2>0. Postings!First \in Nat
    BY <1>0, FirstTotal
  <2>1. lot[l] = IF \E d \in PostedFirst : Postings!LotOf[d] = l
                 THEN [of |-> CHOOSE d \in PostedFirst : Postings!LotOf[d] = l,
                       amount |-> Postings!First, reversed |-> FALSE]
                 ELSE [of |-> NoDoc, amount |-> 0, reversed |-> FALSE]
    BY DEF Postings!Init
  <2>2. CASE \E d \in PostedFirst : Postings!LotOf[d] = l
    <3>1. PICK d \in PostedFirst : Postings!LotOf[d] = l
      BY <2>2
    <3>2. (CHOOSE e \in PostedFirst : Postings!LotOf[e] = l) = d
      BY <1>1, <3>1
    <3>3. lot[l] = [of |-> d, amount |-> Postings!First, reversed |-> FALSE]
      BY <2>1, <2>2, <3>2
    <3>4. \A e \in PostedFirst : Postings!LotOf[e] = l => e = d
      BY <1>1, <3>1
    <3>5. lot[l] \in LotRow /\ lot[l].of = d /\ ~lot[l].reversed
      BY <1>0, <2>0, <3>3
    <3>. QED  BY <3>1, <3>4, <3>5
  <2>3. CASE ~\E d \in PostedFirst : Postings!LotOf[d] = l
    <3>1. lot[l] = [of |-> NoDoc, amount |-> 0, reversed |-> FALSE]
      BY <2>1, <2>3
    <3>2. lot[l] \in LotRow /\ lot[l].of = NoDoc
      BY <3>1
    <3>. QED  BY <2>3, <3>2
  <2>. QED  BY <2>2, <2>3
<1>4. Postings!DocsTyped
  <2>1. doc \in [Docs -> DocRow]
    <3>1. doc = [d \in Docs |-> doc[d]]
      BY DEF Postings!Init
    <3>. QED  BY <1>2, <3>1
  <2>2. lot \in [Lots -> LotRow]
    <3>1. lot = [l \in Lots |-> lot[l]]
      BY DEF Postings!Init
    <3>. QED  BY <1>3, <3>1
  <2>3. lock \in [Docs -> Requests \cup {NoRequest}]
    BY DEF Postings!Init
  <2>. QED  BY <2>1, <2>2, <2>3 DEF Postings!DocsTyped
<1>5. Postings!ReqShaped /\ Postings!Held
  <2>1. req = [r \in Requests |-> Postings!New]
    BY DEF Postings!Init
  <2>. QED  BY <2>1 DEF Postings!New, Postings!ReqShaped, Postings!Held
<1>6. Postings!LedgerAgrees
  <2>. SUFFICES ASSUME NEW d \in Docs
                PROVE  {l \in Lots : lot[l].of = d /\ ~lot[l].reversed}
                         = IF doc[d].status = "posted" THEN {doc[d].lot} ELSE {}
    BY DEF Postings!LedgerAgrees, Postings!LotsOf
  <2>. HIDE DEF DocRow, LotRow
  <2>1. ASSUME NEW l \in Lots PROVE lot[l].of = d <=> d \in PostedFirst /\ Postings!LotOf[d] = l
    <3>1. CASE \E e \in PostedFirst : Postings!LotOf[e] = l
      BY <1>1, <1>3, <3>1
    <3>2. CASE \A e \in PostedFirst : Postings!LotOf[e] # l
      <4>1. lot[l].of = NoDoc
        BY <1>3, <3>2
      <4>. QED  BY <1>0, <3>2, <4>1
    <3>. QED  BY <3>1, <3>2
  <2>2. CASE d \in PostedFirst
    <3>1. Postings!LotOf[d] \in Lots /\ ~lot[Postings!LotOf[d]].reversed
      BY <1>1, <1>3, <2>2
    <3>. QED  BY <1>2, <2>1, <2>2, <3>1
  <2>3. CASE d \notin PostedFirst
    BY <1>2, <2>1, <2>3
  <2>. QED  BY <2>2, <2>3
<1>. QED  BY <1>4, <1>5, <1>6 DEF Postings!PostingsInv

\* The inductive invariant of posting: whoever is to post or to unpost a document
\* holds its row, which is still as it was when the row was locked.
THEOREM PostingsInvariant ==
  ASSUME Postings!InvoicesAssumption PROVE Postings!Spec => []Postings!PostingsInv
BY PostingsStart, PostingsStep, PTL DEF Postings!Spec

\* postInvoice, unpostInvoice: the ledger holds one standing posting for each
\* posted document and none for a draft, however requests overlap.
THEOREM PostingsAgree ==
  ASSUME Postings!InvoicesAssumption PROVE Postings!Spec => []Postings!LedgerAgrees
BY PostingsInvariant, PTL DEF Postings!PostingsInv


\* The sums and the finite sets of Invoices are those of Sums.
LEMMA SameSums == \A f, S : Postings!SumFunctionOnSet(f, S) = SumFunctionOnSet(f, S)
BY DEF SumFunctionOnSet, FoldFunctionOnSet, MapThenFoldSet,
       Postings!SumFunctionOnSet, Postings!FoldFunctionOnSet, Postings!MapThenFoldSet

LEMMA FiniteData ==
  ASSUME Postings!InvoicesAssumption
  PROVE  IsFiniteSet(Docs) /\ IsFiniteSet(Lots) /\ IsFiniteSet(Payments)
BY DEF Postings!InvoicesAssumption, Postings!IsFiniteSet, IsFiniteSet

\* A posted document has a lot of its own.
LEMMA OwnLots ==
  ASSUME Postings!InvoicesAssumption, Postings!PostingsInv
  PROVE  \A d, e \in Postings!Open : doc[d].lot \in Lots /\ (doc[d].lot = doc[e].lot => d = e)
<1>. SUFFICES ASSUME NEW d \in Postings!Open PROVE doc[d].lot \in Lots /\ lot[doc[d].lot].of = d
  OBVIOUS
<1>1. {l \in Lots : lot[l].of = d /\ ~lot[l].reversed} = {doc[d].lot}
  BY DEF Postings!Open, Postings!PostingsInv, Postings!LedgerAgrees, Postings!LotsOf
<1>. QED  BY <1>1

\* What is paid into a lot and what is due are numbers.
LEMMA DuesTyped ==
  ASSUME Postings!InvoicesAssumption, Postings!PostingsInv, Postings!PaymentsTyped
  PROVE  /\ \A l \in Lots : Postings!Paid(l) \in Nat /\ Postings!Due(l) \in Int
         /\ \A d \in Docs : Postings!DueOf(d) \in Nat
<1>1. ASSUME NEW l \in Lots PROVE Postings!Paid(l) \in Nat /\ Postings!Due(l) \in Int
  <2>. DEFINE f == [p \in Payments |-> paid[p][l]]
  <2>1. IsFiniteSet(there) /\ \A p \in there : f[p] \in Nat
    <3>1. there \subseteq Payments /\ IsFiniteSet(Payments)
      BY FiniteData DEF Postings!PaymentsTyped
    <3>2. IsFiniteSet(there)
      BY <3>1, FS_Subset
    <3>. QED  BY <3>1, <3>2 DEF Postings!PaymentsTyped
  <2>2. Postings!Paid(l) \in Nat
    <3>1. SumFunctionOnSet(f, there) \in Nat
      <4>. HIDE DEF f
      <4>. QED  BY <2>1, SumNat
    <3>. QED  BY <3>1, SameSums DEF Postings!Paid
  <2>3. lot[l].amount \in Nat
    BY DEF Postings!PostingsInv, Postings!DocsTyped
  <2>. QED  BY <2>2, <2>3 DEF Postings!Due
<1>2. ASSUME NEW d \in Docs PROVE Postings!DueOf(d) \in Nat
  <2>1. d \in Postings!Open => Postings!Due(doc[d].lot) \in Int
    BY <1>1, OwnLots
  <2>. QED  BY <2>1 DEF Postings!DueOf
<1>. QED  BY <1>1, <1>2

\* The shares of an accepted payment: nobody gets more than is due, and together
\* they are the payment.
LEMMA SharesTell ==
  ASSUME Postings!InvoicesAssumption, Postings!PostingsInv, Postings!PaymentsTyped,
         NEW r \in Requests, Postings!Accepted(r), NEW g, \A d \in Docs : g[d] = Postings!Share(r, d)
  PROVE  /\ \A d \in Docs : g[d] \in Nat /\ g[d] <= Postings!DueOf(d)
         /\ SumFunctionOnSet(g, Docs) = AmountOf[PayOf[r]]
<1>. DEFINE a == AmountOf[PayOf[r]]
            f == [d \in Docs |-> Postings!DueOf(d)]
<1>1. /\ IsFiniteSet(Docs) /\ Docs \subseteq Int /\ Target[r] \in Docs
      /\ a \in Nat
  BY FiniteData DEF Postings!InvoicesAssumption
<1>2. \A d \in Docs : f[d] \in Nat /\ f[d] = Postings!DueOf(d)
  BY DuesTyped
<1>3. CASE PayOf[r] \in FifoPayments
  <2>1. \A d \in Docs : LET left == a - SumFunctionOnSet(f, {e \in Docs : e < d})
                        IN  g[d] = IF left <= 0 THEN 0 ELSE IF left < f[d] THEN left ELSE f[d]
    BY <1>3, SameSums DEF Postings!Share, Postings!FifoShare, Postings!DueOn
  <2>2. a <= SumFunctionOnSet(f, Docs)
    BY <1>3, SameSums DEF Postings!Accepted, Postings!Covered, Postings!DueOn
  <2>. HIDE DEF a, f
  <2>3. /\ \A d \in Docs : g[d] \in Nat /\ g[d] <= f[d]
        /\ SumFunctionOnSet(g, Docs) =
             IF a <= SumFunctionOnSet(f, Docs) THEN a ELSE SumFunctionOnSet(f, Docs)
    <3>1. IsFiniteSet(Docs) /\ Docs \subseteq Int /\ a \in Nat /\ \A d \in Docs : f[d] \in Nat
      BY <1>1, <1>2
    <3>. QED  BY <2>1, <3>1, SumHandedOut, ZenonT(60)
  <2>4. SumFunctionOnSet(g, Docs) = a
    BY <2>2, <2>3
  <2>. QED  BY <1>2, <2>3, <2>4 DEF a
<1>4. CASE PayOf[r] \notin FifoPayments
  <2>1. \A d \in Docs : g[d] = IF d = Target[r] THEN a ELSE 0
    BY <1>4 DEF Postings!Share
  <2>2. a <= Postings!DueOf(Target[r])
    BY <1>4 DEF Postings!Accepted, Postings!NamedOpen
  <2>3. SumFunctionOnSet(g, Docs) = a
    <3>1. IsFiniteSet(Docs) /\ Target[r] \in Docs /\ a \in Int
      BY <1>1
    <3>. HIDE DEF a
    <3>. QED  BY <2>1, <3>1, SumOnly
  <2>. QED  BY <1>1, <1>2, <2>1, <2>2, <2>3
<1>. QED  BY <1>3, <1>4

\* An accepted payment is allocated in full, within what the lots still owe, and
\* there is a document that it pays.
LEMMA AllocTells ==
  ASSUME Postings!InvoicesAssumption, Postings!PostingsInv, Postings!PaymentsTyped,
         NEW r \in Requests, Postings!Accepted(r), NEW a,
         \A l \in Lots : a[l] = Postings!SumFunctionOnSet([d \in Docs |-> Postings!Share(r, d)],
                                                        {d \in Postings!Open : doc[d].lot = l})
  PROVE  /\ \A l \in Lots : a[l] \in Nat
         /\ SumFunctionOnSet(a, Lots) = AmountOf[PayOf[r]]
         /\ \A l \in Lots : a[l] # 0 => a[l] <= Postings!Due(l)
         /\ Postings!Open # {}
<1>1. PICK g : /\ \A d \in Docs : g[d] = Postings!Share(r, d)
               /\ \A l \in Lots : a[l] = SumFunctionOnSet(g, {d \in Postings!Open : doc[d].lot = l})
  BY SameSums
<1>3. /\ \A d \in Docs : g[d] \in Nat /\ g[d] <= Postings!DueOf(d)
      /\ SumFunctionOnSet(g, Docs) = AmountOf[PayOf[r]]
  BY <1>1, SharesTell
<1>4. /\ Postings!Open \in SUBSET Docs /\ IsFiniteSet(Docs) /\ IsFiniteSet(Lots)
      /\ AmountOf[PayOf[r]] \in Nat \ {0}
  BY FiniteData DEF Postings!Open, Postings!InvoicesAssumption
<1>5. IsFiniteSet(Postings!Open)
  BY <1>4, FS_Subset
<1>6. SumFunctionOnSet(g, Docs) = SumFunctionOnSet(g, Postings!Open)
  <2>1. \A d \in Docs \ Postings!Open : g[d] = 0
    BY <1>3 DEF Postings!DueOf
  <2>. QED  BY <1>3, <1>4, <2>1, SumWithin
<1>7. SumFunctionOnSet(a, Lots) = SumFunctionOnSet(g, Postings!Open)
  <2>1. PICK h : h = [d \in Docs |-> doc[d].lot]
    OBVIOUS
  <2>2. \A d \in Postings!Open : g[d] \in Int /\ h[d] \in Lots
    BY <1>3, <1>4, <2>1, OwnLots
  <2>3. \A l \in Lots : a[l] = SumFunctionOnSet(g, {d \in Postings!Open : h[d] = l})
    <3>. SUFFICES ASSUME NEW l \in Lots
                  PROVE  a[l] = SumFunctionOnSet(g, {d \in Postings!Open : h[d] = l})
      OBVIOUS
    <3>1. {d \in Postings!Open : doc[d].lot = l} = {d \in Postings!Open : h[d] = l}
      BY <1>4, <2>1
    <3>2. a[l] = SumFunctionOnSet(g, {d \in Postings!Open : doc[d].lot = l})
      BY <1>1
    <3>. QED  BY <3>1, <3>2, Zenon
  <2>4. Parts(g, Postings!Open, a, Lots, h)
    BY <1>4, <1>5, <2>2, <2>3 DEF Parts
  <2>. QED  BY <2>4, SumByParts
<1>8. ASSUME NEW l \in Lots PROVE a[l] \in Nat /\ (a[l] # 0 => a[l] <= Postings!Due(l))
  <2>. DEFINE Part == {d \in Postings!Open : doc[d].lot = l}
  <2>1. a[l] = SumFunctionOnSet(g, Part)
    BY <1>1
  <2>2. CASE Part = {}
    <3>1. a[l] = 0
      BY <2>1, <2>2, SumEmpty, Zenon
    <3>. QED  BY <3>1
  <2>3. CASE Part # {}
    <3>1. PICK d \in Part : TRUE
      BY <2>3
    <3>2. Part = {d}
      BY <3>1, OwnLots
    <3>3. SumFunctionOnSet(g, Part) = SumFunctionOnSet(g, {} \cup {d})
      <4>1. Part = {} \cup {d}
        BY <3>2
      <4>. QED  BY <4>1, Zenon
    <3>4. d \in Docs /\ d \in Postings!Open /\ doc[d].lot = l
      BY <1>4, <3>1
    <3>5. SumFunctionOnSet(g, {} \cup {d}) = g[d] + SumFunctionOnSet(g, {})
      <4>1. IsFiniteSet({}) /\ d \notin {} /\ \A e \in {} \cup {d} : g[e] \in Int
        BY <1>3, <3>4, FS_EmptySet
      <4>. QED  BY <4>1, SumAdd
    <3>6. SumFunctionOnSet(g, {}) = 0
      BY SumEmpty
    <3>7. g[d] \in Nat /\ g[d] <= Postings!DueOf(d)
      BY <1>3, <3>4
    <3>8. a[l] = g[d]
      BY <2>1, <3>3, <3>5, <3>6, <3>7
    <3>. HIDE DEF Part
    <3>9. g[d] # 0 => g[d] <= Postings!Due(l)
      <4>1. Postings!DueOf(d) = IF Postings!Due(l) > 0 THEN Postings!Due(l) ELSE 0
        BY <3>4 DEF Postings!DueOf
      <4>2. Postings!Due(l) \in Int
        BY DuesTyped
      <4>. QED  BY <3>7, <4>1, <4>2
    <3>. QED  BY <3>7, <3>8, <3>9
  <2>. QED  BY <2>2, <2>3
<1>9. Postings!Open # {}
  <2>. SUFFICES ASSUME Postings!Open = {} PROVE FALSE
    OBVIOUS
  <2>1. SumFunctionOnSet(g, Postings!Open) = 0
    BY SumEmpty, Zenon
  <2>. QED  BY <1>3, <1>4, <1>6, <2>1
<1>. QED  BY <1>3, <1>6, <1>7, <1>8, <1>9

\* What a step of a request says of the requests: the others stay where they are.
LEMMA StepTells ==
  ASSUME Postings!InvoicesAssumption, Postings!PostingsInv, NEW r \in Requests,
         Postings!Step(r) \/ Postings!Abort(r)
  PROVE  /\ \A s \in Requests \ {r} : req'[s] = req[s]
         /\ req'[r].at # "new"
<1>0. Postings!ReqShaped /\ Postings!DocsTyped
  BY DEF Postings!PostingsInv
<1>1. CASE Postings!End(r)
  BY <1>0, <1>1, EndTells
<1>2. ASSUME NEW p, p # "new", req' = [req EXCEPT ![r].at = p]
      PROVE  req'[r].at # "new" /\ \A s \in Requests \ {r} : req'[s] = req[s]
  <2>1. PICK n : n = req[r].total
    OBVIOUS
  <2>. QED  BY <1>0, <1>2, <2>1, PlaceTells
<1>3. CASE Postings!CheckDraft(r)
  <2>1. Postings!End(r) \/ req' = [req EXCEPT ![r].at = "checked"]
    BY <1>3 DEF Postings!CheckDraft
  <2>. QED  BY <1>1, <1>2, <2>1
<1>4. CASE Postings!PostLock(r)
  <2>1. PICK n : n = doc[Target[r]].total
    OBVIOUS
  <2>2. Postings!End(r) \/ req' = [req EXCEPT ![r].at = "locked", ![r].total = n]
    BY <1>4, <2>1 DEF Postings!PostLock
  <2>3. CASE req' = [req EXCEPT ![r].at = "locked", ![r].total = n]
    <3>1. Postings!ReqShaped' /\ req'[r].at = "locked" /\ \A s \in Requests \ {r} : req'[s] = req[s]
      BY <1>0, <2>3, PlaceTells
    <3>. QED  BY <3>1
  <2>. QED  BY <1>1, <2>2, <2>3
<1>5. CASE Postings!UnpostLock(r)
  <2>1. Postings!End(r) \/ req' = [req EXCEPT ![r].at = "locked"]
    BY <1>5 DEF Postings!UnpostLock
  <2>. QED  BY <1>1, <1>2, <2>1
<1>6. CASE Postings!PayFind(r)
  <2>1. PICK t : t = {d \in Docs : doc[d].status = "posted"}
    OBVIOUS
  <2>2. Postings!End(r) \/ req' = [req EXCEPT ![r].at = "locking", ![r].todo = t]
    BY <1>6, <2>1, Zenon DEF Postings!PayFind
  <2>3. CASE req' = [req EXCEPT ![r].at = "locking", ![r].todo = t]
    <3>1. Postings!ReqShaped' /\ req'[r].at = "locking" /\ \A s \in Requests \ {r} : req'[s] = req[s]
      BY <1>0, <2>3, ReadTells
    <3>. QED  BY <3>1
  <2>. QED  BY <1>1, <2>2, <2>3
<1>7. CASE Postings!PayLock(r)
  <2>1. PICK d : req' = [req EXCEPT ![r].todo = req[r].todo \ {d}]
    BY <1>7 DEF Postings!PayLock
  <2>2. req[r].at = "locking"
    BY <1>7 DEF Postings!PayLock, Postings!At
  <2>3. PICK t : t = req[r].todo \ {d}
    OBVIOUS
  <2>4. req' = [req EXCEPT ![r].todo = t]
    BY <2>1, <2>3
  <2>. QED  BY <1>0, <2>2, <2>4, TodoTells
<1>8. CASE Postings!PayRead(r)
  <2>1. Postings!End(r) \/ \E t : req' = [req EXCEPT ![r].at = "paying", ![r].alloc = t]
    BY <1>8, Zenon DEF Postings!PayRead
  <2>2. ASSUME NEW t, req' = [req EXCEPT ![r].at = "paying", ![r].alloc = t]
        PROVE  req'[r].at # "new" /\ \A s \in Requests \ {r} : req'[s] = req[s]
    <3>1. Postings!ReqShaped' /\ req'[r].at = "paying" /\ \A s \in Requests \ {r} : req'[s] = req[s]
      BY <1>0, <2>2, ReadTells
    <3>. QED  BY <3>1
  <2>. QED  BY <1>1, <2>1, <2>2
<1>. QED
  BY <1>1, <1>3, <1>4, <1>5, <1>6, <1>7, <1>8
  DEF Postings!Step, Postings!Update, Postings!Delete, Postings!Post, Postings!Unpost,
      Postings!Pay, Postings!Abort

\* A step that changes no payment and does not let its request pay.
LEMMA PaymentsQuiet ==
  ASSUME Postings!PaymentsInv, NEW r \in Requests, UNCHANGED <<paid, there>>,
         \A s \in Requests \ {r} : req'[s] = req[s], req'[r].at # "paying"
  PROVE  (Postings!PaymentsTyped /\ Postings!Allocated /\ Postings!AppliedInFull)'
<1>1. Postings!Allocated'
  BY DEF Postings!PaymentsInv, Postings!Allocated
<1>. QED
  BY <1>1 DEF Postings!PaymentsInv, Postings!PaymentsTyped, Postings!AppliedInFull

\* A request keeps what it has read.
LEMMA AllocRead ==
  ASSUME Postings!ReqShaped, NEW r \in Requests, NEW t,
         req' = [req EXCEPT ![r].at = "paying", ![r].alloc = t]
  PROVE  req'[r].at = "paying" /\ req'[r].alloc = t
<1>1. DOMAIN req = Requests /\ DOMAIN req[r] = {"at", "todo", "total", "alloc"}
  BY DEF Postings!ReqShaped
<1>2. req'[r] = [req[r] EXCEPT !.at = "paying", !.alloc = t]
  BY <1>1
<1>. QED  BY <1>1, <1>2

LEMMA TodoRead ==
  ASSUME Postings!ReqShaped, NEW r \in Requests, NEW t,
         req' = [req EXCEPT ![r].at = "locking", ![r].todo = t]
  PROVE  req'[r].at = "locking" /\ req'[r].todo = t
<1>1. DOMAIN req = Requests /\ DOMAIN req[r] = {"at", "todo", "total", "alloc"}
  BY DEF Postings!ReqShaped
<1>2. req'[r] = [req[r] EXCEPT !.at = "locking", !.todo = t]
  BY <1>1
<1>. QED  BY <1>1, <1>2

LEMMA ListRead ==
  ASSUME Postings!ReqShaped, NEW r \in Requests, NEW t, req' = [req EXCEPT ![r].todo = t]
  PROVE  req'[r].at = req[r].at /\ req'[r].todo = t
<1>1. DOMAIN req = Requests /\ DOMAIN req[r] = {"at", "todo", "total", "alloc"}
  BY DEF Postings!ReqShaped
<1>2. req'[r] = [req[r] EXCEPT !.todo = t]
  BY <1>1
<1>. QED  BY <1>1, <1>2

\* What a request reads when it is about to pay.
LEMMA PayReadTells ==
  ASSUME Postings!InvoicesAssumption, Postings!PostingsInv, NEW r \in Requests,
         Postings!PayRead(r), ~Postings!End(r)
  PROVE  /\ Postings!Accepted(r) /\ UNCHANGED lock /\ req'[r].at = "paying"
         /\ req'[r].alloc = [l \in Lots |->
              Postings!SumFunctionOnSet([d \in Docs |-> Postings!Share(r, d)],
                                        {d \in Postings!Open : doc[d].lot = l})]
<1>1. PICK t : t = [l \in Lots |->
              Postings!SumFunctionOnSet([d \in Docs |-> Postings!Share(r, d)],
                                        {d \in Postings!Open : doc[d].lot = l})]
  OBVIOUS
<1>2. /\ Postings!Accepted(r) /\ UNCHANGED lock
      /\ req' = [req EXCEPT ![r].at = "paying", ![r].alloc = t]
  BY <1>1, Zenon DEF Postings!PayRead
<1>3. req'[r].at = "paying" /\ req'[r].alloc = t
  BY <1>2, AllocRead DEF Postings!PostingsInv
<1>. QED  BY <1>1, <1>2, <1>3, Zenon

\* A step of a request keeps the invariant of the payments: what is allocated is the
\* payment, and what is written is what was allocated.
LEMMA PaymentsStep ==
  ASSUME Postings!InvoicesAssumption, Postings!PaymentsInv, [Postings!Next]_(Postings!vars)
  PROVE  Postings!PaymentsInv'
<1>. SUFFICES (Postings!PaymentsTyped /\ Postings!Allocated /\ Postings!AppliedInFull)'
  BY PostingsStep DEF Postings!PaymentsInv
<1>0. Postings!PostingsInv /\ Postings!PaymentsTyped /\ Postings!Allocated /\ Postings!AppliedInFull
  BY DEF Postings!PaymentsInv
<1>1. ASSUME NEW r \in Requests, Postings!End(r), UNCHANGED <<paid, there>>
      PROVE  (Postings!PaymentsTyped /\ Postings!Allocated /\ Postings!AppliedInFull)'
  <2>1. req'[r].at = "done" /\ \A s \in Requests \ {r} : req'[s] = req[s]
    BY <1>0, <1>1, EndTells DEF Postings!PostingsInv
  <2>. QED  BY <1>1, <2>1, PaymentsQuiet
<1>2. ASSUME NEW r \in Requests, Postings!PayRead(r)
      PROVE  (Postings!PaymentsTyped /\ Postings!Allocated /\ Postings!AppliedInFull)'
  <2>1. CASE Postings!End(r)
    BY <1>1, <1>2, <2>1 DEF Postings!PayRead
  <2>2. CASE ~Postings!End(r)
    <3>. DEFINE a == req'[r].alloc
    <3>1. /\ Postings!Accepted(r)
          /\ a = [l \in Lots |->
                    Postings!SumFunctionOnSet([d \in Docs |-> Postings!Share(r, d)],
                                              {d \in Postings!Open : doc[d].lot = l})]
      BY <1>0, <1>2, <2>2, PayReadTells
    <3>2. a = [l \in Lots |-> a[l]]
      BY <3>1, Zenon
    <3>3. (\A l \in Lots : a[l] \in Nat) /\ SumFunctionOnSet(a, Lots) = AmountOf[PayOf[r]]
      <4>1. \A l \in Lots :
              a[l] = Postings!SumFunctionOnSet([d \in Docs |-> Postings!Share(r, d)],
                                               {d \in Postings!Open : doc[d].lot = l})
        BY <3>1, Zenon
      <4>. HIDE DEF a
      <4>. QED  BY <1>0, <3>1, <4>1, AllocTells
    <3>4. a \in [Lots -> Nat]
      <4>. HIDE DEF a
      <4>. QED  BY <3>2, <3>3
    <3>5. \A s \in Requests \ {r} : req'[s] = req[s]
      BY <1>0, <1>2, StepTells DEF Postings!Step
    <3>6. Postings!Allocated'
      BY <1>0, <3>3, <3>4, <3>5, SameSums DEF Postings!Allocated
    <3>. QED
      BY <1>0, <1>2, <3>6 DEF Postings!PayRead, Postings!PaymentsTyped, Postings!AppliedInFull
  <2>. QED  BY <2>1, <2>2
<1>3. ASSUME NEW r \in Requests, Postings!Pay(r)
      PROVE  (Postings!PaymentsTyped /\ Postings!Allocated /\ Postings!AppliedInFull)'
  <2>1. CASE UNCHANGED <<paid, there>>
    BY <1>1, <1>3, <2>1 DEF Postings!Pay
  <2>2. CASE /\ there' = there \cup {PayOf[r]}
             /\ paid' = [paid EXCEPT ![PayOf[r]] = req[r].alloc]
    <3>1. /\ req[r].alloc \in [Lots -> Nat] /\ PayOf[r] \in Payments
          /\ Postings!SumFunctionOnSet(req[r].alloc, Lots) = AmountOf[PayOf[r]]
      BY <1>0, <1>3 DEF Postings!Allocated, Postings!Pay, Postings!At, Postings!InvoicesAssumption
    <3>2. Postings!PaymentsTyped'
      BY <1>0, <2>2, <3>1 DEF Postings!PaymentsTyped
    <3>3. Postings!AppliedInFull'
      <4>. SUFFICES ASSUME NEW p \in there'
                    PROVE  Postings!SumFunctionOnSet(paid'[p], Lots) = AmountOf[p]
        BY DEF Postings!AppliedInFull
      <4>1. CASE p = PayOf[r]
        <5>1. paid'[p] = req[r].alloc
          BY <1>0, <2>2, <3>1, <4>1 DEF Postings!PaymentsTyped
        <5>. QED  BY <3>1, <4>1, <5>1
      <4>2. CASE p # PayOf[r]
        <5>1. p \in there /\ paid'[p] = paid[p]
          BY <1>0, <2>2, <4>2 DEF Postings!PaymentsTyped
        <5>. QED  BY <1>0, <5>1 DEF Postings!AppliedInFull
      <4>. QED  BY <4>1, <4>2
    <3>4. Postings!Allocated'
      <4>1. Postings!End(r)
        BY <1>3 DEF Postings!Pay
      <4>2. req'[r].at = "done" /\ \A s \in Requests \ {r} : req'[s] = req[s]
        BY <1>0, <4>1, EndTells DEF Postings!PostingsInv
      <4>. QED  BY <1>0, <4>2 DEF Postings!Allocated
    <3>. QED  BY <3>2, <3>3, <3>4
  <2>. QED  BY <1>3, <2>1, <2>2 DEF Postings!Pay
<1>4. ASSUME NEW p \in Payments, Postings!Drop(p)
      PROVE  (Postings!PaymentsTyped /\ Postings!Allocated /\ Postings!AppliedInFull)'
  <2>1. there' = there \ {p} /\ paid' = [paid EXCEPT ![p] = Postings!Nothing] /\ UNCHANGED req
    BY <1>4 DEF Postings!Drop
  <2>2. Postings!Nothing \in [Lots -> Nat]
    BY DEF Postings!Nothing
  <2>3. Postings!PaymentsTyped'
    BY <1>0, <2>1, <2>2 DEF Postings!PaymentsTyped, Postings!Nothing
  <2>4. \A q \in there' : q \in there /\ paid'[q] = paid[q]
    BY <1>0, <2>1 DEF Postings!PaymentsTyped
  <2>5. Postings!AppliedInFull'
    BY <1>0, <2>4 DEF Postings!AppliedInFull
  <2>. QED  BY <1>0, <2>1, <2>3, <2>5 DEF Postings!Allocated
<1>5. ASSUME NEW r \in Requests, Postings!Step(r) \/ Postings!Abort(r),
             ~Postings!PayRead(r), ~Postings!Pay(r)
      PROVE  (Postings!PaymentsTyped /\ Postings!Allocated /\ Postings!AppliedInFull)'
  <2>1. UNCHANGED <<paid, there>>
    BY <1>5
    DEF Postings!Step, Postings!Abort, Postings!CheckDraft, Postings!Update, Postings!Delete,
        Postings!PostLock, Postings!Post, Postings!UnpostLock, Postings!Unpost,
        Postings!PayFind, Postings!PayLock
  <2>2. CASE Postings!End(r)
    BY <1>1, <2>1, <2>2
  <2>3. CASE ~Postings!End(r)
    <3>1. req'[r].at # "paying"
      <4>. USE <1>0, <2>3 DEF Postings!PostingsInv
      <4>1. CASE Postings!CheckDraft(r)
        <5>1. req' = [req EXCEPT ![r].at = "checked"]
          BY <4>1 DEF Postings!CheckDraft
        <5>2. Postings!ReqShaped' /\ req'[r].at = "checked"
          BY <5>1, PlaceTells
        <5>. QED  BY <5>2
      <4>2. CASE Postings!PostLock(r)
        BY <4>2, PlaceTells DEF Postings!PostLock
      <4>3. CASE Postings!UnpostLock(r)
        <5>1. req' = [req EXCEPT ![r].at = "locked"]
          BY <4>3 DEF Postings!UnpostLock
        <5>2. Postings!ReqShaped' /\ req'[r].at = "locked"
          BY <5>1, PlaceTells
        <5>. QED  BY <5>2
      <4>4. CASE Postings!PayFind(r)
        BY <4>4, ReadTells DEF Postings!PayFind
      <4>5. CASE Postings!PayLock(r)
        BY <4>5, TodoTells DEF Postings!PayLock, Postings!At
      <4>. QED
        BY <1>5, <4>1, <4>2, <4>3, <4>4, <4>5
        DEF Postings!Step, Postings!Update, Postings!Delete, Postings!Post, Postings!Unpost,
            Postings!Abort
    <3>. QED  BY <1>0, <1>5, <2>1, <3>1, StepTells, PaymentsQuiet
  <2>. QED  BY <2>2, <2>3
<1>6. CASE UNCHANGED Postings!vars
  BY <1>0, <1>6 DEF Postings!vars, Postings!PaymentsTyped, Postings!Allocated, Postings!AppliedInFull
<1>. QED  BY <1>2, <1>3, <1>4, <1>5, <1>6 DEF Postings!Next

\* At the beginning nothing is paid.
LEMMA PaymentsStart ==
  ASSUME Postings!InvoicesAssumption PROVE Postings!Init => Postings!PaymentsInv
<1>. SUFFICES ASSUME Postings!Init PROVE Postings!PaymentsInv
  OBVIOUS
<1>1. /\ there = {} /\ paid = [p \in Payments |-> Postings!Nothing]
      /\ \A r \in Requests : req[r].at = "new"
  BY DEF Postings!Init, Postings!New
<1>2. Postings!Nothing \in [Lots -> Nat]
  BY DEF Postings!Nothing
<1>. QED
  BY <1>1, <1>2, PostingsStart
  DEF Postings!PaymentsInv, Postings!PaymentsTyped, Postings!Allocated, Postings!AppliedInFull

\* The inductive invariant of payments: one that is about to be written is allocated
\* in full.
THEOREM PaymentsInvariant ==
  ASSUME Postings!InvoicesAssumption PROVE Postings!Spec => []Postings!PaymentsInv
BY PaymentsStart, PaymentsStep, PTL DEF Postings!Spec

\* applyPayment: whatever the documents owed when a payment began, by order of their
\* guids or named, the splits that it writes add up to it.
THEOREM PaymentsAddUp ==
  ASSUME Postings!InvoicesAssumption PROVE Postings!Spec => []Postings!AppliedInFull
BY PaymentsInvariant, PTL DEF Postings!PaymentsInv

\* What the invariant of the dues says of one request.
Safe(r) ==
    /\ Kind[r] \in {"update", "delete"} /\ req[r].at = "checked" => doc[Target[r]].status # "posted"
    /\ Kind[r] = "unpost" /\ req[r].at = "locked" => Postings!Paid(doc[Target[r]].lot) = 0
    /\ req[r].at = "locking" => \A d \in Postings!Open : d \in req[r].todo \/ lock[d] = r
    /\ req[r].at = "paying" =>
         /\ Postings!Open # {} /\ \A d \in Postings!Open : lock[d] = r
         /\ \A l \in Lots : req[r].alloc[l] <= Postings!Due(l)

LEMMA SafeSays ==
  Postings!DuesInv <=> /\ Postings!PaymentsInv /\ Postings!NeverOverpaid
                       /\ \A r \in Requests : Safe(r)
BY Zenon DEF Postings!DuesInv, Postings!EditedUnposted, Postings!UnpaidReversed, Postings!Listed,
             Postings!Affordable, Safe

\* Who is about to pay has every posted document, so is alone, and nobody is about
\* to unpost.
LEMMA PayerAlone ==
  ASSUME Postings!InvoicesAssumption, Postings!PostingsInv, NEW r \in Requests, NEW s \in Requests,
         Safe(r), Safe(s), req[r].at = "paying"
  PROVE  /\ req[s].at = "paying" => s = r
         /\ ~(Kind[s] = "unpost" /\ req[s].at = "locked")
<1>1. PICK d \in Postings!Open : lock[d] = r
  BY DEF Safe
<1>2. req[s].at = "paying" => s = r
  BY <1>1 DEF Safe
<1>3. ~(Kind[s] = "unpost" /\ req[s].at = "locked")
  <2>. SUFFICES ASSUME Kind[s] = "unpost", req[s].at = "locked" PROVE FALSE
    OBVIOUS
  <2>1. lock[Target[s]] = s /\ doc[Target[s]].status = "posted" /\ Target[s] \in Docs
    BY DEF Postings!PostingsInv, Postings!Held, Postings!InvoicesAssumption
  <2>2. Target[s] \in Postings!Open
    BY <2>1 DEF Postings!Open
  <2>. QED  BY <2>1, <2>2 DEF Safe
<1>. QED  BY <1>2, <1>3

\* A step that posts and unposts nothing and pays nothing: what a request other than
\* the one that goes on has found stays true.
LEMMA DuesQuiet ==
  ASSUME Postings!InvoicesAssumption, Postings!PostingsInv, Postings!NeverOverpaid,
         \A s \in Requests : Safe(s),
         NEW r \in Requests, \A s \in Requests \ {r} : req'[s] = req[s],
         \A d \in Docs : lock[d] \in Requests \ {r} => lock'[d] = lock[d],
         \A d \in Docs : doc'[d].lot = doc[d].lot /\ (doc'[d].status = "posted" <=> doc[d].status = "posted"),
         UNCHANGED <<lot, paid, there>>
  PROVE  /\ Postings!NeverOverpaid' /\ \A s \in Requests \ {r} : Safe(s)'
         /\ Postings!Open' = Postings!Open
         /\ \A l : Postings!Due(l)' = Postings!Due(l) /\ Postings!Paid(l)' = Postings!Paid(l)
<1>1. /\ Postings!Open' = Postings!Open
      /\ \A l : Postings!Due(l)' = Postings!Due(l) /\ Postings!Paid(l)' = Postings!Paid(l)
  BY DEF Postings!Open, Postings!Due, Postings!Paid
<1>2. ASSUME NEW s \in Requests \ {r} PROVE Safe(s)'
  <2>1. req'[s] = req[s] /\ Target[s] \in Docs /\ Safe(s)
    BY DEF Postings!InvoicesAssumption
  <2>2. \A d \in Postings!Open : lock[d] = s => lock'[d] = s
    BY DEF Postings!Open
  <2>. QED  BY <1>1, <2>1, <2>2 DEF Safe
<1>3. Postings!NeverOverpaid'
  BY <1>1 DEF Postings!NeverOverpaid
<1>. QED  BY <1>1, <1>2, <1>3

\* A request that is at an end, or begins, has nothing to keep true.
LEMMA SafeAtRest ==
  ASSUME NEW r \in Requests, req'[r].at = "done" PROVE Safe(r)'
BY DEF Safe

\* The end of a request that leaves documents, lots and payments alone.
LEMMA DuesEnd ==
  ASSUME Postings!InvoicesAssumption, Postings!PostingsInv, Postings!NeverOverpaid,
         \A s \in Requests : Safe(s),
         NEW r \in Requests, Postings!End(r),
         \A d \in Docs : doc'[d].lot = doc[d].lot /\ (doc'[d].status = "posted" <=> doc[d].status = "posted"),
         UNCHANGED <<lot, paid, there>>
  PROVE  Postings!NeverOverpaid' /\ \A s \in Requests : Safe(s)'
<1>1. /\ req'[r].at = "done" /\ \A s \in Requests \ {r} : req'[s] = req[s]
      /\ \A d \in Docs : lock[d] # r => lock'[d] = lock[d]
  BY EndTells DEF Postings!PostingsInv
<1>2. \A d \in Docs : lock[d] \in Requests \ {r} => lock'[d] = lock[d]
  BY <1>1
<1>3. Postings!NeverOverpaid' /\ \A s \in Requests \ {r} : Safe(s)'
  BY <1>1, <1>2, DuesQuiet
<1>. QED  BY <1>1, <1>3, SafeAtRest

\* The steps of a request that find something out or lock a row.
LEMMA DuesLook ==
  ASSUME Postings!InvoicesAssumption, Postings!PostingsInv, Postings!PaymentsTyped,
         Postings!NeverOverpaid, \A s \in Requests : Safe(s), NEW r \in Requests, ~Postings!End(r),
         \/ Postings!CheckDraft(r) \/ Postings!UnpostLock(r) \/ Postings!PayFind(r)
         \/ Postings!PayLock(r) \/ Postings!PayRead(r)
  PROVE  Postings!NeverOverpaid' /\ \A s \in Requests : Safe(s)'
<1>0. /\ UNCHANGED <<doc, lot, paid, there>> /\ Target[r] \in Docs /\ NoRequest \notin Requests
      /\ Postings!ReqShaped /\ lock \in [Docs -> Requests \cup {NoRequest}]
  BY DEF Postings!CheckDraft, Postings!UnpostLock, Postings!PayFind, Postings!PayLock, Postings!PayRead,
         Postings!InvoicesAssumption, Postings!PostingsInv, Postings!DocsTyped
<1>1. \A s \in Requests \ {r} : req'[s] = req[s]
  BY StepTells DEF Postings!Step
<1>2. \A d \in Docs : lock[d] \in Requests \ {r} => lock'[d] = lock[d]
  <2>1. CASE UNCHANGED lock
    BY <2>1
  <2>2. CASE \E e, n : lock[e] = NoRequest /\ lock' = [lock EXCEPT ![e] = n]
    BY <1>0, <2>2
  <2>. QED
    BY <2>1, <2>2
    DEF Postings!CheckDraft, Postings!UnpostLock, Postings!PayFind, Postings!PayLock, Postings!PayRead,
        Postings!Free
<1>3. /\ Postings!NeverOverpaid' /\ \A s \in Requests \ {r} : Safe(s)'
      /\ Postings!Open' = Postings!Open
      /\ \A l : Postings!Due(l)' = Postings!Due(l) /\ Postings!Paid(l)' = Postings!Paid(l)
  BY <1>0, <1>1, <1>2, DuesQuiet
<1>. SUFFICES Safe(r)'
  BY <1>3
<1>4. CASE Postings!CheckDraft(r)
  <2>1. /\ req' = [req EXCEPT ![r].at = "checked"] /\ doc[Target[r]].status = "draft"
    BY <1>4 DEF Postings!CheckDraft
  <2>2. Postings!ReqShaped' /\ req'[r].at = "checked"
    BY <1>0, <2>1, PlaceTells
  <2>. QED  BY <1>0, <2>1, <2>2 DEF Safe
<1>5. CASE Postings!UnpostLock(r)
  <2>1. /\ req' = [req EXCEPT ![r].at = "locked"] /\ Postings!Paid(doc[Target[r]].lot) = 0
    BY <1>5 DEF Postings!UnpostLock
  <2>2. Postings!ReqShaped' /\ req'[r].at = "locked"
    BY <1>0, <2>1, PlaceTells
  <2>3. Postings!Paid(doc[Target[r]].lot)' = 0
    BY <1>0, <2>1 DEF Postings!Paid
  <2>. QED  BY <2>2, <2>3 DEF Safe
<1>6. CASE Postings!PayFind(r)
  <2>1. req' = [req EXCEPT ![r].at = "locking", ![r].todo = Postings!Open]
    BY <1>6, Zenon DEF Postings!PayFind, Postings!Open
  <2>2. req'[r].at = "locking" /\ req'[r].todo = Postings!Open
    <3>1. PICK t : t = Postings!Open
      OBVIOUS
    <3>2. req' = [req EXCEPT ![r].at = "locking", ![r].todo = t]
      BY <2>1, <3>1
    <3>. QED  BY <1>0, <3>1, <3>2, TodoRead
  <2>. QED  BY <1>3, <2>2 DEF Safe
<1>7. CASE Postings!PayLock(r)
  <2>1. PICK d : /\ d \in req[r].todo /\ lock[d] = NoRequest
                 /\ req' = [req EXCEPT ![r].todo = req[r].todo \ {d}]
                 /\ lock' = [lock EXCEPT ![d] = IF doc[d].status = "deleted" THEN NoRequest ELSE r]
    BY <1>7 DEF Postings!PayLock, Postings!NextToLock, Postings!Free
  <2>2. req[r].at = "locking"
    BY <1>7 DEF Postings!PayLock, Postings!At
  <2>3. req'[r].at = "locking" /\ req'[r].todo = req[r].todo \ {d}
    <3>1. PICK t : t = req[r].todo \ {d}
      OBVIOUS
    <3>2. req' = [req EXCEPT ![r].todo = t]
      BY <2>1, <3>1
    <3>3. req'[r].at = req[r].at /\ req'[r].todo = t
      BY <1>0, <3>2, ListRead
    <3>. QED  BY <2>2, <3>1, <3>3
  <2>4. ASSUME NEW e \in Postings!Open PROVE e \in req'[r].todo \/ lock'[e] = r
    <3>1. e \in req[r].todo \/ lock[e] = r
      BY <2>2 DEF Safe
    <3>2. e \in Docs /\ doc[e].status # "deleted"
      BY DEF Postings!Open
    <3>3. CASE e = d
      BY <1>0, <2>1, <3>2, <3>3
    <3>4. CASE e # d
      <4>1. lock'[e] = lock[e]
        BY <2>1, <3>4
      <4>. QED  BY <2>3, <3>1, <3>4, <4>1
    <3>. QED  BY <3>3, <3>4
  <2>. QED  BY <1>3, <2>3, <2>4 DEF Safe
<1>8. CASE Postings!PayRead(r)
  <2>1. /\ Postings!Accepted(r) /\ UNCHANGED lock /\ req'[r].at = "paying"
        /\ req'[r].alloc = [l \in Lots |->
             Postings!SumFunctionOnSet([d \in Docs |-> Postings!Share(r, d)],
                                       {d \in Postings!Open : doc[d].lot = l})]
    BY <1>8, PayReadTells
  <2>2. req[r].at = "locking" /\ req[r].todo = {}
    BY <1>8 DEF Postings!PayRead, Postings!At
  <2>3. \A d \in Postings!Open : lock[d] = r
    BY <2>2 DEF Safe
  <2>4. /\ \A l \in Lots : req'[r].alloc[l] \in Nat
        /\ \A l \in Lots : req'[r].alloc[l] # 0 => req'[r].alloc[l] <= Postings!Due(l)
        /\ Postings!Open # {}
    <3>1. PICK a : a = req'[r].alloc
      OBVIOUS
    <3>2. \A l \in Lots :
            a[l] = Postings!SumFunctionOnSet([d \in Docs |-> Postings!Share(r, d)],
                                             {d \in Postings!Open : doc[d].lot = l})
      BY <2>1, <3>1, Zenon
    <3>3. /\ \A l \in Lots : a[l] \in Nat /\ (a[l] # 0 => a[l] <= Postings!Due(l))
          /\ Postings!Open # {}
      BY <2>1, <3>2, AllocTells
    <3>. QED  BY <3>1, <3>3
  <2>5. \A l \in Lots : Postings!Due(l) >= 0 /\ Postings!Due(l) \in Int
    BY DuesTyped DEF Postings!NeverOverpaid
  <2>6. \A l \in Lots : req'[r].alloc[l] <= Postings!Due(l)
    BY <2>4, <2>5
  <2>. QED  BY <1>3, <2>1, <2>3, <2>4, <2>6 DEF Safe
<1>. QED  BY <1>4, <1>5, <1>6, <1>7, <1>8

\* A payment into a lot adds to what is paid, the deletion of one takes from it.
LEMMA PaidMore ==
  ASSUME Postings!InvoicesAssumption, Postings!PaymentsTyped, NEW p \in Payments \ there,
         NEW a \in [Lots -> Nat], there' = there \cup {p}, paid' = [paid EXCEPT ![p] = a]
  PROVE  \A l \in Lots : Postings!Paid(l)' = a[l] + Postings!Paid(l)
<1>. SUFFICES ASSUME NEW l \in Lots PROVE Postings!Paid(l)' = a[l] + Postings!Paid(l)
  OBVIOUS
<1>1. PICK f : f = [q \in Payments |-> paid[q][l]]
  OBVIOUS
<1>2. PICK g : g = [q \in Payments |-> paid'[q][l]]
  OBVIOUS
<1>3. /\ there \subseteq Payments /\ p \notin there
      /\ g[p] = a[l] /\ a[l] \in Nat
      /\ \A q \in there : g[q] = f[q] /\ f[q] \in Nat
  BY <1>1, <1>2 DEF Postings!PaymentsTyped
<1>4. IsFiniteSet(there)
  BY <1>3, FiniteData, FS_Subset
<1>5. SumFunctionOnSet(g, there \cup {p}) = g[p] + SumFunctionOnSet(g, there)
  <2>1. \A q \in there \cup {p} : g[q] \in Int
    BY <1>3
  <2>. QED  BY <1>3, <1>4, <2>1, SumAdd, Zenon
<1>6. SumFunctionOnSet(g, there) = SumFunctionOnSet(f, there)
  BY <1>3, <1>4, SumEqual
<1>7. Postings!Paid(l)' = SumFunctionOnSet(g, there \cup {p})
  BY <1>2, SameSums, Zenon DEF Postings!Paid
<1>8. Postings!Paid(l) = SumFunctionOnSet(f, there)
  BY <1>1, SameSums, Zenon DEF Postings!Paid
<1>. QED  BY <1>3, <1>5, <1>6, <1>7, <1>8

LEMMA PaidLess ==
  ASSUME Postings!InvoicesAssumption, Postings!PaymentsTyped, NEW p \in there,
         there' = there \ {p}, paid' = [paid EXCEPT ![p] = Postings!Nothing]
  PROVE  \A l \in Lots : Postings!Paid(l)' \in Nat /\ Postings!Paid(l)' <= Postings!Paid(l)
<1>. SUFFICES ASSUME NEW l \in Lots
              PROVE  Postings!Paid(l)' \in Nat /\ Postings!Paid(l)' <= Postings!Paid(l)
  OBVIOUS
<1>1. PICK f : f = [q \in Payments |-> paid[q][l]]
  OBVIOUS
<1>2. PICK g : g = [q \in Payments |-> paid'[q][l]]
  OBVIOUS
<1>3. /\ there \subseteq Payments
      /\ \A q \in there \ {p} : g[q] = f[q]
      /\ \A q \in there : f[q] \in Nat
  BY <1>1, <1>2 DEF Postings!PaymentsTyped
<1>4. IsFiniteSet(there) /\ IsFiniteSet(there \ {p})
  BY <1>3, FiniteData, FS_Subset
<1>5. SumFunctionOnSet(f, there) = f[p] + SumFunctionOnSet(f, there \ {p})
  <2>1. \A q \in there : f[q] \in Int
    BY <1>3
  <2>. QED  BY <1>4, <2>1, SumRemove, ZenonT(60)
<1>6. SumFunctionOnSet(f, there \ {p}) \in Nat
  BY <1>3, <1>4, SumNat
<1>7. SumFunctionOnSet(g, there \ {p}) = SumFunctionOnSet(f, there \ {p})
  BY <1>3, <1>4, SumEqual
<1>8. Postings!Paid(l)' = SumFunctionOnSet(g, there \ {p})
  BY <1>2, SameSums, Zenon DEF Postings!Paid
<1>9. Postings!Paid(l) = SumFunctionOnSet(f, there)
  BY <1>1, SameSums, Zenon DEF Postings!Paid
<1>10. f[p] \in Nat
  BY <1>3
<1>. QED  BY <1>5, <1>6, <1>7, <1>8, <1>9, <1>10

\* The reversal: nothing was paid since the row was locked, and no payer has it.
LEMMA DuesUnpost ==
  ASSUME Postings!InvoicesAssumption, Postings!PostingsInv, Postings!PaymentsTyped,
         Postings!NeverOverpaid, \A s \in Requests : Safe(s), NEW r \in Requests, Postings!Unpost(r)
  PROVE  Postings!NeverOverpaid' /\ \A s \in Requests : Safe(s)'
<1>. DEFINE d == Target[r]
<1>1. /\ lot' = [lot EXCEPT ![doc[d].lot].reversed = TRUE]
      /\ doc' = [doc EXCEPT ![d].status = "draft", ![d].lot = NoLot]
      /\ Postings!End(r) /\ Kind[r] = "unpost" /\ req[r].at = "locked"
      /\ UNCHANGED <<paid, there>>
  BY DEF Postings!Unpost, Postings!At
<1>2. lock[d] = r /\ doc[d].status = "posted" /\ d \in Docs
  BY <1>1 DEF Postings!PostingsInv, Postings!Held, Postings!InvoicesAssumption
<1>3. d \in Postings!Open /\ doc[d].lot \in Lots
  <2>1. d \in Postings!Open
    BY <1>2 DEF Postings!Open
  <2>. QED  BY <2>1, OwnLots
<1>4. /\ \A s \in Requests \ {r} : req'[s] = req[s]
      /\ req'[r].at = "done"
      /\ \A e \in Docs : lock[e] # r => lock'[e] = lock[e]
  BY <1>1, EndTells DEF Postings!PostingsInv
<1>5. Postings!Paid(doc[d].lot) = 0
  BY <1>1 DEF Safe
<1>. HIDE DEF d
<1>6. /\ doc'[d].status = "draft"
      /\ \A e \in Docs \ {d} : doc'[e] = doc[e]
  BY <1>1, <1>2 DEF Postings!PostingsInv, Postings!DocsTyped
<1>7. /\ lot'[doc[d].lot].reversed
      /\ \A l \in Lots \ {doc[d].lot} : lot'[l] = lot[l]
  BY <1>1, <1>3 DEF Postings!PostingsInv, Postings!DocsTyped
<1>8. \A l : Postings!Paid(l)' = Postings!Paid(l)
  BY <1>1 DEF Postings!Paid
<1>9. Postings!NeverOverpaid'
  <2>. SUFFICES ASSUME NEW l \in Lots PROVE Postings!Due(l)' >= 0
    BY DEF Postings!NeverOverpaid
  <2>1. CASE l = doc[d].lot
    BY <1>5, <1>7, <1>8, <2>1 DEF Postings!Due
  <2>2. CASE l # doc[d].lot
    <3>1. Postings!Due(l)' = Postings!Due(l)
      BY <1>7, <1>8, <2>2 DEF Postings!Due
    <3>. QED  BY <3>1 DEF Postings!NeverOverpaid
  <2>. QED  BY <2>1, <2>2
<1>10. ASSUME NEW s \in Requests \ {r} PROVE Safe(s)'
  <2>1. req'[s] = req[s] /\ Target[s] \in Docs /\ Safe(s)
    BY <1>4 DEF Postings!InvoicesAssumption
  <2>2. req[s].at # "paying"
    BY <1>1, PayerAlone
  <2>3. \A e \in Postings!Open' : e \in Postings!Open /\ e # d /\ e \in Docs
    BY <1>6 DEF Postings!Open
  <2>4. req[s].at = "locking" => \A e \in Postings!Open' : e \in req[s].todo \/ lock'[e] = s
    BY <1>4, <2>1, <2>3 DEF Safe
  <2>5. Kind[s] = "unpost" /\ req[s].at = "locked" => doc'[Target[s]].lot = doc[Target[s]].lot
    <3>. SUFFICES ASSUME Kind[s] = "unpost", req[s].at = "locked" PROVE Target[s] # d
      BY <1>6, <2>1
    <3>1. lock[Target[s]] = s
      BY DEF Postings!PostingsInv, Postings!Held
    <3>. QED  BY <1>2, <3>1
  <2>6. Kind[s] \in {"update", "delete"} /\ req[s].at = "checked" => doc'[Target[s]].status # "posted"
    BY <1>6, <2>1 DEF Safe
  <2>. QED  BY <1>8, <2>1, <2>2, <2>4, <2>5, <2>6 DEF Safe
<1>. QED  BY <1>4, <1>9, <1>10, SafeAtRest

\* The payment: whoever writes it is the only payer, and nobody is to unpost.
LEMMA DuesPay ==
  ASSUME Postings!InvoicesAssumption, Postings!PaymentsInv,
         Postings!NeverOverpaid, \A s \in Requests : Safe(s), NEW r \in Requests, Postings!Pay(r),
         PayOf[r] \notin there
  PROVE  Postings!NeverOverpaid' /\ \A s \in Requests : Safe(s)'
<1>0. /\ Postings!PostingsInv /\ Postings!PaymentsTyped
      /\ PayOf[r] \in Payments
  BY DEF Postings!PaymentsInv, Postings!InvoicesAssumption
<1>1. /\ there' = there \cup {PayOf[r]} /\ paid' = [paid EXCEPT ![PayOf[r]] = req[r].alloc]
      /\ Postings!End(r) /\ req[r].at = "paying" /\ UNCHANGED <<doc, lot>>
  BY DEF Postings!Pay, Postings!At
<1>2. req[r].alloc \in [Lots -> Nat] /\ \A l \in Lots : req[r].alloc[l] <= Postings!Due(l)
  BY <1>1 DEF Postings!PaymentsInv, Postings!Allocated, Safe
<1>3. \A l \in Lots : Postings!Paid(l)' = req[r].alloc[l] + Postings!Paid(l)
  BY <1>0, <1>1, <1>2, PaidMore
<1>4. /\ \A s \in Requests \ {r} : req'[s] = req[s]
      /\ req'[r].at = "done"
      /\ \A e \in Docs : lock[e] # r => lock'[e] = lock[e]
  BY <1>0, <1>1, EndTells DEF Postings!PostingsInv
<1>5. Postings!NeverOverpaid'
  <2>. SUFFICES ASSUME NEW l \in Lots PROVE Postings!Due(l)' >= 0
    BY DEF Postings!NeverOverpaid
  <2>1. /\ Postings!Due(l) = (IF lot[l].reversed THEN 0 ELSE lot[l].amount) - Postings!Paid(l)
        /\ Postings!Due(l)' = (IF lot[l].reversed THEN 0 ELSE lot[l].amount) - Postings!Paid(l)'
    BY <1>1 DEF Postings!Due
  <2>2. lot[l].amount \in Nat /\ Postings!Paid(l) \in Nat
    BY <1>0, DuesTyped DEF Postings!PostingsInv, Postings!DocsTyped
  <2>3. req[r].alloc[l] \in Nat /\ req[r].alloc[l] <= Postings!Due(l)
    BY <1>2
  <2>. QED  BY <1>3, <2>1, <2>2, <2>3
<1>6. Postings!Open' = Postings!Open
  BY <1>1 DEF Postings!Open
<1>7. ASSUME NEW s \in Requests \ {r} PROVE Safe(s)'
  <2>1. req'[s] = req[s] /\ Target[s] \in Docs /\ Safe(s)
    BY <1>4 DEF Postings!InvoicesAssumption
  <2>2. req[s].at # "paying" /\ ~(Kind[s] = "unpost" /\ req[s].at = "locked")
    BY <1>0, <1>1, PayerAlone
  <2>3. \A e \in Postings!Open : lock[e] = s => lock'[e] = s
    BY <1>4 DEF Postings!Open
  <2>. QED  BY <1>1, <1>6, <2>1, <2>2, <2>3 DEF Safe
<1>. QED  BY <1>4, <1>5, <1>7, SafeAtRest

\* A payment that is deleted leaves more due.
LEMMA DuesDrop ==
  ASSUME Postings!InvoicesAssumption, Postings!PaymentsInv, Postings!NeverOverpaid,
         \A s \in Requests : Safe(s), NEW p \in Payments, Postings!Drop(p)
  PROVE  Postings!NeverOverpaid' /\ \A s \in Requests : Safe(s)'
<1>0. Postings!PostingsInv /\ Postings!PaymentsTyped
  BY DEF Postings!PaymentsInv
<1>1. /\ p \in there /\ there' = there \ {p} /\ paid' = [paid EXCEPT ![p] = Postings!Nothing]
      /\ UNCHANGED <<doc, lot, lock, req>>
  BY DEF Postings!Drop
<1>2. \A l \in Lots : Postings!Paid(l)' \in Nat /\ Postings!Paid(l)' <= Postings!Paid(l)
  BY <1>0, <1>1, PaidLess
<1>3. ASSUME NEW l \in Lots PROVE /\ Postings!Due(l) \in Int /\ Postings!Due(l)' \in Int
                                  /\ Postings!Due(l) <= Postings!Due(l)'
  <2>1. /\ Postings!Due(l) = (IF lot[l].reversed THEN 0 ELSE lot[l].amount) - Postings!Paid(l)
        /\ Postings!Due(l)' = (IF lot[l].reversed THEN 0 ELSE lot[l].amount) - Postings!Paid(l)'
    BY <1>1 DEF Postings!Due
  <2>2. lot[l].amount \in Nat /\ Postings!Paid(l) \in Nat
    BY <1>0, DuesTyped DEF Postings!PostingsInv, Postings!DocsTyped
  <2>. QED  BY <1>2, <2>1, <2>2
<1>4. Postings!NeverOverpaid'
  BY <1>3 DEF Postings!NeverOverpaid
<1>5. Postings!Open' = Postings!Open
  BY <1>1 DEF Postings!Open
<1>6. ASSUME NEW s \in Requests PROVE Safe(s)'
  <2>1. Kind[s] = "unpost" /\ req[s].at = "locked" => Postings!Paid(doc[Target[s]].lot)' = 0
    <3>. SUFFICES ASSUME Kind[s] = "unpost", req[s].at = "locked"
                  PROVE  Postings!Paid(doc[Target[s]].lot)' = 0
      OBVIOUS
    <3>1. Target[s] \in Postings!Open
      BY <1>0 DEF Postings!Open, Postings!PostingsInv, Postings!Held, Postings!InvoicesAssumption
    <3>2. PICK l \in Lots : l = doc[Target[s]].lot
      BY <1>0, <3>1, OwnLots
    <3>3. Postings!Paid(l) = 0
      BY <3>2 DEF Safe
    <3>4. Postings!Paid(l)' = 0
      BY <1>2, <3>3
    <3>5. Postings!Paid(doc[Target[s]].lot)' = Postings!Paid(l)'
      BY <1>1, <3>2 DEF Postings!Paid
    <3>. QED  BY <3>4, <3>5
  <2>2. req[s].at = "paying" => \A l \in Lots : req[s].alloc[l] <= Postings!Due(l)'
    <3>. SUFFICES ASSUME req[s].at = "paying", NEW l \in Lots
                  PROVE  req[s].alloc[l] <= Postings!Due(l)'
      OBVIOUS
    <3>1. req[s].alloc[l] <= Postings!Due(l)
      BY DEF Safe
    <3>2. Postings!Due(l) <= Postings!Due(l)' /\ Postings!Due(l) \in Int /\ Postings!Due(l)' \in Int
      BY <1>3
    <3>3. req[s].alloc[l] \in Nat
      BY DEF Postings!PaymentsInv, Postings!Allocated
    <3>. QED  BY <3>1, <3>2, <3>3
  <2>. QED  BY <1>1, <1>5, <2>1, <2>2 DEF Safe
<1>. QED  BY <1>4, <1>6

LEMMA DuesStep ==
  ASSUME Postings!InvoicesAssumption, Postings!NoPosts, Postings!DuesInv,
         [Postings!Next]_(Postings!vars)
  PROVE  Postings!DuesInv'
<1>0. /\ Postings!PostingsInv /\ Postings!PaymentsInv /\ Postings!PaymentsTyped
      /\ Postings!NeverOverpaid /\ \A s \in Requests : Safe(s)
  BY SafeSays DEF Postings!PaymentsInv
<1>1. Postings!PaymentsInv'
  BY <1>0, PaymentsStep
<1>. SUFFICES Postings!NeverOverpaid' /\ \A s \in Requests : Safe(s)'
  BY <1>1, SafeSays, Zenon
  DEF Postings!DuesInv, Postings!EditedUnposted, Postings!UnpaidReversed, Postings!Listed,
      Postings!Affordable, Safe
<1>2. ASSUME NEW r \in Requests, Postings!End(r), UNCHANGED <<doc, lot, paid, there>>
      PROVE  Postings!NeverOverpaid' /\ \A s \in Requests : Safe(s)'
  BY <1>0, <1>2, DuesEnd
<1>3. ASSUME NEW r \in Requests,
             \/ Postings!CheckDraft(r) \/ Postings!UnpostLock(r) \/ Postings!PayFind(r)
             \/ Postings!PayLock(r) \/ Postings!PayRead(r)
      PROVE  Postings!NeverOverpaid' /\ \A s \in Requests : Safe(s)'
  <2>1. CASE Postings!End(r)
    <3>1. UNCHANGED <<doc, lot, paid, there>>
      BY <1>3 DEF Postings!CheckDraft, Postings!UnpostLock, Postings!PayFind, Postings!PayLock, Postings!PayRead
    <3>. QED  BY <1>2, <2>1, <3>1
  <2>2. CASE ~Postings!End(r)
    BY <1>0, <1>3, <2>2, DuesLook
  <2>. QED  BY <2>1, <2>2
<1>4. ASSUME NEW r \in Requests, Postings!Update(r) \/ Postings!Delete(r)
      PROVE  Postings!NeverOverpaid' /\ \A s \in Requests : Safe(s)'
  <2>1. /\ Postings!End(r) /\ UNCHANGED <<lot, paid, there>>
        /\ \/ \E t \in Totals : doc' = [doc EXCEPT ![Target[r]].total = t]
           \/ UNCHANGED doc
           \/ doc' = [doc EXCEPT ![Target[r]].status = "deleted"]
    BY <1>4 DEF Postings!Update, Postings!Delete
  <2>2. doc[Target[r]].status # "posted"
    BY <1>0, <1>4 DEF Postings!Update, Postings!Delete, Postings!At, Safe
  <2>3. \A d \in Docs : doc'[d].lot = doc[d].lot /\ (doc'[d].status = "posted" <=> doc[d].status = "posted")
    <3>0. doc \in [Docs -> [status : {"draft", "posted", "deleted"}, total : Totals,
                            lot : Lots \cup {NoLot}]]
      BY <1>0 DEF Postings!PostingsInv, Postings!DocsTyped
    <3>1. CASE \E t \in Totals : doc' = [doc EXCEPT ![Target[r]].total = t]
      BY <3>0, <3>1
    <3>2. CASE doc' = [doc EXCEPT ![Target[r]].status = "deleted"]
      BY <2>2, <3>0, <3>2
    <3>. QED  BY <2>1, <3>1, <3>2
  <2>. QED  BY <1>0, <2>1, <2>3, DuesEnd
<1>5. ASSUME NEW r \in Requests, Postings!Pay(r)
      PROVE  Postings!NeverOverpaid' /\ \A s \in Requests : Safe(s)'
  <2>1. CASE PayOf[r] \in there
    <3>1. Postings!End(r) /\ UNCHANGED <<doc, lot, paid, there>>
      BY <1>5, <2>1 DEF Postings!Pay
    <3>. QED  BY <1>2, <3>1
  <2>2. CASE PayOf[r] \notin there
    BY <1>0, <1>5, <2>2, DuesPay
  <2>. QED  BY <2>1, <2>2
<1>6. ASSUME NEW r \in Requests, Postings!Unpost(r)
      PROVE  Postings!NeverOverpaid' /\ \A s \in Requests : Safe(s)'
  BY <1>0, <1>6, DuesUnpost
<1>7. ASSUME NEW r \in Requests, Postings!Abort(r)
      PROVE  Postings!NeverOverpaid' /\ \A s \in Requests : Safe(s)'
  BY <1>2, <1>7 DEF Postings!Abort
<1>8. ASSUME NEW p \in Payments, Postings!Drop(p)
      PROVE  Postings!NeverOverpaid' /\ \A s \in Requests : Safe(s)'
  BY <1>0, <1>8, DuesDrop
<1>9. ASSUME NEW r \in Requests, Postings!PostLock(r) \/ Postings!Post(r) PROVE FALSE
  BY <1>9 DEF Postings!PostLock, Postings!Post, Postings!At, Postings!NoPosts
<1>10. CASE UNCHANGED Postings!vars
  BY <1>0, <1>10
  DEF Postings!vars, Postings!NeverOverpaid, Postings!Due, Postings!Paid, Postings!Open, Safe
<1>. QED
  BY <1>3, <1>4, <1>5, <1>6, <1>7, <1>8, <1>9, <1>10 DEF Postings!Next, Postings!Step

\* At the beginning every posted document is due in full.
LEMMA DuesStart ==
  ASSUME Postings!InvoicesAssumption PROVE Postings!Init => Postings!DuesInv
<1>. SUFFICES ASSUME Postings!Init PROVE Postings!DuesInv
  OBVIOUS
<1>1. Postings!PaymentsInv
  BY PaymentsStart
<1>2. there = {} /\ \A r \in Requests : req[r].at = "new"
  BY DEF Postings!Init, Postings!New
<1>3. ASSUME NEW l \in Lots PROVE Postings!Due(l) >= 0
  <2>1. Postings!Paid(l) = 0
    <3>1. PICK f : f = [p \in Payments |-> paid[p][l]]
      OBVIOUS
    <3>2. Postings!Paid(l) = SumFunctionOnSet(f, {})
      BY <1>2, <3>1, SameSums, Zenon DEF Postings!Paid
    <3>. QED  BY <3>2, SumEmpty
  <2>2. lot[l].amount \in Nat
    BY <1>1 DEF Postings!PaymentsInv, Postings!PostingsInv, Postings!DocsTyped
  <2>. QED  BY <2>1, <2>2 DEF Postings!Due
<1>. QED  BY <1>1, <1>2, <1>3, SafeSays DEF Postings!NeverOverpaid, Safe

\* The inductive invariant of what is due, where nobody posts: a payer that is about
\* to write has every posted document locked.
THEOREM DuesInvariant ==
  ASSUME Postings!InvoicesAssumption, Postings!NoPosts PROVE Postings!Spec => []Postings!DuesInv
BY DuesStart, DuesStep, PTL DEF Postings!Spec

\* applyPayment, unpostInvoice: no lot is paid more than was posted into it and still
\* stands, when no document is posted meanwhile.
THEOREM PaymentsNeverExceed ==
  ASSUME Postings!InvoicesAssumption, Postings!NoPosts
  PROVE  Postings!Spec => []Postings!NeverOverpaid
BY DuesInvariant, PTL DEF Postings!DuesInv

\* The holders of row locks are in the middle of something.
LEMMA HoldersStep ==
  ASSUME Postings!InvoicesAssumption, Postings!PostingsInv, Postings!Holders,
         [Postings!Next]_(Postings!vars)
  PROVE  Postings!Holders'
<1>0. /\ \A r \in Requests : Target[r] \in Docs
      /\ NoRequest \notin Requests /\ lock \in [Docs -> Requests \cup {NoRequest}]
      /\ Postings!ReqShaped /\ Postings!DocsTyped
  BY DEF Postings!InvoicesAssumption, Postings!PostingsInv, Postings!DocsTyped
<1>1. ASSUME NEW r \in Requests, \A s \in Requests \ {r} : req'[s] = req[s],
             \A d \in Docs : lock'[d] \in {lock[d], NoRequest, r},
             \A d \in Docs : lock'[d] = r => req'[r].at \in {"locked", "locking", "paying"}
      PROVE  Postings!Holders'
  <2>. SUFFICES ASSUME NEW d \in Docs, lock'[d] # NoRequest
                PROVE  req'[lock'[d]].at \in {"locked", "locking", "paying"}
    BY DEF Postings!Holders
  <2>1. CASE lock'[d] = r
    BY <1>1, <2>1
  <2>2. CASE lock'[d] # r
    <3>1. lock'[d] = lock[d] /\ lock[d] \in Requests \ {r}
      BY <1>0, <1>1, <2>2
    <3>. QED  BY <1>1, <3>1 DEF Postings!Holders
  <2>. QED  BY <2>1, <2>2
<1>2. ASSUME NEW r \in Requests, Postings!End(r) PROVE Postings!Holders'
  <2>1. \A s \in Requests \ {r} : req'[s] = req[s]
    BY <1>0, <1>2, EndTells
  <2>2. \A d \in Docs : lock'[d] = IF lock[d] = r THEN NoRequest ELSE lock[d]
    BY <1>2 DEF Postings!End, Postings!Unlocked
  <2>3. \A d \in Docs : lock'[d] \in {lock[d], NoRequest, r} /\ lock'[d] # r
    BY <1>0, <2>2
  <2>. QED  BY <1>1, <2>1, <2>3
<1>3. ASSUME NEW r \in Requests, Postings!Step(r) \/ Postings!Abort(r), ~Postings!End(r)
      PROVE  Postings!Holders'
  <2>1. \A s \in Requests \ {r} : req'[s] = req[s]
    BY <1>0, <1>3, StepTells
  <2>2. CASE Postings!CheckDraft(r)
    <3>1. UNCHANGED lock /\ req[r].at = "new"
      BY <1>3, <2>2 DEF Postings!CheckDraft, Postings!At
    <3>2. \A d \in Docs : lock[d] # r
      BY <1>0, <3>1 DEF Postings!Holders
    <3>. QED  BY <1>1, <2>1, <3>1, <3>2
  <2>3. CASE Postings!PostLock(r) \/ Postings!UnpostLock(r)
    <3>1. lock' = [lock EXCEPT ![Target[r]] = r]
      BY <1>3, <2>3 DEF Postings!PostLock, Postings!UnpostLock
    <3>2. req'[r].at = "locked"
      <4>1. PICK n : n = doc[Target[r]].total
        OBVIOUS
      <4>2. \/ req' = [req EXCEPT ![r].at = "locked", ![r].total = n]
            \/ req' = [req EXCEPT ![r].at = "locked"]
        BY <1>3, <2>3, <4>1 DEF Postings!PostLock, Postings!UnpostLock
      <4>3. Postings!ReqShaped' /\ req'[r].at = "locked"
        BY <1>0, <4>2, PlaceTells
      <4>. QED  BY <4>3
    <3>3. \A d \in Docs : lock'[d] \in {lock[d], NoRequest, r}
      BY <1>0, <3>1
    <3>. QED  BY <1>1, <2>1, <3>2, <3>3
  <2>4. CASE Postings!PayFind(r)
    <3>1. PICK t : t = {d \in Docs : doc[d].status = "posted"}
      OBVIOUS
    <3>2. UNCHANGED lock /\ req' = [req EXCEPT ![r].at = "locking", ![r].todo = t]
      BY <1>3, <2>4, <3>1, Zenon DEF Postings!PayFind
    <3>3. req'[r].at = "locking"
      BY <1>0, <3>2, TodoRead
    <3>. QED  BY <1>1, <2>1, <3>2, <3>3
  <2>5. CASE Postings!PayLock(r)
    <3>1. PICK d, t : /\ req' = [req EXCEPT ![r].todo = t]
                      /\ lock' = [lock EXCEPT ![d] = IF doc[d].status = "deleted" THEN NoRequest ELSE r]
      BY <2>5 DEF Postings!PayLock
    <3>2. req[r].at = "locking"
      BY <2>5 DEF Postings!PayLock, Postings!At
    <3>3. req'[r].at = req[r].at
      BY <1>0, <3>1, ListRead
    <3>4. \A e \in Docs : lock'[e] \in {lock[e], NoRequest, r}
      BY <1>0, <3>1
    <3>. QED  BY <1>1, <2>1, <3>2, <3>3, <3>4
  <2>6. CASE Postings!PayRead(r)
    <3>1. UNCHANGED lock /\ req'[r].at = "paying"
      BY <1>3, <2>6, PayReadTells
    <3>. QED  BY <1>1, <2>1, <3>1
  <2>. QED
    BY <1>3, <2>2, <2>3, <2>4, <2>5, <2>6
    DEF Postings!Step, Postings!Update, Postings!Delete, Postings!Post, Postings!Unpost,
        Postings!Pay, Postings!Abort
<1>4. ASSUME NEW p \in Payments, Postings!Drop(p) PROVE Postings!Holders'
  BY <1>4 DEF Postings!Drop, Postings!Holders
<1>5. CASE UNCHANGED Postings!vars
  BY <1>5 DEF Postings!vars, Postings!Holders
<1>. QED  BY <1>2, <1>3, <1>4, <1>5 DEF Postings!Next

\* The invariants give the types.
LEMMA InvoicesTypes ==
  ASSUME Postings!InvoicesAssumption, Postings!PaymentsInv, Postings!Holders
  PROVE  Postings!TypeOK
<1>0. /\ Postings!PostingsInv /\ Postings!DocsTyped /\ Postings!PaymentsTyped /\ Postings!AppliedInFull
      /\ NoLot \notin Lots
  BY DEF Postings!PaymentsInv, Postings!PostingsInv, Postings!InvoicesAssumption
<1>1. \A d \in Docs : doc[d].status = "posted" => doc[d].lot # NoLot
  BY <1>0, OwnLots DEF Postings!Open
<1>2. ASSUME NEW p \in Payments PROVE paid[p] \in [Lots -> Nat] /\ (p \in there <=> paid[p] # Postings!Nothing)
  <2>. SUFFICES ASSUME p \in there, paid[p] = Postings!Nothing PROVE FALSE
    BY <1>0 DEF Postings!PaymentsTyped
  <2>1. SumFunctionOnSet(paid[p], Lots) = AmountOf[p]
    BY <1>0, SameSums DEF Postings!AppliedInFull
  <2>2. \A l \in Lots : paid[p][l] = 0
    BY DEF Postings!Nothing
  <2>3. PICK f : f = paid[p]
    OBVIOUS
  <2>4. SumFunctionOnSet(f, Lots) = 0
    BY <2>2, <2>3, FiniteData, SumZero
  <2>5. AmountOf[p] \in Nat \ {0}
    BY DEF Postings!InvoicesAssumption
  <2>. QED  BY <2>1, <2>3, <2>4, <2>5
<1>. QED  BY <1>0, <1>1, <1>2 DEF Postings!TypeOK, Postings!DocsTyped, Postings!PaymentsTyped

\* Every variable of Invoices has its type, and only who is in the middle of
\* something holds a row lock.
THEOREM InvoicesTyping ==
  ASSUME Postings!InvoicesAssumption PROVE Postings!Spec => []Postings!TypeOK
<1>1. Postings!Init => Postings!PaymentsInv /\ Postings!Holders
  BY PaymentsStart DEF Postings!Init, Postings!Holders
<1>2. Postings!PaymentsInv /\ Postings!Holders /\ [Postings!Next]_(Postings!vars)
        => (Postings!PaymentsInv /\ Postings!Holders)'
  BY PaymentsStep, HoldersStep DEF Postings!PaymentsInv
<1>. QED  BY <1>1, <1>2, InvoicesTypes, PTL DEF Postings!Spec

---------------------------------------------------------------------------------
(* Stock: what one more row does to what is read of the log                  *)

\* A sum over places of a sequence, of which one more is filled.
LEMMA GrownSum ==
  ASSUME NEW n \in Nat, NEW f, NEW g, NEW A \in SUBSET (1..n), NEW B,
         B = A \/ B = A \cup {n + 1},
         \A k \in A : f[k] \in Int /\ g[k] = f[k], g[n + 1] \in Int
  PROVE  SumFunctionOnSet(g, B) =
           SumFunctionOnSet(f, A) + (IF n + 1 \in B THEN g[n + 1] ELSE 0)
<1>1. IsFiniteSet(A) /\ n + 1 \notin A
  <2>1. IsFiniteSet(1..n)
    BY FS_Interval
  <2>2. IsFiniteSet(A)
    BY <2>1, FS_Subset
  <2>3. n + 1 \notin 1..n
    OBVIOUS
  <2>. QED  BY <2>2, <2>3
<1>2. SumFunctionOnSet(g, A) = SumFunctionOnSet(f, A)
  BY <1>1, SumEqual
<1>3. SumFunctionOnSet(f, A) \in Int
  BY <1>1, SumType
<1>4. CASE B = A
  BY <1>1, <1>2, <1>3, <1>4
<1>5. CASE B = A \cup {n + 1}
  <2>1. SumFunctionOnSet(g, A \cup {n + 1}) = g[n + 1] + SumFunctionOnSet(g, A)
    <3>1. \A k \in A \cup {n + 1} : g[k] \in Int
      OBVIOUS
    <3>. QED  BY <1>1, <3>1, SumAdd
  <2>2. SumFunctionOnSet(g, B) = SumFunctionOnSet(g, A \cup {n + 1})
    BY <1>5, Zenon
  <2>3. n + 1 \in B
    BY <1>5
  <2>. QED  BY <1>2, <1>3, <2>1, <2>2, <2>3
<1>. QED  BY <1>4, <1>5

LEMMA RowFields ==
  ASSUME NEW m \in Row
  PROVE  /\ m.item \in Items /\ m.loc \in Locations /\ m.type \in Types
         /\ m.qty \in Int /\ m.qty # 0 /\ m.worth \in Nat /\ m.line \in Lines \cup {NoLine}
BY DEF Row

\* Some rows of a log, summed up in f; one more is summed up too if it is of the kind.
LEMMA LogSum ==
  ASSUME NEW log \in Seq(Row), NEW f, NEW g, NEW A, NEW B,
         A \subseteq 1..Len(log), B = A \/ B = A \cup {Len(log) + 1},
         \A k \in 1..Len(log) : f[k] \in Int /\ g[k] = f[k], g[Len(log) + 1] \in Int
  PROVE  SumFunctionOnSet(g, B) =
           SumFunctionOnSet(f, A) + (IF Len(log) + 1 \in B THEN g[Len(log) + 1] ELSE 0)
<1>1. Len(log) \in Nat /\ A \in SUBSET (1..Len(log))
  OBVIOUS
<1>2. \A k \in A : f[k] \in Int /\ g[k] = f[k]
  OBVIOUS
<1>. QED  BY <1>1, <1>2, GrownSum

\* What a longer log has is what the log had, with the new row.
LEMMA Longer ==
  ASSUME NEW log \in Seq(Row), NEW m \in Row
  PROVE  /\ Append(log, m) \in Seq(Row) /\ Len(Append(log, m)) = Len(log) + 1
         /\ DOMAIN log = 1..Len(log) /\ DOMAIN Append(log, m) = 1..(Len(log) + 1)
         /\ \A k \in 1..Len(log) : Append(log, m)[k] = log[k] /\ log[k] \in Row
         /\ Append(log, m)[Len(log) + 1] = m
OBVIOUS

LEMMA Amounts ==
  ASSUME NEW log \in Seq(Row), NEW m \in Row
  PROVE  /\ \A k \in 1..Len(log) :
              /\ Quantities(log)[k] \in Int
              /\ Quantities(Append(log, m))[k] = Quantities(log)[k]
              /\ Worths(log)[k] \in Int
              /\ Worths(Append(log, m))[k] = Worths(log)[k]
         /\ Quantities(Append(log, m))[Len(log) + 1] = m.qty
         /\ Worths(Append(log, m))[Len(log) + 1] = m.worth
<1>1. \A k \in 1..Len(log) : log[k].qty \in Int /\ log[k].worth \in Int
  BY Longer, RowFields
<1>2. Len(log) + 1 \in 1..(Len(log) + 1) /\ \A k \in 1..Len(log) : k \in 1..(Len(log) + 1)
  OBVIOUS
<1>. QED  BY <1>1, <1>2, Longer DEF Quantities, Worths

\* One more row in what the shelves hold and in what it is worth.
LEMMA OnHandGrows ==
  ASSUME NEW log \in Seq(Row), NEW m \in Row, NEW i, NEW l
  PROVE  OnHand(Append(log, m), i, l) =
           OnHand(log, i, l) + (IF m.item = i /\ m.loc = l THEN m.qty ELSE 0)
<1>. DEFINE On(x) == {k \in DOMAIN x : x[k].item = i /\ x[k].loc = l}
<1>0. /\ \A k \in 1..Len(log) : /\ Quantities(log)[k] \in Int
                                /\ Quantities(Append(log, m))[k] = Quantities(log)[k]
      /\ Quantities(Append(log, m))[Len(log) + 1] = m.qty /\ m.qty \in Int /\ m.qty \in Int
      /\ Len(log) + 1 \notin 1..Len(log)
  BY Amounts, RowFields
<1>1. SumFunctionOnSet(Quantities(Append(log, m)), On(Append(log, m))) =
        SumFunctionOnSet(Quantities(log), On(log)) + (IF m.item = i /\ m.loc = l THEN m.qty ELSE 0)
  <2>1. On(log) \subseteq 1..Len(log)
    BY Longer
  <2>2. On(Append(log, m)) = IF m.item = i /\ m.loc = l THEN On(log) \cup {Len(log) + 1} ELSE On(log)
    BY Longer
  <2>. HIDE DEF On
  <2>3. Len(log) + 1 \in On(Append(log, m)) <=> m.item = i /\ m.loc = l
    BY <1>0, <2>1, <2>2
  <2>4. SumFunctionOnSet(Quantities(Append(log, m)), On(Append(log, m))) =
          SumFunctionOnSet(Quantities(log), On(log))
            + (IF Len(log) + 1 \in On(Append(log, m))
               THEN Quantities(Append(log, m))[Len(log) + 1] ELSE 0)
    BY <1>0, <2>1, <2>2, LogSum
  <2>. QED  BY <1>0, <2>3, <2>4
<1>. QED  BY <1>1 DEF OnHand

LEMMA TotalGrows ==
  ASSUME NEW log \in Seq(Row), NEW m \in Row, NEW i
  PROVE  OnHandTotal(Append(log, m), i) =
           OnHandTotal(log, i) + (IF m.item = i THEN m.qty ELSE 0)
<1>. DEFINE Of(x) == {k \in DOMAIN x : x[k].item = i}
<1>0. /\ \A k \in 1..Len(log) : /\ Quantities(log)[k] \in Int
                                /\ Quantities(Append(log, m))[k] = Quantities(log)[k]
      /\ Quantities(Append(log, m))[Len(log) + 1] = m.qty /\ m.qty \in Int /\ m.qty \in Int
      /\ Len(log) + 1 \notin 1..Len(log)
  BY Amounts, RowFields
<1>1. SumFunctionOnSet(Quantities(Append(log, m)), Of(Append(log, m))) =
        SumFunctionOnSet(Quantities(log), Of(log)) + (IF m.item = i THEN m.qty ELSE 0)
  <2>1. Of(log) \subseteq 1..Len(log)
    BY Longer
  <2>2. Of(Append(log, m)) = IF m.item = i THEN Of(log) \cup {Len(log) + 1} ELSE Of(log)
    BY Longer
  <2>. HIDE DEF Of
  <2>3. Len(log) + 1 \in Of(Append(log, m)) <=> m.item = i
    BY <1>0, <2>1, <2>2
  <2>4. SumFunctionOnSet(Quantities(Append(log, m)), Of(Append(log, m))) =
          SumFunctionOnSet(Quantities(log), Of(log))
            + (IF Len(log) + 1 \in Of(Append(log, m))
               THEN Quantities(Append(log, m))[Len(log) + 1] ELSE 0)
    BY <1>0, <2>1, <2>2, LogSum
  <2>. QED  BY <1>0, <2>3, <2>4
<1>. QED  BY <1>1 DEF OnHandTotal

LEMMA WorthGrows ==
  ASSUME NEW log \in Seq(Row), NEW m \in Row, NEW i
  PROVE  /\ WorthIn(Append(log, m), i) =
              WorthIn(log, i) + (IF m.item = i /\ m.qty > 0 THEN m.worth ELSE 0)
         /\ WorthOut(Append(log, m), i) =
              WorthOut(log, i) + (IF m.item = i /\ m.qty < 0 THEN m.worth ELSE 0)
<1>. DEFINE In(x) == {k \in DOMAIN x : x[k].item = i /\ x[k].qty > 0}
            Out(x) == {k \in DOMAIN x : x[k].item = i /\ x[k].qty < 0}
<1>0. /\ \A k \in 1..Len(log) : /\ Worths(log)[k] \in Int
                                /\ Worths(Append(log, m))[k] = Worths(log)[k]
      /\ Worths(Append(log, m))[Len(log) + 1] = m.worth /\ m.worth \in Int /\ m.qty \in Int
      /\ Len(log) + 1 \notin 1..Len(log)
  BY Amounts, RowFields
<1>1. SumFunctionOnSet(Worths(Append(log, m)), In(Append(log, m))) =
        SumFunctionOnSet(Worths(log), In(log)) + (IF m.item = i /\ m.qty > 0 THEN m.worth ELSE 0)
  <2>1. In(log) \subseteq 1..Len(log)
    BY Longer
  <2>2. In(Append(log, m)) = IF m.item = i /\ m.qty > 0 THEN In(log) \cup {Len(log) + 1} ELSE In(log)
    BY Longer
  <2>. HIDE DEF In
  <2>3. Len(log) + 1 \in In(Append(log, m)) <=> m.item = i /\ m.qty > 0
    BY <1>0, <2>1, <2>2
  <2>4. SumFunctionOnSet(Worths(Append(log, m)), In(Append(log, m))) =
          SumFunctionOnSet(Worths(log), In(log))
            + (IF Len(log) + 1 \in In(Append(log, m))
               THEN Worths(Append(log, m))[Len(log) + 1] ELSE 0)
    BY <1>0, <2>1, <2>2, LogSum
  <2>. QED  BY <1>0, <2>3, <2>4
<1>2. SumFunctionOnSet(Worths(Append(log, m)), Out(Append(log, m))) =
        SumFunctionOnSet(Worths(log), Out(log)) + (IF m.item = i /\ m.qty < 0 THEN m.worth ELSE 0)
  <2>1. Out(log) \subseteq 1..Len(log)
    BY Longer
  <2>2. Out(Append(log, m)) = IF m.item = i /\ m.qty < 0 THEN Out(log) \cup {Len(log) + 1} ELSE Out(log)
    BY Longer
  <2>. HIDE DEF Out
  <2>3. Len(log) + 1 \in Out(Append(log, m)) <=> m.item = i /\ m.qty < 0
    BY <1>0, <2>1, <2>2
  <2>4. SumFunctionOnSet(Worths(Append(log, m)), Out(Append(log, m))) =
          SumFunctionOnSet(Worths(log), Out(log))
            + (IF Len(log) + 1 \in Out(Append(log, m))
               THEN Worths(Append(log, m))[Len(log) + 1] ELSE 0)
    BY <1>0, <2>1, <2>2, LogSum
  <2>. QED  BY <1>0, <2>3, <2>4
<1>. QED  BY <1>1, <1>2 DEF WorthIn, WorthOut

\* The same of one entry of a document.
LEMMA EntryGrows ==
  ASSUME NEW log \in Seq(Row), NEW m \in Row, NEW e
  PROVE  /\ Fulfilled(Append(log, m), e) =
              Fulfilled(log, e)
                - (IF m.line = e /\ m.type \in {"ship", "return_in"} THEN m.qty ELSE 0)
         /\ Received(Append(log, m), e) =
              Received(log, e) + (IF m.line = e /\ m.type \in {"receive"} THEN m.qty ELSE 0)
         /\ Fulfilled(log, e) \in Int /\ Received(log, e) \in Int
<1>1. ASSUME NEW types
      PROVE  /\ SumFunctionOnSet(Quantities(Append(log, m)), OfEntry(Append(log, m), e, types)) =
                  SumFunctionOnSet(Quantities(log), OfEntry(log, e, types))
                    + (IF m.line = e /\ m.type \in types THEN m.qty ELSE 0)
             /\ SumFunctionOnSet(Quantities(log), OfEntry(log, e, types)) \in Int
  <2>1. OfEntry(log, e, types) \subseteq 1..Len(log)
    BY Longer DEF OfEntry
  <2>2. OfEntry(Append(log, m), e, types) =
          IF m.line = e /\ m.type \in types THEN OfEntry(log, e, types) \cup {Len(log) + 1}
                                            ELSE OfEntry(log, e, types)
    BY Longer DEF OfEntry
  <2>3. m.qty \in Int /\ Len(log) + 1 \notin 1..Len(log)
    BY RowFields
  <2>4. SumFunctionOnSet(Quantities(Append(log, m)), OfEntry(Append(log, m), e, types)) =
          SumFunctionOnSet(Quantities(log), OfEntry(log, e, types))
            + (IF Len(log) + 1 \in OfEntry(Append(log, m), e, types)
               THEN Quantities(Append(log, m))[Len(log) + 1] ELSE 0)
    BY <2>1, <2>2, <2>3, Amounts, LogSum, SMTT(40)
  <2>5. SumFunctionOnSet(Quantities(log), OfEntry(log, e, types)) \in Int
    <3>1. IsFiniteSet(OfEntry(log, e, types))
      BY <2>1, FS_Interval, FS_Subset
    <3>. QED  BY <2>1, <3>1, Amounts, SumType
  <2>6. Len(log) + 1 \in OfEntry(Append(log, m), e, types) <=> m.line = e /\ m.type \in types
    BY <2>1, <2>2, <2>3
  <2>. QED  BY <2>4, <2>5, <2>6, Amounts
<1>2. m.qty \in Int
  BY RowFields
<1>. QED  BY <1>1, <1>2 DEF Fulfilled, Received

---------------------------------------------------------------------------------
(* Stock: the recursions over a log and over the lines of a request          *)

\* The layers after n rows, from those after n - 1.
LayersNext(log, i, n, before) ==
    IF log[n].item = i /\ log[n].type # "transfer" THEN AddToLayers(before, log[n]) ELSE before

LayersFollow(log, i, N, f) ==
    f = [n \in 0..N |-> IF n = 0 THEN <<>> ELSE LayersNext(log, i, n, f[n - 1])]

LEMMA LayersUnfolded ==
  ASSUME NEW log, NEW i
  PROVE  LayersAfter(log, i) = CHOOSE f : LayersFollow(log, i, Len(log), f)
BY DEF LayersAfter, LayersFollow, LayersNext

LEMMA LayersExist ==
  ASSUME NEW log, NEW i, NEW N \in Nat
  PROVE  \E f : LayersFollow(log, i, N, f)
<1>. DEFINE P == {n \in 0..N : \E f : LayersFollow(log, i, n, f)}
<1>1. 0 \in P
  <2>1. LayersFollow(log, i, 0, [n \in 0..0 |-> <<>>])
    BY DEF LayersFollow
  <2>. QED  BY <2>1
<1>2. ASSUME NEW n \in 0..N, n # N, n \in P PROVE n + 1 \in P
  <2>1. PICK f : LayersFollow(log, i, n, f)
    BY <1>2
  <2>. DEFINE g == [m \in 0..(n + 1) |-> IF m = n + 1 THEN LayersNext(log, i, n + 1, f[n])
                                         ELSE f[m]]
  <2>2. \A m \in 0..n : g[m] = f[m]
    OBVIOUS
  <2>3. \A m \in 0..n : m # 0 => m - 1 \in 0..n /\ g[m - 1] = f[m - 1]
    OBVIOUS
  <2>4. g[n + 1] = LayersNext(log, i, n + 1, g[n])
    OBVIOUS
  <2>5. \A m \in 0..n : f[m] = IF m = 0 THEN <<>> ELSE LayersNext(log, i, m, f[m - 1])
    BY <2>1 DEF LayersFollow
  <2>6. \A m \in 0..(n + 1) : m \in 0..n \/ (m = n + 1 /\ m # 0 /\ m - 1 = n)
    OBVIOUS
  <2>7. g = [m \in 0..(n + 1) |-> g[m]]
    OBVIOUS
  <2>8. \A m \in 0..(n + 1) : g[m] = IF m = 0 THEN <<>> ELSE LayersNext(log, i, m, g[m - 1])
    <3>. HIDE DEF g
    <3>1. ASSUME NEW m \in 0..(n + 1), m \in 0..n
          PROVE  g[m] = IF m = 0 THEN <<>> ELSE LayersNext(log, i, m, g[m - 1])
      BY <2>2, <2>3, <2>5, <3>1, Zenon
    <3>2. ASSUME NEW m \in 0..(n + 1), m = n + 1, m # 0, m - 1 = n
          PROVE  g[m] = IF m = 0 THEN <<>> ELSE LayersNext(log, i, m, g[m - 1])
      BY <2>4, <3>2, Zenon
    <3>. QED  BY <2>6, <3>1, <3>2
  <2>9. LayersFollow(log, i, n + 1, g)
    <3>. HIDE DEF g
    <3>. QED  BY <2>7, <2>8, Zenon DEF LayersFollow
  <2>10. n + 1 \in 0..N
    BY <1>2
  <2>. HIDE DEF g
  <2>. QED  BY <2>9, <2>10
<1>3. N \in P
  <2>1. \A n \in 0..N : n # N /\ n \in P => n + 1 \in P
    BY <1>2
  <2>. HIDE DEF P
  <2>. QED  BY <1>1, <2>1, UpTo
<1>. QED  BY <1>3

LEMMA LayersStep ==
  ASSUME NEW log, Len(log) \in Nat, NEW i
  PROVE  /\ LayersAfter(log, i)[0] = <<>>
         /\ \A n \in 1..Len(log) :
              LayersAfter(log, i)[n] = LayersNext(log, i, n, LayersAfter(log, i)[n - 1])
<1>1. LayersFollow(log, i, Len(log), LayersAfter(log, i))
  BY LayersExist, LayersUnfolded, Zenon
<1>2. \A n \in 0..Len(log) :
        LayersAfter(log, i)[n] =
          IF n = 0 THEN <<>> ELSE LayersNext(log, i, n, LayersAfter(log, i)[n - 1])
  BY <1>1, Zenon DEF LayersFollow
<1>3. 0 \in 0..Len(log) /\ \A n \in 1..Len(log) : n \in 0..Len(log) /\ n # 0
  OBVIOUS
<1>. QED  BY <1>2, <1>3, Zenon

\* One more row in the layers.
LEMMA LayersGrow ==
  ASSUME NEW log \in Seq(Row), NEW m \in Row, NEW i
  PROVE  buildFifoLayers(Append(log, m), i) =
           IF m.item = i /\ m.type # "transfer" THEN AddToLayers(buildFifoLayers(log, i), m)
                                                ELSE buildFifoLayers(log, i)
<1>. DEFINE more == Append(log, m)
            P == {n \in 0..Len(log) : LayersAfter(more, i)[n] = LayersAfter(log, i)[n]}
<1>0. /\ Len(log) \in Nat /\ Len(more) \in Nat /\ Len(more) = Len(log) + 1
      /\ \A n \in 1..Len(log) : more[n] = log[n] /\ n \in 1..Len(more)
      /\ more[Len(log) + 1] = m /\ Len(log) + 1 \in 1..Len(more)
  BY Longer
<1>. HIDE DEF more
<1>1. 0 \in P
  <2>1. LayersAfter(more, i)[0] = <<>> /\ LayersAfter(log, i)[0] = <<>>
    BY <1>0, LayersStep
  <2>. QED  BY <1>0, <2>1
<1>2. ASSUME NEW n \in 0..Len(log), n # Len(log), n \in P PROVE n + 1 \in P
  <2>1. n + 1 \in 1..Len(log) /\ (n + 1) - 1 = n /\ n + 1 \in 0..Len(log)
    BY <1>0, <1>2
  <2>2. /\ LayersAfter(more, i)[n + 1] = LayersNext(more, i, n + 1, LayersAfter(more, i)[n])
        /\ LayersAfter(log, i)[n + 1] = LayersNext(log, i, n + 1, LayersAfter(log, i)[n])
    <3>1. /\ n + 1 \in 1..Len(more)
          /\ LayersAfter(more, i)[n + 1]
               = LayersNext(more, i, n + 1, LayersAfter(more, i)[(n + 1) - 1])
          /\ LayersAfter(log, i)[n + 1]
               = LayersNext(log, i, n + 1, LayersAfter(log, i)[(n + 1) - 1])
      BY <1>0, <2>1, LayersStep
    <3>. QED  BY <2>1, <3>1
  <2>3. LayersNext(more, i, n + 1, LayersAfter(more, i)[n])
          = LayersNext(log, i, n + 1, LayersAfter(log, i)[n])
    BY <1>0, <1>2, <2>1 DEF LayersNext
  <2>. QED  BY <2>1, <2>2, <2>3
<1>3. LayersAfter(more, i)[Len(log)] = LayersAfter(log, i)[Len(log)]
  <2>1. \A n \in 0..Len(log) : n # Len(log) /\ n \in P => n + 1 \in P
    BY <1>2
  <2>2. Len(log) \in P
    <3>. HIDE DEF P
    <3>1. Len(log) \in 0..Len(log)
      BY <1>0
    <3>. QED  BY <1>0, <1>1, <2>1, <3>1, UpTo
  <2>. QED  BY <2>2
<1>4. LayersAfter(more, i)[Len(log) + 1]
        = LayersNext(more, i, Len(log) + 1, LayersAfter(more, i)[Len(log)])
  <2>1. LayersAfter(more, i)[Len(log) + 1]
          = LayersNext(more, i, Len(log) + 1, LayersAfter(more, i)[(Len(log) + 1) - 1])
    BY <1>0, LayersStep
  <2>. QED  BY <1>0, <2>1
<1>. QED  BY <1>0, <1>3, <1>4 DEF LayersNext, buildFifoLayers, more

LEMMA NoLayers == \A i : buildFifoLayers(<<>>, i) = <<>>
BY LayersStep DEF buildFifoLayers

---------------------------------------------------------------------------------
(* Stock: what the layers hold                                               *)

\* Induction over logs, one row at a time.
LEMMA LogInduction ==
  ASSUME NEW P, <<>> \in P,
         \A log \in Seq(Row) : \A m \in Row : log \in P => Append(log, m) \in P
  PROVE  \A log \in Seq(Row) : log \in P
<1>. SUFFICES ASSUME NEW log \in Seq(Row) PROVE log \in P
  OBVIOUS
<1>. DEFINE Q == {n \in 0..Len(log) : SubSeq(log, 1, n) \in P}
<1>0. Len(log) \in Nat
  OBVIOUS
<1>1. 0 \in Q
  <2>1. SubSeq(log, 1, 0) = <<>> /\ 0 \in 0..Len(log)
    OBVIOUS
  <2>. QED  BY <2>1, Zenon
<1>2. ASSUME NEW n \in 0..Len(log), n # Len(log), n \in Q PROVE n + 1 \in Q
  <2>1. /\ n + 1 \in 1..Len(log) /\ log[n + 1] \in Row /\ n + 1 \in 0..Len(log)
        /\ SubSeq(log, 1, n) \in Seq(Row)
    BY <1>2
  <2>2. SubSeq(log, 1, n + 1) = Append(SubSeq(log, 1, n), log[n + 1])
    BY <2>1
  <2>3. Append(SubSeq(log, 1, n), log[n + 1]) \in P
    BY <1>2, <2>1
  <2>. QED  BY <2>1, <2>2, <2>3, Zenon
<1>3. Len(log) \in Q
  <2>1. \A n \in 0..Len(log) : n # Len(log) /\ n \in Q => n + 1 \in Q
    BY <1>2
  <2>2. Len(log) \in 0..Len(log)
    BY <1>0
  <2>. HIDE DEF Q
  <2>. QED  BY <1>0, <1>1, <2>1, <2>2, UpTo, Zenon
<1>4. SubSeq(log, 1, Len(log)) = log
  OBVIOUS
<1>. QED  BY <1>3, <1>4, Zenon

Layer == [qty : Nat, unit : Nat]

\* What is worth q units of the layers.
Cost(layers, q) ==
    SumFunctionOnSet([k \in DOMAIN layers |-> TakenFrom(layers, q, k) * layers[k].unit],
                     DOMAIN layers)

LEMMA Products == \A a, b \in Nat : a * b \in Nat
OBVIOUS

LEMMA LayersHold ==
  ASSUME NEW layers \in Seq(Layer)
  PROVE  /\ DOMAIN layers = 1..Len(layers) /\ IsFiniteSet(DOMAIN layers)
         /\ DOMAIN layers \subseteq Int
         /\ \A k \in DOMAIN layers : /\ layers[k].qty \in Nat /\ layers[k].unit \in Nat
                                     /\ Left(layers)[k] = layers[k].qty
                                     /\ Left(layers)[k] \in Nat
         /\ Units(layers) \in Nat /\ LayersWorth(layers) \in Nat
<1>1. DOMAIN layers = 1..Len(layers) /\ DOMAIN layers \subseteq Int
  OBVIOUS
<1>2. IsFiniteSet(DOMAIN layers)
  BY <1>1, FS_Interval
<1>3. \A k \in DOMAIN layers : layers[k].qty \in Nat /\ layers[k].unit \in Nat
  <2>1. \A k \in DOMAIN layers : layers[k] \in Layer
    OBVIOUS
  <2>2. \A y \in Layer : y.qty \in Nat /\ y.unit \in Nat
    BY DEF Layer
  <2>. QED  BY <2>1, <2>2
<1>4. \A k \in DOMAIN layers : Left(layers)[k] = layers[k].qty /\ Left(layers)[k] \in Nat
  BY <1>3 DEF Left
<1>5. Units(layers) \in Nat
  BY <1>2, <1>4, SumNat DEF Units
<1>6. LayersWorth(layers) \in Nat
  <2>. DEFINE f == [k \in DOMAIN layers |-> layers[k].qty * layers[k].unit]
  <2>1. \A k \in DOMAIN layers : f[k] \in Nat
    BY <1>3, Products
  <2>. HIDE DEF f
  <2>2. SumFunctionOnSet(f, DOMAIN layers) \in Nat
    BY <1>2, <2>1, SumNat
  <2>. QED  BY <2>2 DEF LayersWorth, f
<1>. QED  BY <1>1, <1>2, <1>3, <1>4, <1>5, <1>6

\* What q units take of each layer, and together.
LEMMA TakenTells ==
  ASSUME NEW layers \in Seq(Layer), NEW q \in Nat
  PROVE  /\ \A k \in DOMAIN layers : /\ TakenFrom(layers, q, k) \in Nat
                                     /\ TakenFrom(layers, q, k) <= layers[k].qty
         /\ SumFunctionOnSet([k \in DOMAIN layers |-> TakenFrom(layers, q, k)], DOMAIN layers)
              = IF q <= Units(layers) THEN q ELSE Units(layers)
         /\ Cost(layers, q) \in Nat
<1>. DEFINE S == DOMAIN layers
            f == Left(layers)
            g == [k \in S |-> TakenFrom(layers, q, k)]
<1>1. /\ IsFiniteSet(S) /\ S \subseteq Int
      /\ \A k \in S : f[k] \in Nat /\ f[k] = layers[k].qty /\ layers[k].unit \in Nat
  BY LayersHold
<1>2. \A x \in S : LET left == q - SumFunctionOnSet(f, {y \in S : y < x})
                   IN  g[x] = IF left <= 0 THEN 0 ELSE IF left < f[x] THEN left ELSE f[x]
  BY <1>1 DEF TakenFrom
<1>3. /\ \A x \in S : g[x] \in Nat /\ g[x] <= f[x]
      /\ SumFunctionOnSet(g, S) =
           IF q <= SumFunctionOnSet(f, S) THEN q ELSE SumFunctionOnSet(f, S)
  <2>. HIDE DEF f, g, S
  <2>1. IsFiniteSet(S) /\ S \subseteq Int /\ \A x \in S : f[x] \in Nat
    BY <1>1
  <2>. QED  BY <1>2, <2>1, SumHandedOut, ZenonT(60)
<1>4. \A k \in S : TakenFrom(layers, q, k) = g[k]
  OBVIOUS
<1>5. \A k \in S : TakenFrom(layers, q, k) \in Nat /\ TakenFrom(layers, q, k) <= layers[k].qty
  <2>. HIDE DEF f, g, S
  <2>. QED  BY <1>1, <1>3, <1>4
<1>6. Cost(layers, q) \in Nat
  <2>. DEFINE h == [k \in DOMAIN layers |-> TakenFrom(layers, q, k) * layers[k].unit]
  <2>1. \A k \in DOMAIN layers : h[k] \in Nat
    BY <1>1, <1>5, Products
  <2>2. IsFiniteSet(DOMAIN layers)
    BY <1>1
  <2>. HIDE DEF h
  <2>3. SumFunctionOnSet(h, DOMAIN layers) \in Nat
    BY <2>1, <2>2, SumNat
  <2>. QED  BY <2>3 DEF Cost, h
<1>. QED  BY <1>3, <1>5, <1>6 DEF Units

\* Taking units out of the layers.
LEMMA DepleteTells ==
  ASSUME NEW layers \in Seq(Layer), NEW q \in Nat
  PROVE  /\ Deplete(layers, q) \in Seq(Layer)
         /\ q <= Units(layers) => Units(Deplete(layers, q)) = Units(layers) - q
         /\ LayersWorth(Deplete(layers, q)) = LayersWorth(layers) - Cost(layers, q)
<1>. DEFINE S == DOMAIN layers
            rest == Deplete(layers, q)
            g == [k \in S |-> TakenFrom(layers, q, k)]
<1>1. /\ S = 1..Len(layers) /\ IsFiniteSet(S)
      /\ \A k \in S : layers[k].qty \in Nat /\ layers[k].unit \in Nat
      /\ \A k \in S : Left(layers)[k] = layers[k].qty
  BY LayersHold
<1>2. /\ \A k \in S : /\ g[k] \in Nat /\ g[k] <= layers[k].qty
                      /\ g[k] = TakenFrom(layers, q, k)
      /\ SumFunctionOnSet(g, S) = IF q <= Units(layers) THEN q ELSE Units(layers)
  BY TakenTells
<1>3. /\ DOMAIN rest = S
      /\ \A k \in S : rest[k].qty = layers[k].qty - g[k] /\ rest[k].unit = layers[k].unit
      /\ \A k \in S : rest[k] = [qty |-> layers[k].qty - g[k], unit |-> layers[k].unit]
  BY DEF Deplete
<1>. HIDE DEF g
<1>4. rest \in Seq(Layer)
  <2>1. \A k \in S : rest[k] \in Layer
    <3>1. \A k \in S : layers[k].qty - g[k] \in Nat /\ layers[k].unit \in Nat
      BY <1>1, <1>2
    <3>. HIDE DEF rest, S
    <3>. QED  BY <1>3, <3>1 DEF Layer
  <2>2. rest = [k \in 1..Len(layers) |-> rest[k]]
    BY <1>1 DEF Deplete
  <2>3. Len(layers) \in Nat
    OBVIOUS
  <2>. HIDE DEF rest
  <2>. QED  BY <1>1, <2>1, <2>2, <2>3
<1>5. Units(rest) = Units(layers) - SumFunctionOnSet(g, S)
  <2>1. \A k \in S : /\ Left(layers)[k] \in Int /\ g[k] \in Int
                     /\ Left(rest)[k] = Left(layers)[k] - g[k]
    <3>. HIDE DEF rest
    <3>. QED  BY <1>1, <1>2, <1>3 DEF Left
  <2>2. SumFunctionOnSet(Left(rest), S)
          = SumFunctionOnSet(Left(layers), S) - SumFunctionOnSet(g, S)
    <3>. HIDE DEF rest, S
    <3>. QED  BY <1>1, <2>1, SumLess
  <2>3. Units(rest) = SumFunctionOnSet(Left(rest), S)
    <3>. HIDE DEF rest
    <3>. QED  BY <1>3 DEF Units
  <2>. QED  BY <2>2, <2>3 DEF Units
<1>6. LayersWorth(rest) = LayersWorth(layers) - Cost(layers, q)
  <2>. DEFINE was == [k \in DOMAIN layers |-> layers[k].qty * layers[k].unit]
              is == [k \in DOMAIN rest |-> rest[k].qty * rest[k].unit]
              out == [k \in DOMAIN layers |-> TakenFrom(layers, q, k) * layers[k].unit]
  <2>1. \A k \in S : was[k] \in Int /\ out[k] \in Int /\ is[k] = was[k] - out[k]
    <3>. SUFFICES ASSUME NEW k \in S PROVE was[k] \in Int /\ out[k] \in Int /\ is[k] = was[k] - out[k]
      OBVIOUS
    <3>1. /\ was[k] = layers[k].qty * layers[k].unit /\ out[k] = g[k] * layers[k].unit
          /\ is[k] = (layers[k].qty - g[k]) * layers[k].unit
      BY <1>2, <1>3
    <3>2. layers[k].qty \in Int /\ layers[k].unit \in Int /\ g[k] \in Int
      BY <1>1, <1>2
    <3>3. \A a, b, c \in Int : a * c \in Int /\ b * c \in Int /\ (a - b) * c = a * c - b * c
      OBVIOUS
    <3>. HIDE DEF was, is, out, rest, S
    <3>. QED  BY <3>1, <3>2, <3>3
  <2>2. LayersWorth(rest) = SumFunctionOnSet(is, S)
    BY <1>3 DEF LayersWorth
  <2>3. LayersWorth(layers) = SumFunctionOnSet(was, S) /\ Cost(layers, q) = SumFunctionOnSet(out, S)
    BY DEF LayersWorth, Cost
  <2>. HIDE DEF was, is, out, rest, S
  <2>. QED  BY <1>1, <2>1, <2>2, <2>3, SumLess
<1>. QED  BY <1>2, <1>4, <1>5, <1>6

\* Laying units down on top.
LEMMA LayTells ==
  ASSUME NEW layers \in Seq(Layer), NEW y \in Layer
  PROVE  /\ Append(layers, y) \in Seq(Layer)
         /\ Units(Append(layers, y)) = Units(layers) + y.qty
         /\ LayersWorth(Append(layers, y)) = LayersWorth(layers) + y.qty * y.unit
<1>. DEFINE n == Len(layers)
            more == Append(layers, y)
<1>1. /\ more \in Seq(Layer) /\ n \in Nat /\ DOMAIN more = 1..(n + 1) /\ DOMAIN layers = 1..n
      /\ \A k \in 1..n : more[k] = layers[k]
      /\ more[n + 1] = y /\ 1..(n + 1) = (1..n) \cup {n + 1} /\ n + 1 \in 1..(n + 1)
  OBVIOUS
<1>2. \A k \in 1..n : layers[k].qty \in Nat /\ layers[k].unit \in Nat
  BY <1>1, LayersHold
<1>3. y.qty \in Nat /\ y.unit \in Nat
  BY DEF Layer
<1>. HIDE DEF n, more
<1>4. Units(more) = Units(layers) + y.qty
  <2>1. /\ \A k \in 1..n : Left(layers)[k] \in Int /\ Left(more)[k] = Left(layers)[k]
        /\ Left(more)[n + 1] = y.qty
    BY <1>1, <1>2 DEF Left
  <2>2. SumFunctionOnSet(Left(more), 1..(n + 1)) =
          SumFunctionOnSet(Left(layers), 1..n)
            + (IF n + 1 \in 1..(n + 1) THEN Left(more)[n + 1] ELSE 0)
    <3>1. 1..n \in SUBSET (1..n) /\ Left(more)[n + 1] \in Int
      BY <1>3, <2>1
    <3>. QED  BY <1>1, <2>1, <3>1, GrownSum
  <2>. QED  BY <1>1, <2>1, <2>2 DEF Units
<1>5. LayersWorth(more) = LayersWorth(layers) + y.qty * y.unit
  <2>. DEFINE was == [k \in DOMAIN layers |-> layers[k].qty * layers[k].unit]
              is == [k \in DOMAIN more |-> more[k].qty * more[k].unit]
  <2>1. /\ \A k \in 1..n : was[k] \in Int /\ is[k] = was[k]
        /\ is[n + 1] = y.qty * y.unit /\ is[n + 1] \in Int
    BY <1>1, <1>2, <1>3, Products
  <2>2. /\ LayersWorth(more) = SumFunctionOnSet(is, 1..(n + 1))
        /\ LayersWorth(layers) = SumFunctionOnSet(was, 1..n)
    BY <1>1 DEF LayersWorth
  <2>. HIDE DEF was, is
  <2>3. SumFunctionOnSet(is, 1..(n + 1)) =
          SumFunctionOnSet(was, 1..n) + (IF n + 1 \in 1..(n + 1) THEN is[n + 1] ELSE 0)
    <3>1. 1..n \in SUBSET (1..n)
      OBVIOUS
    <3>. QED  BY <1>1, <2>1, <3>1, GrownSum
  <2>. QED  BY <1>1, <2>1, <2>2, <2>3
<1>. QED  BY <1>1, <1>4, <1>5 DEF more

\* Rounded down, a natural number of a natural share.
LEMMA Shares ==
  /\ \A a \in Nat, b \in Nat \ {0} : a \div b \in Nat
  /\ \A a \in Nat, b \in Nat \ {0} : (a * b) \div b = a
<1>1. ASSUME NEW a \in Nat, NEW b \in Nat \ {0} PROVE a \div b \in Nat
  OBVIOUS
<1>2. ASSUME NEW a \in Nat, NEW b \in Nat \ {0} PROVE (a * b) \div b = a
  OBVIOUS
<1>. QED  BY <1>1, <1>2

\* A row of the log in the layers.
LEMMA AddTells ==
  ASSUME NEW layers \in Seq(Layer), NEW m \in Row
  PROVE  /\ AddToLayers(layers, m) \in Seq(Layer)
         /\ m.qty > 0 =>
              /\ Units(AddToLayers(layers, m)) = Units(layers) + m.qty
              /\ \A u \in Nat : m.worth = u * m.qty =>
                   LayersWorth(AddToLayers(layers, m)) = LayersWorth(layers) + m.worth
         /\ m.qty < 0 /\ -m.qty <= Units(layers) =>
              /\ Units(AddToLayers(layers, m)) = Units(layers) + m.qty
              /\ LayersWorth(AddToLayers(layers, m)) = LayersWorth(layers) - Cost(layers, -m.qty)
<1>0. m.qty \in Int /\ m.qty # 0 /\ m.worth \in Nat
  BY RowFields
<1>1. CASE m.qty > 0
  <2>. DEFINE y == [qty |-> m.qty, unit |-> m.worth \div m.qty]
  <2>1. m.qty \in Nat \ {0}
    BY <1>0, <1>1
  <2>2. m.worth \div m.qty \in Nat
    BY <1>0, <2>1, Shares
  <2>3. y \in Layer /\ y.qty = m.qty /\ y.unit = m.worth \div m.qty
    BY <2>1, <2>2 DEF Layer
  <2>4. AddToLayers(layers, m) = Append(layers, y)
    BY <1>1 DEF AddToLayers
  <2>. HIDE DEF y
  <2>5. /\ Append(layers, y) \in Seq(Layer)
        /\ Units(Append(layers, y)) = Units(layers) + y.qty
        /\ LayersWorth(Append(layers, y)) = LayersWorth(layers) + y.qty * y.unit
    BY <2>3, LayTells
  <2>6. ASSUME NEW u \in Nat, m.worth = u * m.qty PROVE y.qty * y.unit = m.worth
    <3>1. m.worth \div m.qty = u
      BY <2>1, <2>6, Shares
    <3>2. m.qty * u = u * m.qty
      BY <2>1
    <3>. QED  BY <2>3, <2>6, <3>1, <3>2
  <2>. QED  BY <1>0, <1>1, <2>3, <2>4, <2>5, <2>6
<1>2. CASE m.qty < 0
  <2>1. AddToLayers(layers, m) = Deplete(layers, -m.qty) /\ -m.qty \in Nat
    BY <1>0, <1>2 DEF AddToLayers
  <2>2. /\ Deplete(layers, -m.qty) \in Seq(Layer)
        /\ -m.qty <= Units(layers) => Units(Deplete(layers, -m.qty)) = Units(layers) - (-m.qty)
        /\ LayersWorth(Deplete(layers, -m.qty)) = LayersWorth(layers) - Cost(layers, -m.qty)
    BY <2>1, DepleteTells
  <2>3. Units(layers) \in Nat
    BY LayersHold
  <2>. QED  BY <1>0, <1>2, <2>1, <2>2, <2>3
<1>. QED  BY <1>0, <1>1, <1>2

LEMMA LayersTyped ==
  ASSUME NEW i PROVE \A log \in Seq(Row) : buildFifoLayers(log, i) \in Seq(Layer)
<1>. DEFINE P == {log \in Seq(Row) : buildFifoLayers(log, i) \in Seq(Layer)}
<1>1. <<>> \in P
  <2>1. <<>> \in Seq(Row) /\ <<>> \in Seq(Layer)
    OBVIOUS
  <2>. QED  BY <2>1, NoLayers, Zenon
<1>2. ASSUME NEW log \in Seq(Row), NEW m \in Row, log \in P PROVE Append(log, m) \in P
  <2>1. buildFifoLayers(log, i) \in Seq(Layer)
    BY <1>2
  <2>2. AddToLayers(buildFifoLayers(log, i), m) \in Seq(Layer)
    BY <2>1, AddTells
  <2>3. Append(log, m) \in Seq(Row)
    BY Longer
  <2>. QED  BY <2>1, <2>2, <2>3, LayersGrow
<1>3. \A log \in Seq(Row) : log \in P
  <2>. HIDE DEF P
  <2>. QED  BY <1>1, <1>2, LogInduction
<1>. QED  BY <1>3

\* What is read of a log are numbers.
LEMMA Readings ==
  ASSUME NEW log \in Seq(Row), NEW i
  PROVE  /\ \A l : OnHand(log, i, l) \in Int
         /\ OnHandTotal(log, i) \in Int
         /\ WorthIn(log, i) \in Nat /\ WorthOut(log, i) \in Nat
<1>1. /\ IsFiniteSet(DOMAIN log)
      /\ \A k \in DOMAIN log : Quantities(log)[k] \in Int /\ Worths(log)[k] \in Nat
  <2>1. DOMAIN log = 1..Len(log) /\ \A k \in DOMAIN log : log[k] \in Row
    OBVIOUS
  <2>2. IsFiniteSet(DOMAIN log)
    BY <2>1, FS_Interval
  <2>. QED  BY <2>1, <2>2, RowFields DEF Quantities, Worths
<1>2. ASSUME NEW A \in SUBSET (DOMAIN log)
      PROVE  /\ SumFunctionOnSet(Quantities(log), A) \in Int
             /\ SumFunctionOnSet(Worths(log), A) \in Nat
  <2>1. IsFiniteSet(A)
    BY <1>1, FS_Subset
  <2>2. \A k \in A : Quantities(log)[k] \in Int /\ Worths(log)[k] \in Nat
    BY <1>1
  <2>. QED  BY <2>1, <2>2, SumType, SumNat
<1>3. ASSUME NEW l PROVE OnHand(log, i, l) \in Int
  <2>1. {k \in DOMAIN log : log[k].item = i /\ log[k].loc = l} \in SUBSET (DOMAIN log)
    OBVIOUS
  <2>. QED  BY <1>2, <2>1 DEF OnHand
<1>4. OnHandTotal(log, i) \in Int
  <2>1. {k \in DOMAIN log : log[k].item = i} \in SUBSET (DOMAIN log)
    OBVIOUS
  <2>. QED  BY <1>2, <2>1 DEF OnHandTotal
<1>5. WorthIn(log, i) \in Nat /\ WorthOut(log, i) \in Nat
  <2>1. /\ {k \in DOMAIN log : log[k].item = i /\ log[k].qty > 0} \in SUBSET (DOMAIN log)
        /\ {k \in DOMAIN log : log[k].item = i /\ log[k].qty < 0} \in SUBSET (DOMAIN log)
    OBVIOUS
  <2>. QED  BY <1>2, <2>1 DEF WorthIn, WorthOut
<1>. QED  BY <1>3, <1>4, <1>5

\* The shelves together have at least what one of them has, when none is short.
LEMMA TotalCovers ==
  ASSUME StockAssumption, NEW log \in Seq(Row), NEW i, NoShortage(log, i), NEW l \in Locations
  PROVE  OnHand(log, i, l) <= OnHandTotal(log, i)
<1>. DEFINE Of(x) == {k \in DOMAIN x : x[k].item = i}
<1>0. DOMAIN log = 1..Len(log) /\ \A k \in DOMAIN log : log[k] \in Row
  OBVIOUS
<1>1. PICK q, at, on : /\ q = Quantities(log)
                       /\ at = [k \in Of(log) |-> log[k].loc]
                       /\ on = [x \in Locations |-> OnHand(log, i, x)]
  OBVIOUS
<1>2. IsFiniteSet(Of(log)) /\ IsFiniteSet(Locations)
  <2>1. IsFiniteSet(1..Len(log)) /\ Of(log) \in SUBSET (1..Len(log))
    BY <1>0, FS_Interval
  <2>2. IsFiniteSet(Of(log))
    BY <2>1, FS_Subset
  <2>. QED  BY <2>2 DEF StockAssumption
<1>3. \A k \in Of(log) : q[k] \in Int /\ at[k] \in Locations
  BY <1>0, <1>1, RowFields DEF Quantities
<1>4. \A x \in Locations : on[x] = SumFunctionOnSet(q, {k \in Of(log) : at[k] = x})
  <2>. SUFFICES ASSUME NEW x \in Locations
                PROVE  on[x] = SumFunctionOnSet(q, {k \in Of(log) : at[k] = x})
    OBVIOUS
  <2>1. {k \in Of(log) : at[k] = x} = {k \in DOMAIN log : log[k].item = i /\ log[k].loc = x}
    BY <1>1
  <2>2. on[x] = SumFunctionOnSet(q, {k \in DOMAIN log : log[k].item = i /\ log[k].loc = x})
    BY <1>1 DEF OnHand
  <2>. QED  BY <2>1, <2>2, Zenon
<1>5. SumFunctionOnSet(on, Locations) = SumFunctionOnSet(q, Of(log))
  <2>. HIDE DEF Of
  <2>1. Parts(q, Of(log), on, Locations, at)
    BY <1>2, <1>3, <1>4 DEF Parts
  <2>. QED  BY <2>1, SumByParts
<1>6. \A x \in Locations : on[x] \in Nat
  <2>1. \A x \in Locations : OnHand(log, i, x) \in Int
    BY Readings
  <2>. QED  BY <1>1, <2>1 DEF NoShortage
<1>7. on[l] <= SumFunctionOnSet(on, Locations)
  BY <1>2, <1>6, SumNat
<1>. QED  BY <1>1, <1>5, <1>7 DEF OnHandTotal

\* Nothing is on a shelf, in a layer or in the worth of an empty log.
LEMMA EmptyLog == \A i : InOrder(<<>>, i)
<1>. SUFFICES ASSUME NEW i PROVE InOrder(<<>>, i)
  OBVIOUS
<1>1. DOMAIN <<>> = {}
  OBVIOUS
<1>2. \A l : {k \in DOMAIN <<>> : <<>>[k].item = i /\ <<>>[k].loc = l} = {}
  BY <1>1
<1>3. /\ {k \in DOMAIN <<>> : <<>>[k].item = i} = {}
      /\ {k \in DOMAIN <<>> : <<>>[k].item = i /\ <<>>[k].qty > 0} = {}
      /\ {k \in DOMAIN <<>> : <<>>[k].item = i /\ <<>>[k].qty < 0} = {}
  BY <1>1
<1>4. NoShortage(<<>>, i)
  <2>1. \A l : OnHand(<<>>, i, l) = 0
    BY <1>2, SumEmpty, Zenon DEF OnHand
  <2>. QED  BY <2>1 DEF NoShortage
<1>5. OnHandTotal(<<>>, i) = 0 /\ WorthIn(<<>>, i) = 0 /\ WorthOut(<<>>, i) = 0
  BY <1>3, SumEmpty, Zenon DEF OnHandTotal, WorthIn, WorthOut
<1>6. Units(<<>>) = 0 /\ LayersWorth(<<>>) = 0
  BY <1>1, SumEmpty, Zenon DEF Units, LayersWorth
<1>. QED  BY <1>4, <1>5, <1>6, NoLayers DEF InOrder, InLayers, AtCost

---------------------------------------------------------------------------------
(* Stock: rows of other items                                                *)

\* Two logs tell the same of item i.
Agree(x, y, i) ==
    /\ \A l : OnHand(x, i, l) = OnHand(y, i, l)
    /\ OnHandTotal(x, i) = OnHandTotal(y, i)
    /\ buildFifoLayers(x, i) = buildFifoLayers(y, i)
    /\ WorthIn(x, i) = WorthIn(y, i) /\ WorthOut(x, i) = WorthOut(y, i)

LEMMA AgreeInOrder ==
  ASSUME NEW x, NEW y, NEW i, Agree(x, y, i), InOrder(y, i)
  PROVE  InOrder(x, i)
BY DEF Agree, InOrder, NoShortage, InLayers, AtCost

\* A row of another item changes nothing, and the same row the same.
LEMMA AgreeSkip ==
  ASSUME NEW log \in Seq(Row), NEW m \in Row, NEW i, m.item # i
  PROVE  Agree(Append(log, m), log, i)
<1>1. ASSUME NEW l PROVE OnHand(Append(log, m), i, l) = OnHand(log, i, l)
  <2>1. OnHand(Append(log, m), i, l)
          = OnHand(log, i, l) + (IF m.item = i /\ m.loc = l THEN m.qty ELSE 0)
    BY OnHandGrows
  <2>2. OnHand(log, i, l) \in Int
    BY Readings
  <2>. QED  BY <2>1, <2>2
<1>2. OnHandTotal(Append(log, m), i) = OnHandTotal(log, i)
  BY TotalGrows, Readings
<1>3. buildFifoLayers(Append(log, m), i) = buildFifoLayers(log, i)
  BY LayersGrow
<1>4. WorthIn(Append(log, m), i) = WorthIn(log, i) /\ WorthOut(Append(log, m), i) = WorthOut(log, i)
  BY WorthGrows, Readings
<1>. QED  BY <1>1, <1>2, <1>3, <1>4 DEF Agree

LEMMA AgreeBoth ==
  ASSUME NEW x \in Seq(Row), NEW y \in Seq(Row), NEW m \in Row, NEW i, Agree(x, y, i)
  PROVE  Agree(Append(x, m), Append(y, m), i)
<1>1. ASSUME NEW l PROVE OnHand(Append(x, m), i, l) = OnHand(Append(y, m), i, l)
  BY OnHandGrows DEF Agree
<1>2. OnHandTotal(Append(x, m), i) = OnHandTotal(Append(y, m), i)
  BY TotalGrows DEF Agree
<1>3. buildFifoLayers(Append(x, m), i) = buildFifoLayers(Append(y, m), i)
  BY LayersGrow DEF Agree
<1>4. /\ WorthIn(Append(x, m), i) = WorthIn(Append(y, m), i)
      /\ WorthOut(Append(x, m), i) = WorthOut(Append(y, m), i)
  BY WorthGrows DEF Agree
<1>. QED  BY <1>1, <1>2, <1>3, <1>4 DEF Agree

LEMMA Joined ==
  ASSUME NEW a \in Seq(Row), NEW b \in Seq(Row), NEW m \in Row
  PROVE  /\ a \o b \in Seq(Row) /\ a \o Append(b, m) = Append(a \o b, m)
         /\ a \o <<>> = a
         /\ \A k \in DOMAIN b : Append(b, m)[k] = b[k] /\ k \in DOMAIN Append(b, m)
         /\ Append(b, m)[Len(b) + 1] = m /\ Len(b) + 1 \in DOMAIN Append(b, m)
OBVIOUS

\* Rows put after the log leave alone the items that they do not name.
LEMMA AgreeTail ==
  ASSUME NEW a \in Seq(Row), NEW i
  PROVE  \A b \in Seq(Row) : (\A k \in DOMAIN b : b[k].item # i) => Agree(a \o b, a, i)
<1>. DEFINE P == {b \in Seq(Row) : (\A k \in DOMAIN b : b[k].item # i) => Agree(a \o b, a, i)}
<1>1. <<>> \in P
  <2>1. <<>> \in Seq(Row) /\ a \o <<>> = a
    OBVIOUS
  <2>2. Agree(a, a, i)
    BY DEF Agree
  <2>. QED  BY <2>1, <2>2
<1>2. ASSUME NEW b \in Seq(Row), NEW m \in Row, b \in P PROVE Append(b, m) \in P
  <2>. SUFFICES ASSUME \A k \in DOMAIN Append(b, m) : Append(b, m)[k].item # i
                PROVE  Agree(a \o Append(b, m), a, i)
    BY Longer
  <2>1. (\A k \in DOMAIN b : b[k].item # i) /\ m.item # i
    BY Joined
  <2>2. Agree(a \o b, a, i)
    BY <1>2, <2>1
  <2>3. Agree(Append(a \o b, m), a \o b, i)
    BY <2>1, Joined, AgreeSkip
  <2>4. Agree(Append(a \o b, m), a, i)
    BY <2>2, <2>3 DEF Agree
  <2>5. a \o Append(b, m) = Append(a \o b, m)
    BY Joined
  <2>. QED  BY <2>4, <2>5, Zenon
<1>3. \A b \in Seq(Row) : b \in P
  <2>. HIDE DEF P
  <2>. QED  BY <1>1, <1>2, LogInduction
<1>. QED  BY <1>3

\* What agrees goes on to agree when the same rows are put after it.
LEMMA AgreeSame ==
  ASSUME NEW x \in Seq(Row), NEW y \in Seq(Row), NEW i, Agree(x, y, i)
  PROVE  \A c \in Seq(Row) : Agree(x \o c, y \o c, i)
<1>. DEFINE P == {c \in Seq(Row) : Agree(x \o c, y \o c, i)}
<1>1. <<>> \in P
  <2>1. <<>> \in Seq(Row) /\ x \o <<>> = x /\ y \o <<>> = y
    OBVIOUS
  <2>. QED  BY <2>1
<1>2. ASSUME NEW c \in Seq(Row), NEW m \in Row, c \in P PROVE Append(c, m) \in P
  <2>1. Agree(Append(x \o c, m), Append(y \o c, m), i)
    BY <1>2, Joined, AgreeBoth
  <2>2. x \o Append(c, m) = Append(x \o c, m) /\ y \o Append(c, m) = Append(y \o c, m)
    BY Joined, SMTT(40)
  <2>3. Append(c, m) \in Seq(Row)
    BY Longer
  <2>. QED  BY <2>1, <2>2, <2>3
<1>3. \A c \in Seq(Row) : c \in P
  <2>. HIDE DEF P
  <2>. QED  BY <1>1, <1>2, LogInduction
<1>. QED  BY <1>3

---------------------------------------------------------------------------------
(* Stock: what one line writes keeps the items in order                      *)

\* Units that come in at a unit cost.
LEMMA InflowInOrder ==
  ASSUME NEW log \in Seq(Row), NEW m \in Row, m.qty > 0, m.type # "transfer",
         NEW u \in Nat, m.worth = u * m.qty, NEW i, InOrder(log, i)
  PROVE  InOrder(Append(log, m), i)
<1>1. CASE m.item # i
  BY <1>1, AgreeSkip, AgreeInOrder
<1>2. CASE m.item = i
  <2>. DEFINE more == Append(log, m)
              layers == buildFifoLayers(log, i)
  <2>0. /\ m.qty \in Int /\ m.worth \in Nat /\ layers \in Seq(Layer)
        /\ OnHandTotal(log, i) \in Int /\ WorthIn(log, i) \in Nat /\ WorthOut(log, i) \in Nat
        /\ Units(layers) \in Nat /\ LayersWorth(layers) \in Nat
    BY RowFields, LayersTyped, Readings, LayersHold
  <2>1. buildFifoLayers(more, i) = AddToLayers(layers, m)
    BY <1>2, LayersGrow
  <2>2. /\ Units(AddToLayers(layers, m)) = Units(layers) + m.qty
        /\ LayersWorth(AddToLayers(layers, m)) = LayersWorth(layers) + m.worth
    BY <2>0, AddTells
  <2>3. NoShortage(more, i)
    <3>. SUFFICES ASSUME NEW l \in Locations PROVE OnHand(more, i, l) >= 0
      BY DEF NoShortage
    <3>1. OnHand(log, i, l) \in Int /\ OnHand(log, i, l) >= 0
      BY Readings DEF InOrder, NoShortage
    <3>2. OnHand(more, i, l) = OnHand(log, i, l) + (IF m.item = i /\ m.loc = l THEN m.qty ELSE 0)
      BY OnHandGrows
    <3>. HIDE DEF more
    <3>. QED  BY <2>0, <3>1, <3>2
  <2>4. OnHandTotal(more, i) = OnHandTotal(log, i) + m.qty
    BY <1>2, TotalGrows
  <2>5. WorthIn(more, i) = WorthIn(log, i) + m.worth /\ WorthOut(more, i) = WorthOut(log, i)
    BY <1>2, <2>0, WorthGrows, SMTT(40)
  <2>. HIDE DEF more, layers
  <2>6. InLayers(log, i) <=> Units(layers) = OnHandTotal(log, i)
    BY DEF InLayers, layers
  <2>7. AtCost(log, i) <=> WorthIn(log, i) = WorthOut(log, i) + LayersWorth(layers)
    BY DEF AtCost, layers
  <2>8. InLayers(more, i)
    BY <2>0, <2>1, <2>2, <2>4, <2>6 DEF InLayers, InOrder
  <2>9. i \in Fifo => AtCost(more, i)
    BY <2>0, <2>1, <2>2, <2>5, <2>7 DEF AtCost, InOrder
  <2>. QED  BY <2>3, <2>8, <2>9 DEF InOrder, more
<1>. QED  BY <1>1, <1>2

\* Units that the shelf has go out, those of a FIFO item at the cost of their layers.
LEMMA OutflowInOrder ==
  ASSUME StockAssumption, NEW log \in Seq(Row), NEW m \in Row, m.qty < 0, m.type # "transfer",
         OnHand(log, m.item, m.loc) >= -m.qty,
         m.item \in Fifo => m.worth = Cost(buildFifoLayers(log, m.item), -m.qty),
         NEW i, InOrder(log, i)
  PROVE  InOrder(Append(log, m), i)
<1>1. CASE m.item # i
  BY <1>1, AgreeSkip, AgreeInOrder
<1>2. CASE m.item = i
  <2>. DEFINE more == Append(log, m)
              layers == buildFifoLayers(log, i)
  <2>0. /\ m.qty \in Int /\ m.loc \in Locations /\ m.worth \in Nat /\ layers \in Seq(Layer)
        /\ OnHandTotal(log, i) \in Int /\ OnHand(log, i, m.loc) \in Int
        /\ WorthIn(log, i) \in Nat /\ WorthOut(log, i) \in Nat
        /\ Units(layers) \in Nat /\ LayersWorth(layers) \in Nat
    BY RowFields, LayersTyped, Readings, LayersHold
  <2>1. buildFifoLayers(more, i) = AddToLayers(layers, m)
    BY <1>2, LayersGrow
  <2>2. -m.qty <= Units(layers)
    <3>1. OnHand(log, i, m.loc) <= OnHandTotal(log, i)
      BY <2>0, TotalCovers DEF InOrder
    <3>2. Units(layers) = OnHandTotal(log, i)
      BY DEF InOrder, InLayers
    <3>. HIDE DEF layers
    <3>. QED  BY <1>2, <2>0, <3>1, <3>2
  <2>3. /\ Units(AddToLayers(layers, m)) = Units(layers) + m.qty
        /\ LayersWorth(AddToLayers(layers, m)) = LayersWorth(layers) - Cost(layers, -m.qty)
    BY <2>0, <2>2, AddTells
  <2>4. NoShortage(more, i)
    <3>. SUFFICES ASSUME NEW l \in Locations PROVE OnHand(more, i, l) >= 0
      BY DEF NoShortage
    <3>1. OnHand(log, i, l) \in Int /\ OnHand(log, i, l) >= 0
      BY Readings DEF InOrder, NoShortage
    <3>2. OnHand(more, i, l) = OnHand(log, i, l) + (IF m.item = i /\ m.loc = l THEN m.qty ELSE 0)
      BY OnHandGrows
    <3>. HIDE DEF more
    <3>. QED  BY <1>2, <2>0, <3>1, <3>2
  <2>5. OnHandTotal(more, i) = OnHandTotal(log, i) + m.qty
    BY <1>2, TotalGrows
  <2>6. WorthIn(more, i) = WorthIn(log, i) /\ WorthOut(more, i) = WorthOut(log, i) + m.worth
    BY <1>2, <2>0, WorthGrows
  <2>. HIDE DEF more, layers
  <2>7. InLayers(log, i) <=> Units(layers) = OnHandTotal(log, i)
    BY DEF InLayers, layers
  <2>8. AtCost(log, i) <=> WorthIn(log, i) = WorthOut(log, i) + LayersWorth(layers)
    BY DEF AtCost, layers
  <2>9. InLayers(more, i)
    BY <2>0, <2>1, <2>3, <2>5, <2>7 DEF InLayers, InOrder
  <2>10. i \in Fifo => AtCost(more, i)
    <3>1. i \in Fifo => m.worth = Cost(layers, -m.qty)
      BY <1>2 DEF layers
    <3>. QED  BY <2>0, <2>1, <2>3, <2>6, <2>8, <3>1 DEF AtCost, InOrder
  <2>. QED  BY <2>4, <2>9, <2>10 DEF InOrder, more
<1>. QED  BY <1>1, <1>2

\* Units that the shelf has move to another: cost is book-wide.
LEMMA TransferInOrder ==
  ASSUME NEW log \in Seq(Row), NEW out \in Row, NEW in \in Row,
         out.type = "transfer", in.type = "transfer", in.item = out.item,
         out.qty < 0, in.qty = -out.qty, out.worth = 0, in.worth = 0,
         OnHand(log, out.item, out.loc) >= -out.qty, NEW i, InOrder(log, i)
  PROVE  InOrder(Append(Append(log, out), in), i)
<1>. DEFINE mid == Append(log, out)
            more == Append(mid, in)
<1>0. /\ mid \in Seq(Row) /\ out.qty \in Int
      /\ OnHandTotal(log, i) \in Int /\ WorthIn(log, i) \in Nat /\ WorthOut(log, i) \in Nat
  BY Longer, RowFields, Readings
<1>. HIDE DEF mid
<1>1. NoShortage(more, i)
  <2>. SUFFICES ASSUME NEW l \in Locations PROVE OnHand(more, i, l) >= 0
    BY DEF NoShortage
  <2>1. OnHand(log, i, l) \in Int /\ OnHand(log, i, l) >= 0
    BY Readings DEF InOrder, NoShortage
  <2>2. OnHand(mid, i, l) = OnHand(log, i, l) + (IF out.item = i /\ out.loc = l THEN out.qty ELSE 0)
    BY OnHandGrows DEF mid
  <2>3. OnHand(more, i, l) = OnHand(mid, i, l) + (IF in.item = i /\ in.loc = l THEN in.qty ELSE 0)
    BY <1>0, OnHandGrows
  <2>. HIDE DEF more
  <2>. QED  BY <1>0, <2>1, <2>2, <2>3
<1>2. OnHandTotal(more, i) = OnHandTotal(log, i)
  <2>1. OnHandTotal(mid, i) = OnHandTotal(log, i) + (IF out.item = i THEN out.qty ELSE 0)
    BY TotalGrows DEF mid
  <2>2. OnHandTotal(more, i) = OnHandTotal(mid, i) + (IF in.item = i THEN in.qty ELSE 0)
    BY <1>0, TotalGrows
  <2>. HIDE DEF more
  <2>. QED  BY <1>0, <2>1, <2>2
<1>3. buildFifoLayers(more, i) = buildFifoLayers(log, i)
  <2>1. buildFifoLayers(mid, i) = buildFifoLayers(log, i)
    BY LayersGrow DEF mid
  <2>2. buildFifoLayers(more, i) = buildFifoLayers(mid, i)
    BY <1>0, LayersGrow
  <2>. QED  BY <2>1, <2>2
<1>4. WorthIn(more, i) = WorthIn(log, i) /\ WorthOut(more, i) = WorthOut(log, i)
  <2>1. WorthIn(mid, i) = WorthIn(log, i) /\ WorthOut(mid, i) = WorthOut(log, i)
    BY <1>0, WorthGrows DEF mid
  <2>2. WorthIn(more, i) = WorthIn(mid, i) /\ WorthOut(more, i) = WorthOut(mid, i)
    <3>1. WorthIn(mid, i) \in Nat /\ WorthOut(mid, i) \in Nat
      BY <1>0, Readings
    <3>. QED  BY <1>0, <3>1, WorthGrows
  <2>. QED  BY <2>1, <2>2
<1>. HIDE DEF more
<1>. QED  BY <1>1, <1>2, <1>3, <1>4 DEF InOrder, InLayers, AtCost, more, mid

---------------------------------------------------------------------------------
(* Stock: what is written of a line                                          *)

\* What the transaction sees.
Books == [log : Seq(Row), avg : [Items -> Nat], spent : Nat]

\* A line has the sign of its type.
Signed(ln) ==
    /\ ln \in Line /\ ln.qty # 0
    /\ ln.type \in {"receive", "produce", "return_in"} => ln.qty > 0
    /\ ln.type \in {"ship", "transfer", "consume"} => ln.qty < 0

LEMMA LineFields ==
  ASSUME NEW ln, Signed(ln)
  PROVE  /\ ln.item \in Items /\ ln.loc \in Locations /\ ln.to \in Locations
         /\ ln.type \in Types /\ ln.qty \in Int /\ ln.qty # 0
         /\ ln.cost \in Nat \cup {NoCost} /\ ln.line \in Lines \cup {NoLine}
BY DEF Signed, Line

LEMMA BooksFields ==
  ASSUME NEW s \in Books
  PROVE  /\ s.log \in Seq(Row) /\ s.avg \in [Items -> Nat] /\ s.spent \in Nat
         /\ s = [log |-> s.log, avg |-> s.avg, spent |-> s.spent]
         /\ \A i \in Items : s.avg[i] \in Nat
BY DEF Books

LEMMA AtLeastZero == \A n \in Int : Max({n, 0}) \in Nat
<1>. SUFFICES ASSUME NEW n \in Int PROVE Max({n, 0}) \in Nat
  OBVIOUS
<1>1. Max({n, 0}) = CHOOSE x \in {n, 0} : \A y \in {n, 0} : x >= y
  BY DEF Max
<1>2. \E x \in {n, 0} : \A y \in {n, 0} : x >= y
  <2>1. CASE n >= 0
    BY <2>1
  <2>2. CASE n < 0
    BY <2>2
  <2>. QED  BY <2>1, <2>2
<1>3. Max({n, 0}) \in {n, 0} /\ \A y \in {n, 0} : Max({n, 0}) >= y
  BY <1>1, <1>2
<1>. QED  BY <1>3

\* Units shipped are a positive number.
LEMMA ShippedUnits ==
  ASSUME NEW S, IsFiniteSet(S), S # {}, NEW q, \A x \in S : q[x] \in Int /\ q[x] < 0
  PROVE  -SumFunctionOnSet(q, S) \in Nat \ {0}
<1>. DEFINE none == [x \in S |-> 0]
            out == [x \in S |-> 0 - q[x]]
<1>1. \A x \in S : /\ none[x] = 0 /\ none[x] \in Int /\ q[x] \in Int
                   /\ out[x] = none[x] - q[x] /\ out[x] \in Nat /\ out[x] > 0
  OBVIOUS
<1>. HIDE DEF none, out
<1>2. SumFunctionOnSet(out, S) = SumFunctionOnSet(none, S) - SumFunctionOnSet(q, S)
  BY <1>1, SumLess
<1>3. SumFunctionOnSet(none, S) = 0
  BY <1>1, SumZero
<1>4. PICK x \in S : TRUE
  OBVIOUS
<1>5. SumFunctionOnSet(out, S) \in Nat /\ out[x] <= SumFunctionOnSet(out, S)
  BY <1>1, SumNat
<1>6. SumFunctionOnSet(q, S) \in Int
  BY SumType
<1>. QED  BY <1>1, <1>2, <1>3, <1>5, <1>6

\* The unit cost of what comes in.
LEMMA UnitTells ==
  ASSUME StockAssumption, NEW s \in Books, NEW ln, Signed(ln), ln.qty > 0
  PROVE  UnitCost(s, ln) \in Nat \cup {NoCost}
<1>1. shipmentUnitCost(s, ln) \in Nat
  <2>. DEFINE shipped == {k \in OfEntry(s.log, ln.line, {"ship"}) : s.log[k].item = ln.item}
  <2>1. CASE shipped = {}
    BY <2>1, BooksFields, LineFields DEF shipmentUnitCost
  <2>2. CASE shipped # {}
    <3>1. /\ shipped \in SUBSET (DOMAIN s.log) /\ DOMAIN s.log = 1..Len(s.log)
          /\ \A k \in shipped : s.log[k].type = "ship" /\ s.log[k] \in Row
      BY BooksFields DEF OfEntry
    <3>2. IsFiniteSet(shipped)
      <4>1. IsFiniteSet(DOMAIN s.log)
        BY <3>1, FS_Interval
      <4>. HIDE DEF shipped
      <4>. QED  BY <3>1, <4>1, FS_Subset
    <3>3. \A m \in Row : m.type = "ship" => m.qty < 0
      BY DEF Row
    <3>4. \A k \in shipped : /\ Quantities(s.log)[k] \in Int /\ Quantities(s.log)[k] < 0
                             /\ Worths(s.log)[k] \in Nat
      BY <3>1, <3>3, RowFields DEF Quantities, Worths
    <3>5. shipmentUnitCost(s, ln) = SumFunctionOnSet(Worths(s.log), shipped)
                                      \div (-SumFunctionOnSet(Quantities(s.log), shipped))
      BY <2>2 DEF shipmentUnitCost
    <3>. HIDE DEF shipped
    <3>6. -SumFunctionOnSet(Quantities(s.log), shipped) \in Nat \ {0}
      BY <2>2, <3>2, <3>4, ShippedUnits
    <3>7. SumFunctionOnSet(Worths(s.log), shipped) \in Nat
      BY <3>2, <3>4, SumNat
    <3>. QED  BY <3>5, <3>6, <3>7, Shares
  <2>. QED  BY <2>1, <2>2
<1>2. s.spent \div ln.qty \in Nat
  BY BooksFields, LineFields, Shares
<1>3. CASE ln.type = "return_in"
  BY <1>1, <1>3 DEF UnitCost
<1>4. CASE ln.type = "produce"
  BY <1>2, <1>4 DEF UnitCost
<1>5. CASE ln.type \notin {"return_in", "produce"}
  <2>1. UnitCost(s, ln) = ln.cost
    BY <1>5 DEF UnitCost
  <2>. QED  BY <2>1, LineFields
<1>. QED  BY <1>3, <1>4, <1>5

LEMMA BooksExcept ==
  ASSUME NEW s \in Books, NEW x
  PROVE  /\ [s EXCEPT !.log = x] = [log |-> x, avg |-> s.avg, spent |-> s.spent]
         /\ [s EXCEPT !.avg = x] = [log |-> s.log, avg |-> x, spent |-> s.spent]
         /\ [s EXCEPT !.spent = x] = [log |-> s.log, avg |-> s.avg, spent |-> x]
<1>1. DOMAIN s = {"log", "avg", "spent"}
  BY DEF Books
<1>. QED  BY <1>1

LEMMA AvgTells ==
  ASSUME StockAssumption, NEW s \in Books, NEW ln, Signed(ln), ln.qty > 0,
         NEW unit \in Nat \cup {NoCost}
  PROVE  /\ applyMovementToAvgCost(s, ln, unit) \in Books
         /\ applyMovementToAvgCost(s, ln, unit).log = s.log
<1>. DEFINE base == Max({OnHandTotal(s.log, ln.item), 0})
            cost == IF unit = NoCost THEN s.avg[ln.item]
                    ELSE IF base = 0 THEN unit
                    ELSE (base * s.avg[ln.item] + ln.qty * unit) \div (base + ln.qty)
            after == applyMovementToAvgCost(s, ln, unit)
<1>1. base \in Nat
  BY BooksFields, Readings, AtLeastZero
<1>2. ln.item \in Items /\ ln.qty \in Nat \ {0} /\ s.avg[ln.item] \in Nat
  BY LineFields, BooksFields
<1>3. cost \in Nat
  <2>. HIDE DEF base
  <2>1. unit \in Nat => base * s.avg[ln.item] + ln.qty * unit \in Nat
    <3>1. unit \in Nat => base * s.avg[ln.item] \in Nat /\ ln.qty * unit \in Nat
      BY <1>1, <1>2, Products
    <3>2. \A a, b \in Nat : a + b \in Nat
      OBVIOUS
    <3>. QED  BY <3>1, <3>2
  <2>2. base + ln.qty \in Nat \ {0}
    BY <1>1, <1>2
  <2>3. unit \in Nat =>
          (base * s.avg[ln.item] + ln.qty * unit) \div (base + ln.qty) \in Nat
    BY <2>1, <2>2, Shares
  <2>. QED  BY <1>2, <2>3
<1>4. after = [s EXCEPT !.avg[ln.item] = cost]
  BY DEF applyMovementToAvgCost
<1>. HIDE DEF cost, base
<1>5. after = [log |-> s.log, avg |-> [s.avg EXCEPT ![ln.item] = cost], spent |-> s.spent]
  <2>. HIDE DEF after
  <2>. QED  BY <1>4, BooksExcept
<1>6. [s.avg EXCEPT ![ln.item] = cost] \in [Items -> Nat]
  BY <1>2, <1>3, BooksFields
<1>. HIDE DEF after
<1>7. after \in Books /\ after.log = s.log
  BY <1>5, <1>6, BooksFields DEF Books
<1>. QED  BY <1>7 DEF after

\* The row of a line.
Movement(ln, loc, qty, worth) ==
    [item |-> ln.item, loc |-> loc, type |-> ln.type, qty |-> qty, worth |-> worth,
     line |-> ln.line]

LEMMA InsertTells ==
  ASSUME NEW s \in Books, NEW ln, NEW loc, NEW qty, NEW worth,
         Movement(ln, loc, qty, worth) \in Row
  PROVE  /\ insertMovement(s, ln, loc, qty, worth) \in Books
         /\ insertMovement(s, ln, loc, qty, worth).log
              = Append(s.log, Movement(ln, loc, qty, worth))
         /\ insertMovement(s, ln, loc, qty, worth).spent = s.spent
<1>. DEFINE m == Movement(ln, loc, qty, worth)
            after == insertMovement(s, ln, loc, qty, worth)
<1>1. after = [s EXCEPT !.log = Append(s.log, m)]
  BY DEF insertMovement, Movement
<1>2. Append(s.log, m) \in Seq(Row)
  BY BooksFields, Longer
<1>. HIDE DEF m, after
<1>3. after = [log |-> Append(s.log, m), avg |-> s.avg, spent |-> s.spent]
  BY <1>1, BooksExcept
<1>4. after \in Books /\ after.log = Append(s.log, m) /\ after.spent = s.spent
  BY <1>2, <1>3, BooksFields DEF Books
<1>. QED  BY <1>4 DEF m, after

\* The cost of what goes out.
LEMMA CostTells ==
  ASSUME StockAssumption, NEW s \in Books, NEW i \in Items, NEW q \in Nat
  PROVE  /\ consumptionCost(s, i, q) \in Nat
         /\ i \in Fifo /\ q <= Units(buildFifoLayers(s.log, i)) =>
              consumptionCost(s, i, q) = Cost(buildFifoLayers(s.log, i), q)
<1>1. consumptionCost(s, i, q) =
        IF i \in Fifo /\ q <= Units(buildFifoLayers(s.log, i))
        THEN Cost(buildFifoLayers(s.log, i), q) ELSE q * s.avg[i]
  BY DEF consumptionCost, Cost
<1>2. Cost(buildFifoLayers(s.log, i), q) \in Nat
  <2>1. buildFifoLayers(s.log, i) \in Seq(Layer)
    BY BooksFields, LayersTyped
  <2>. QED  BY <2>1, TakenTells
<1>3. q * s.avg[i] \in Nat
  BY BooksFields, Products
<1>. QED  BY <1>1, <1>2, <1>3

\* What a line adds to what its entry has shipped, and received.
Filling(ln, e) == IF ln.line = e /\ ln.type \in {"ship", "return_in"} THEN -ln.qty ELSE 0

Receiving(ln, e) == IF ln.line = e /\ ln.type \in {"receive"} THEN ln.qty ELSE 0

\* What is written for a line: rows of its item after the log, which stays in order
\* and loses on the line's shelf no more than its units; and its units on its entry.
WrittenFor(s, ln, after) ==
    /\ after \in Books
    /\ \E b \in Seq(Row) : after.log = s.log \o b /\ \A k \in DOMAIN b : b[k].item = ln.item
    /\ \A i \in Items : InOrder(after.log, i)
    /\ \A i \in Items : \A l \in Locations :
          OnHand(after.log, i, l) >=
            OnHand(s.log, i, l) + (IF ln.item = i /\ ln.loc = l /\ ln.qty < 0 THEN ln.qty ELSE 0)
    /\ \A e \in Lines : /\ Fulfilled(after.log, e) = Fulfilled(s.log, e) + Filling(ln, e)
                        /\ Received(after.log, e) = Received(s.log, e) + Receiving(ln, e)

\* What a line is written on.
Writable(s, ln) ==
    /\ s \in Books /\ Signed(ln)
    /\ \A i \in Items : InOrder(s.log, i)
    /\ ln.qty < 0 => OnHand(s.log, ln.item, ln.loc) >= -ln.qty

LEMMA OneRow ==
  ASSUME NEW log \in Seq(Row), NEW m \in Row
  PROVE  \E b \in Seq(Row) : Append(log, m) = log \o b /\ \A k \in DOMAIN b : b[k].item = m.item
<1>1. <<m>> \in Seq(Row) /\ Append(log, m) = log \o <<m>>
  OBVIOUS
<1>2. \A k \in DOMAIN <<m>> : <<m>>[k].item = m.item
  OBVIOUS
<1>. QED  BY <1>1, <1>2

LEMMA MovementFields ==
  ASSUME NEW ln, NEW loc, NEW qty, NEW worth
  PROVE  LET m == Movement(ln, loc, qty, worth) IN
         /\ m.item = ln.item /\ m.loc = loc /\ m.type = ln.type /\ m.qty = qty
         /\ m.worth = worth /\ m.line = ln.line
BY DEF Movement

LEMMA MovementTyped ==
  ASSUME NEW ln, Signed(ln), NEW loc \in Locations, NEW qty \in Int, qty # 0, NEW worth \in Nat,
         ln.type \in {"receive", "produce", "return_in"} => qty > 0,
         ln.type \in {"ship", "consume"} => qty < 0
  PROVE  Movement(ln, loc, qty, worth) \in Row
BY LineFields DEF Movement, Row

\* One row written for a line.
LEMMA OneWritten ==
  ASSUME StockAssumption, NEW s, NEW ln, Writable(s, ln), NEW worth \in Nat,
         NEW m \in Row, m = Movement(ln, ln.loc, ln.qty, worth),
         NEW after \in Books, after.log = Append(s.log, m),
         \A i \in Items : InOrder(Append(s.log, m), i)
  PROVE  WrittenFor(s, ln, after)
<1>1. \E b \in Seq(Row) : after.log = s.log \o b /\ \A k \in DOMAIN b : b[k].item = ln.item
  <2>1. s.log \in Seq(Row) /\ m.item = ln.item
    BY BooksFields, MovementFields DEF Writable
  <2>. QED  BY <2>1, OneRow, ZenonT(60)
<1>2. ASSUME NEW i \in Items, NEW l \in Locations
      PROVE  OnHand(after.log, i, l) >=
               OnHand(s.log, i, l)
                 + (IF ln.item = i /\ ln.loc = l /\ ln.qty < 0 THEN ln.qty ELSE 0)
  <2>1. OnHand(Append(s.log, m), i, l) =
          OnHand(s.log, i, l) + (IF m.item = i /\ m.loc = l THEN m.qty ELSE 0)
    BY BooksFields, OnHandGrows DEF Writable
  <2>2. m.item = ln.item /\ m.loc = ln.loc /\ m.qty = ln.qty /\ ln.qty \in Int
    BY MovementFields, LineFields DEF Writable
  <2>3. OnHand(s.log, i, l) \in Int
    BY BooksFields, Readings DEF Writable
  <2>4. OnHand(after.log, i, l) = OnHand(Append(s.log, m), i, l)
    OBVIOUS
  <2>. QED  BY <2>1, <2>2, <2>3, <2>4
<1>3. ASSUME NEW e \in Lines
      PROVE  /\ Fulfilled(after.log, e) = Fulfilled(s.log, e) + Filling(ln, e)
             /\ Received(after.log, e) = Received(s.log, e) + Receiving(ln, e)
  <2>1. m.line = ln.line /\ m.type = ln.type /\ m.qty = ln.qty /\ ln.qty \in Int
    BY MovementFields, LineFields DEF Writable
  <2>2. s.log \in Seq(Row)
    BY BooksFields DEF Writable
  <2>3. /\ Fulfilled(Append(s.log, m), e) = Fulfilled(s.log, e)
             - (IF m.line = e /\ m.type \in {"ship", "return_in"} THEN m.qty ELSE 0)
        /\ Received(Append(s.log, m), e) = Received(s.log, e)
             + (IF m.line = e /\ m.type \in {"receive"} THEN m.qty ELSE 0)
        /\ Fulfilled(s.log, e) \in Int /\ Received(s.log, e) \in Int
    BY <2>2, EntryGrows
  <2>. QED  BY <2>1, <2>3 DEF Filling, Receiving
<1>. QED  BY <1>1, <1>2, <1>3 DEF WrittenFor

LEMMA TakeInWritten ==
  ASSUME StockAssumption, NEW s, NEW ln, Writable(s, ln), ln.qty > 0
  PROVE  WrittenFor(s, ln, TakeIn(s, ln))
<1>. DEFINE unit == UnitCost(s, ln)
            worth == IF unit = NoCost THEN 0 ELSE unit * ln.qty
            mid == applyMovementToAvgCost(s, ln, unit)
            m == Movement(ln, ln.loc, ln.qty, worth)
            after == insertMovement(mid, ln, ln.loc, ln.qty, worth)
<1>0. /\ s \in Books /\ Signed(ln) /\ \A i \in Items : InOrder(s.log, i)
      /\ ln.qty \in Nat \ {0} /\ ln.loc \in Locations /\ s.log \in Seq(Row)
  BY LineFields, BooksFields DEF Writable
<1>1. unit \in Nat \cup {NoCost}
  BY <1>0, UnitTells
<1>2. PICK u \in Nat : worth = u * ln.qty
  <2>1. 0 * ln.qty = 0 /\ 0 \in Nat
    BY <1>0
  <2>. HIDE DEF unit
  <2>2. CASE unit = NoCost
    BY <2>1, <2>2
  <2>3. CASE unit \in Nat /\ unit # NoCost
    BY <2>3
  <2>. QED  BY <1>1, <2>2, <2>3
<1>3. worth \in Nat
  BY <1>0, <1>2, Products
<1>4. mid \in Books /\ mid.log = s.log
  BY <1>0, <1>1, AvgTells
<1>. HIDE DEF worth
<1>5. m \in Row
  <2>1. ~(ln.type \in {"ship", "consume"}) /\ ln.qty \in Int /\ ln.qty # 0
    BY <1>0 DEF Signed
  <2>. QED  BY <1>0, <1>3, <2>1, MovementTyped
<1>6. after \in Books /\ after.log = Append(s.log, m)
  <2>. HIDE DEF mid
  <2>. QED  BY <1>4, <1>5, InsertTells
<1>7. m.item = ln.item /\ m.qty = ln.qty /\ m.worth = worth /\ m.type = ln.type
  BY MovementFields
<1>8. ASSUME NEW i \in Items PROVE InOrder(Append(s.log, m), i)
  <2>1. m.qty > 0 /\ m.type # "transfer" /\ m.worth = u * m.qty
    BY <1>0, <1>2, <1>7 DEF Signed
  <2>. HIDE DEF m
  <2>. QED  BY <1>0, <1>2, <1>5, <2>1, InflowInOrder
<1>9. TakeIn(s, ln) = after
  BY DEF TakeIn, worth
<1>10. WrittenFor(s, ln, after)
  <2>1. m = Movement(ln, ln.loc, ln.qty, worth)
    OBVIOUS
  <2>. HIDE DEF m, after
  <2>. QED  BY <1>3, <1>5, <1>6, <1>8, <2>1, OneWritten
<1>. QED  BY <1>9, <1>10

LEMMA TakeOutWritten ==
  ASSUME StockAssumption, NEW s, NEW ln, Writable(s, ln), ln.qty < 0, ln.type # "transfer"
  PROVE  WrittenFor(s, ln, TakeOut(s, ln))
<1>. DEFINE cost == consumptionCost(s, ln.item, -ln.qty)
            worth == IF ln.type = "ship" \/ ln.item \in Fifo THEN cost ELSE 0
            m == Movement(ln, ln.loc, ln.qty, worth)
            mid == insertMovement(s, ln, ln.loc, ln.qty, worth)
            after == [mid EXCEPT !.spent = mid.spent + cost]
            layers == buildFifoLayers(s.log, ln.item)
<1>0. /\ s \in Books /\ Signed(ln) /\ \A i \in Items : InOrder(s.log, i)
      /\ ln.qty \in Int /\ ln.qty # 0 /\ -ln.qty \in Nat /\ ln.loc \in Locations
      /\ s.log \in Seq(Row) /\ ln.item \in Items
      /\ OnHand(s.log, ln.item, ln.loc) >= -ln.qty
  BY LineFields, BooksFields DEF Writable
<1>1. cost \in Nat /\ worth \in Nat
  BY <1>0, CostTells
<1>2. ln.item \in Fifo => worth = Cost(layers, -ln.qty)
  <2>1. -ln.qty <= Units(layers)
    <3>1. OnHand(s.log, ln.item, ln.loc) <= OnHandTotal(s.log, ln.item)
      BY <1>0, TotalCovers DEF InOrder
    <3>2. Units(layers) = OnHandTotal(s.log, ln.item)
      BY <1>0 DEF InOrder, InLayers
    <3>3. OnHand(s.log, ln.item, ln.loc) \in Int /\ OnHandTotal(s.log, ln.item) \in Int
      BY <1>0, Readings
    <3>. HIDE DEF layers
    <3>. QED  BY <1>0, <3>1, <3>2, <3>3
  <2>2. ln.item \in Fifo => cost = Cost(layers, -ln.qty)
    BY <1>0, <2>1, CostTells
  <2>. HIDE DEF cost, layers
  <2>. QED  BY <2>2
<1>. HIDE DEF worth, cost
<1>3. m \in Row
  <2>1. ~(ln.type \in {"receive", "produce", "return_in"})
    BY <1>0 DEF Signed
  <2>. QED  BY <1>0, <1>1, <2>1, MovementTyped
<1>4. mid \in Books /\ mid.log = Append(s.log, m)
  BY <1>0, <1>3, InsertTells
<1>. HIDE DEF mid
<1>5. after \in Books /\ after.log = Append(s.log, m)
  <2>1. mid.spent + cost \in Nat
    BY <1>1, <1>4, BooksFields
  <2>2. after = [log |-> mid.log, avg |-> mid.avg, spent |-> mid.spent + cost]
    BY <1>4, BooksExcept
  <2>. HIDE DEF after
  <2>. QED  BY <1>4, <2>1, <2>2, BooksFields DEF Books
<1>6. m.item = ln.item /\ m.loc = ln.loc /\ m.qty = ln.qty /\ m.worth = worth /\ m.type = ln.type
  BY MovementFields
<1>7. ASSUME NEW i \in Items PROVE InOrder(Append(s.log, m), i)
  <2>1. /\ m.qty < 0 /\ m.type # "transfer" /\ OnHand(s.log, m.item, m.loc) >= -m.qty
        /\ m.item \in Fifo => m.worth = Cost(buildFifoLayers(s.log, m.item), -m.qty)
        /\ InOrder(s.log, i)
    <3>. HIDE DEF m
    <3>. QED  BY <1>0, <1>2, <1>6 DEF layers
  <2>. HIDE DEF m
  <2>. QED  BY <1>0, <1>3, <2>1, OutflowInOrder
<1>8. TakeOut(s, ln) = after
  BY DEF TakeOut, worth, cost, mid
<1>9. WrittenFor(s, ln, after)
  <2>1. m = Movement(ln, ln.loc, ln.qty, worth)
    OBVIOUS
  <2>. HIDE DEF m, after
  <2>. QED  BY <1>1, <1>3, <1>5, <1>7, <2>1, OneWritten
<1>. QED  BY <1>8, <1>9

LEMMA MoveWritten ==
  ASSUME StockAssumption, NEW s, NEW ln, Writable(s, ln), ln.type = "transfer"
  PROVE  WrittenFor(s, ln, Move(s, ln))
<1>. DEFINE out == Movement(ln, ln.loc, ln.qty, 0)
            in == Movement(ln, ln.to, -ln.qty, 0)
            mid == insertMovement(s, ln, ln.loc, ln.qty, 0)
            after == insertMovement(mid, ln, ln.to, -ln.qty, 0)
            b == <<out, in>>
<1>0. /\ s \in Books /\ Signed(ln) /\ \A i \in Items : InOrder(s.log, i)
      /\ ln.qty \in Int /\ ln.qty < 0 /\ ln.loc \in Locations /\ ln.to \in Locations
      /\ s.log \in Seq(Row) /\ ln.item \in Items
      /\ OnHand(s.log, ln.item, ln.loc) >= -ln.qty
  BY LineFields, BooksFields DEF Writable, Signed
<1>1. out \in Row /\ in \in Row
  <2>1. /\ ~(ln.type \in {"receive", "produce", "return_in"}) /\ ~(ln.type \in {"ship", "consume"})
        /\ -ln.qty \in Int /\ -ln.qty # 0 /\ ln.qty # 0 /\ 0 \in Nat
    BY <1>0
  <2>. QED  BY <1>0, <2>1, MovementTyped
<1>2. /\ out.item = ln.item /\ out.loc = ln.loc /\ out.type = "transfer" /\ out.qty = ln.qty
      /\ out.worth = 0
      /\ in.item = ln.item /\ in.loc = ln.to /\ in.type = "transfer" /\ in.qty = -ln.qty
      /\ in.worth = 0
  BY MovementFields
<1>3. mid \in Books /\ mid.log = Append(s.log, out)
  BY <1>0, <1>1, InsertTells
<1>. HIDE DEF mid
<1>4. after \in Books /\ after.log = Append(mid.log, in)
  BY <1>1, <1>3, InsertTells, SMTT(40)
<1>. HIDE DEF out, in, after
<1>5. after.log = Append(Append(s.log, out), in)
  BY <1>3, <1>4
<1>6. \E c \in Seq(Row) : after.log = s.log \o c /\ \A k \in DOMAIN c : c[k].item = ln.item
  <2>1. b \in Seq(Row) /\ Append(Append(s.log, out), in) = s.log \o b
    BY <1>0, <1>1
  <2>2. \A k \in DOMAIN b : b[k].item = ln.item
    BY <1>2
  <2>. QED  BY <1>5, <2>1, <2>2
<1>7. ASSUME NEW i \in Items PROVE InOrder(after.log, i)
  <2>1. in.item = out.item /\ out.qty < 0 /\ in.qty = -out.qty
    BY <1>0, <1>2
  <2>2. OnHand(s.log, out.item, out.loc) >= -out.qty
    BY <1>0, <1>2
  <2>3. InOrder(Append(Append(s.log, out), in), i)
    BY <1>0, <1>1, <1>2, <2>1, <2>2, TransferInOrder
  <2>. QED  BY <1>5, <2>3
<1>8. ASSUME NEW i \in Items, NEW l \in Locations
      PROVE  OnHand(after.log, i, l) >=
               OnHand(s.log, i, l)
                 + (IF ln.item = i /\ ln.loc = l /\ ln.qty < 0 THEN ln.qty ELSE 0)
  <2>1. OnHand(mid.log, i, l) =
          OnHand(s.log, i, l) + (IF out.item = i /\ out.loc = l THEN out.qty ELSE 0)
    BY <1>0, <1>1, <1>3, OnHandGrows
  <2>2. mid.log \in Seq(Row)
    BY <1>3, BooksFields
  <2>3. OnHand(after.log, i, l) =
          OnHand(mid.log, i, l) + (IF in.item = i /\ in.loc = l THEN in.qty ELSE 0)
    BY <1>1, <1>4, <2>2, OnHandGrows
  <2>4. OnHand(s.log, i, l) \in Int
    BY <1>0, Readings
  <2>. QED  BY <1>0, <1>2, <2>1, <2>3, <2>4
<1>9. ASSUME NEW e \in Lines
      PROVE  /\ Fulfilled(after.log, e) = Fulfilled(s.log, e) + Filling(ln, e)
             /\ Received(after.log, e) = Received(s.log, e) + Receiving(ln, e)
  <2>1. mid.log \in Seq(Row)
    BY <1>3, BooksFields
  <2>2. /\ Fulfilled(mid.log, e) = Fulfilled(s.log, e) /\ Received(mid.log, e) = Received(s.log, e)
        /\ Fulfilled(s.log, e) \in Int /\ Received(s.log, e) \in Int
    BY <1>0, <1>1, <1>2, <1>3, EntryGrows
  <2>3. Fulfilled(after.log, e) = Fulfilled(mid.log, e) /\ Received(after.log, e) = Received(mid.log, e)
    BY <1>1, <1>2, <1>4, <2>1, <2>2, EntryGrows
  <2>. QED  BY <2>2, <2>3 DEF Filling, Receiving
<1>10. Move(s, ln) = after
  BY DEF Move, after, mid
<1>11. WrittenFor(s, ln, after)
  BY <1>4, <1>6, <1>7, <1>8, <1>9 DEF WrittenFor
<1>. QED  BY <1>10, <1>11

LEMMA LineWritten ==
  ASSUME StockAssumption, NEW s, NEW ln, Writable(s, ln)
  PROVE  WrittenFor(s, ln, WriteLine(s, ln))
<1>1. CASE ln.type = "transfer"
  BY <1>1, MoveWritten DEF WriteLine
<1>2. CASE ln.type # "transfer" /\ ln.qty > 0
  BY <1>2, TakeInWritten DEF WriteLine
<1>3. CASE ln.type # "transfer" /\ ~(ln.qty > 0)
  <2>1. ln.qty < 0
    BY <1>3, LineFields DEF Writable
  <2>. QED  BY <1>3, <2>1, TakeOutWritten DEF WriteLine
<1>. QED  BY <1>1, <1>2, <1>3

---------------------------------------------------------------------------------
(* Stock: what a request writes                                              *)

WritesFollow(s0, lines, N, f) ==
    f = [n \in 0..N |-> IF n = 0 THEN s0 ELSE WriteLine(f[n - 1], lines[n])]

LEMMA WritesExist ==
  ASSUME NEW s0, NEW lines, NEW N \in Nat
  PROVE  \E f : WritesFollow(s0, lines, N, f)
<1>. DEFINE P == {n \in 0..N : \E f : WritesFollow(s0, lines, n, f)}
<1>1. 0 \in P
  <2>1. WritesFollow(s0, lines, 0, [n \in 0..0 |-> s0])
    BY DEF WritesFollow
  <2>. QED  BY <2>1
<1>2. ASSUME NEW n \in 0..N, n # N, n \in P PROVE n + 1 \in P
  <2>1. PICK f : WritesFollow(s0, lines, n, f)
    BY <1>2
  <2>. DEFINE g == [m \in 0..(n + 1) |-> IF m = n + 1 THEN WriteLine(f[n], lines[n + 1])
                                         ELSE f[m]]
  <2>2. \A m \in 0..n : g[m] = f[m]
    OBVIOUS
  <2>3. \A m \in 0..n : m # 0 => m - 1 \in 0..n /\ g[m - 1] = f[m - 1]
    OBVIOUS
  <2>4. g[n + 1] = WriteLine(g[n], lines[n + 1])
    OBVIOUS
  <2>5. \A m \in 0..n : f[m] = IF m = 0 THEN s0 ELSE WriteLine(f[m - 1], lines[m])
    BY <2>1, Zenon DEF WritesFollow
  <2>6. \A m \in 0..(n + 1) : m \in 0..n \/ (m = n + 1 /\ m # 0 /\ m - 1 = n)
    OBVIOUS
  <2>7. g = [m \in 0..(n + 1) |-> g[m]]
    OBVIOUS
  <2>8. \A m \in 0..(n + 1) : g[m] = IF m = 0 THEN s0 ELSE WriteLine(g[m - 1], lines[m])
    <3>. HIDE DEF g
    <3>1. ASSUME NEW m \in 0..(n + 1), m \in 0..n
          PROVE  g[m] = IF m = 0 THEN s0 ELSE WriteLine(g[m - 1], lines[m])
      BY <2>2, <2>3, <2>5, <3>1, Zenon
    <3>2. ASSUME NEW m \in 0..(n + 1), m = n + 1, m # 0, m - 1 = n
          PROVE  g[m] = IF m = 0 THEN s0 ELSE WriteLine(g[m - 1], lines[m])
      BY <2>4, <3>2, Zenon
    <3>. QED  BY <2>6, <3>1, <3>2
  <2>9. WritesFollow(s0, lines, n + 1, g)
    <3>. HIDE DEF g
    <3>. QED  BY <2>7, <2>8, Zenon DEF WritesFollow
  <2>10. n + 1 \in 0..N
    BY <1>2
  <2>. HIDE DEF g
  <2>. QED  BY <2>9, <2>10
<1>3. N \in P
  <2>1. \A n \in 0..N : n # N /\ n \in P => n + 1 \in P
    BY <1>2
  <2>. HIDE DEF P
  <2>. QED  BY <1>1, <2>1, UpTo
<1>. QED  BY <1>3

Untouched == [log |-> movements, avg |-> avg, spent |-> 0]

LEMMA WritesStep ==
  ASSUME NEW r, Len(r.lines) \in Nat
  PROVE  /\ LinesWritten(r)[0] = Untouched
         /\ \A n \in 1..Len(r.lines) :
              LinesWritten(r)[n] = WriteLine(LinesWritten(r)[n - 1], r.lines[n])
<1>1. LinesWritten(r) = CHOOSE f : WritesFollow(Untouched, r.lines, Len(r.lines), f)
  BY DEF LinesWritten, WritesFollow, Untouched
<1>2. WritesFollow(Untouched, r.lines, Len(r.lines), LinesWritten(r))
  BY <1>1, WritesExist, Zenon
<1>3. \A n \in 0..Len(r.lines) :
        LinesWritten(r)[n] =
          IF n = 0 THEN Untouched ELSE WriteLine(LinesWritten(r)[n - 1], r.lines[n])
  BY <1>2, Zenon DEF WritesFollow
<1>4. 0 \in 0..Len(r.lines) /\ \A n \in 1..Len(r.lines) : n \in 0..Len(r.lines) /\ n # 0
  OBVIOUS
<1>. QED  BY <1>3, <1>4, Zenon

LEMMA PlacesFinite == \A n \in Nat : IsFiniteSet(1..n)
BY FS_Interval

\* A request has signed lines.
LEMMA JobLines ==
  ASSUME StockAssumption, NEW r \in Jobs
  PROVE  /\ Len(r.lines) \in Nat /\ DOMAIN r.lines = 1..Len(r.lines)
         /\ \A k \in 1..Len(r.lines) : Signed(r.lines[k]) /\ r.lines[k] \in LineSet(r)
         /\ r # NoJob
<1>1. r.lines \in Seq(Line) /\ r.op # "none"
  BY DEF StockAssumption
<1>2. \A k \in DOMAIN r.lines : r.lines[k] \in Line
  BY <1>1
<1>3. \A k \in DOMAIN r.lines : Signed(r.lines[k])
  <2>1. \A k \in DOMAIN r.lines :
          /\ r.lines[k].qty # 0
          /\ r.lines[k].type \in {"receive", "produce", "return_in"} => r.lines[k].qty > 0
          /\ r.lines[k].type \in {"ship", "transfer", "consume"} => r.lines[k].qty < 0
    BY DEF StockAssumption
  <2>. QED  BY <1>2, <2>1 DEF Signed
<1>4. r # NoJob
  BY <1>1 DEF NoJob
<1>5. Len(r.lines) \in Nat /\ DOMAIN r.lines = 1..Len(r.lines)
  BY <1>1
<1>. QED  BY <1>3, <1>4, <1>5 DEF LineSet

\* What the first n lines ask of a shelf.
Asked(r) == [k \in DOMAIN r.lines |-> -r.lines[k].qty]

Asking(r, i, l, n) ==
    {k \in 1..n : r.lines[k].item = i /\ r.lines[k].loc = l /\ r.lines[k].qty < 0}

Wanted(r, i, l, n) == SumFunctionOnSet(Asked(r), Asking(r, i, l, n))

LEMMA WantedTells ==
  ASSUME StockAssumption, NEW r \in Jobs, NEW i, NEW l
  PROVE  /\ Wanted(r, i, l, 0) = 0
         /\ \A n \in 0..Len(r.lines) : Wanted(r, i, l, n) \in Int /\ Wanted(r, i, l, n) <= Demand(r, i, l)
         /\ \A n \in 0..Len(r.lines) : n # Len(r.lines) =>
              LET ln == r.lines[n + 1] IN
              Wanted(r, i, l, n + 1) = Wanted(r, i, l, n)
                + (IF ln.item = i /\ ln.loc = l /\ ln.qty < 0 THEN -ln.qty ELSE 0)
<1>0. /\ Len(r.lines) \in Nat /\ DOMAIN r.lines = 1..Len(r.lines)
      /\ \A k \in 1..Len(r.lines) : /\ r.lines[k].qty \in Int
                                    /\ Asked(r)[k] = -r.lines[k].qty /\ Asked(r)[k] \in Int
  <2>1. \A k \in 1..Len(r.lines) : r.lines[k].qty \in Int
    BY JobLines, LineFields
  <2>. QED  BY <2>1, JobLines DEF Asked
<1>1. Wanted(r, i, l, 0) = 0
  <2>1. Asking(r, i, l, 0) = {}
    BY DEF Asking
  <2>. QED  BY <2>1, SumEmpty, Zenon DEF Wanted
<1>2. Demand(r, i, l) = Wanted(r, i, l, Len(r.lines))
  BY <1>0 DEF Demand, Wanted, Asked, Asking
<1>3. ASSUME NEW n \in 0..Len(r.lines)
      PROVE  Wanted(r, i, l, n) \in Int /\ Wanted(r, i, l, n) <= Demand(r, i, l)
  <2>1. /\ Asking(r, i, l, n) \in SUBSET Asking(r, i, l, Len(r.lines))
        /\ Asking(r, i, l, Len(r.lines)) \in SUBSET (1..Len(r.lines))
    BY <1>0 DEF Asking
  <2>2. IsFiniteSet(Asking(r, i, l, Len(r.lines)))
    <3>1. IsFiniteSet(1..Len(r.lines))
      BY <1>0, PlacesFinite
    <3>. QED  BY <2>1, <3>1, FS_Subset
  <2>3. \A k \in Asking(r, i, l, Len(r.lines)) : Asked(r)[k] \in Nat
    BY <1>0 DEF Asking
  <2>4. Wanted(r, i, l, n) <= Wanted(r, i, l, Len(r.lines))
    BY <2>1, <2>2, <2>3, SumPart DEF Wanted
  <2>5. Wanted(r, i, l, n) \in Int
    <3>1. IsFiniteSet(Asking(r, i, l, n)) /\ \A k \in Asking(r, i, l, n) : Asked(r)[k] \in Int
      BY <2>1, <2>2, <2>3, FS_Subset
    <3>. QED  BY <3>1, SumType DEF Wanted
  <2>. QED  BY <1>2, <2>4, <2>5
<1>4. ASSUME NEW n \in 0..Len(r.lines), n # Len(r.lines), NEW ln, ln = r.lines[n + 1]
      PROVE  Wanted(r, i, l, n + 1) = Wanted(r, i, l, n)
                + (IF ln.item = i /\ ln.loc = l /\ ln.qty < 0 THEN -ln.qty ELSE 0)
  <2>1. /\ n \in Nat /\ n + 1 \in 1..Len(r.lines) /\ 1..(n + 1) = (1..n) \cup {n + 1}
        /\ n + 1 \notin 1..n /\ \A k \in 1..n : k \in 1..Len(r.lines)
    BY <1>0, <1>4
  <2>2. Asking(r, i, l, n) \in SUBSET (1..n)
    BY DEF Asking
  <2>3. Asking(r, i, l, n + 1) =
          IF ln.item = i /\ ln.loc = l /\ ln.qty < 0
          THEN Asking(r, i, l, n) \cup {n + 1} ELSE Asking(r, i, l, n)
    BY <1>4, <2>1 DEF Asking
  <2>4. n + 1 \in Asking(r, i, l, n + 1) <=> ln.item = i /\ ln.loc = l /\ ln.qty < 0
    BY <2>1, <2>2, <2>3
  <2>5. \A k \in Asking(r, i, l, n) : Asked(r)[k] \in Int /\ Asked(r)[k] = Asked(r)[k]
    BY <1>0, <2>1, <2>2
  <2>6. Asked(r)[n + 1] \in Int /\ Asked(r)[n + 1] = -ln.qty
    BY <1>0, <1>4, <2>1
  <2>7. SumFunctionOnSet(Asked(r), Asking(r, i, l, n + 1)) =
          SumFunctionOnSet(Asked(r), Asking(r, i, l, n))
            + (IF n + 1 \in Asking(r, i, l, n + 1) THEN Asked(r)[n + 1] ELSE 0)
    <3>1. \/ Asking(r, i, l, n + 1) = Asking(r, i, l, n)
          \/ Asking(r, i, l, n + 1) = Asking(r, i, l, n) \cup {n + 1}
      BY <2>3
    <3>. QED  BY <2>1, <2>2, <2>5, <2>6, <3>1, GrownSum
  <2>. QED  BY <2>4, <2>6, <2>7 DEF Wanted
<1>. QED  BY <1>1, <1>3, <1>4

\* The view after n lines of request r: what was committed, then rows of the items of
\* r; nothing out of order, and on each shelf all that the lines to come still ask for.
Progress(r, n) ==
    LET s == LinesWritten(r)[n] IN
    /\ s \in Books
    /\ \E b \in Seq(Row) : s.log = movements \o b /\ \A k \in DOMAIN b : b[k].item \in Needs(r)
    /\ \A i \in Items : InOrder(s.log, i)
    /\ \A i \in Items : \A l \in Locations :
          OnHand(s.log, i, l) >= OnHand(movements, i, l) - Wanted(r, i, l, n)
    /\ n # 0 => WrittenFor(LinesWritten(r)[n - 1], r.lines[n], s)

LEMMA LinesProgress ==
  ASSUME StockAssumption, NEW r \in Jobs, movements \in Seq(Row), avg \in [Items -> Nat],
         \A i \in Items : InOrder(movements, i), assertSufficientStock(r)
  PROVE  /\ Progress(r, Len(r.lines))
         /\ \A n \in 0..Len(r.lines) : Progress(r, n)
<1>. DEFINE N == Len(r.lines)
            P == {n \in 0..N : Progress(r, n)}
<1>0. /\ N \in Nat
      /\ \A n \in 1..N : Signed(r.lines[n]) /\ r.lines[n] \in LineSet(r)
      /\ LinesWritten(r)[0] = Untouched
      /\ \A n \in 1..N : LinesWritten(r)[n] = WriteLine(LinesWritten(r)[n - 1], r.lines[n])
  BY JobLines, WritesStep
<1>1. 0 \in P
  <2>1. /\ Untouched \in Books /\ Untouched.log = movements
    BY DEF Untouched, Books
  <2>2. \E b \in Seq(Row) : movements = movements \o b /\ \A k \in DOMAIN b : b[k].item \in Needs(r)
    <3>1. <<>> \in Seq(Row) /\ movements = movements \o <<>> /\ DOMAIN <<>> = {}
      OBVIOUS
    <3>. QED  BY <3>1
  <2>3. ASSUME NEW i \in Items, NEW l \in Locations
        PROVE  OnHand(movements, i, l) >= OnHand(movements, i, l) - Wanted(r, i, l, 0)
    <3>1. OnHand(movements, i, l) \in Int
      BY Readings
    <3>2. Wanted(r, i, l, 0) = 0
      BY WantedTells
    <3>. QED  BY <3>1, <3>2
  <2>4. Progress(r, 0)
    BY <1>0, <2>1, <2>2, <2>3 DEF Progress
  <2>. QED  BY <1>0, <2>4
<1>2. ASSUME NEW n \in 0..N, n # N, n \in P PROVE n + 1 \in P
  <2>. DEFINE s == LinesWritten(r)[n]
              ln == r.lines[n + 1]
              after == WriteLine(s, ln)
  <2>0. n + 1 \in 1..N /\ n + 1 \in 0..N /\ (n + 1) - 1 = n /\ n \in Nat
    BY <1>0, <1>2
  <2>1. Signed(ln) /\ ln \in LineSet(r)
    BY <1>0, <2>0
  <2>2. LinesWritten(r)[n + 1] = after
    <3>1. LinesWritten(r)[n + 1] = WriteLine(LinesWritten(r)[(n + 1) - 1], r.lines[n + 1])
      BY <1>0, <2>0
    <3>. QED  BY <2>0, <3>1
  <2>3. /\ s \in Books
        /\ \E b \in Seq(Row) : s.log = movements \o b /\ \A k \in DOMAIN b : b[k].item \in Needs(r)
        /\ \A i \in Items : InOrder(s.log, i)
        /\ \A i \in Items : \A l \in Locations :
              OnHand(s.log, i, l) >= OnHand(movements, i, l) - Wanted(r, i, l, n)
    BY <1>2 DEF Progress
  <2>. HIDE DEF s
  <2>4. ln.item \in Items /\ ln.loc \in Locations /\ ln.qty \in Int /\ ln.item \in Needs(r)
    BY <2>1, LineFields DEF Needs
  <2>. HIDE DEF ln, after
  <2>5. \A i \in Items : \A l \in Locations :
          /\ OnHand(s.log, i, l) \in Int /\ OnHand(movements, i, l) \in Int
          /\ Wanted(r, i, l, n) \in Int /\ Wanted(r, i, l, n + 1) \in Int
          /\ Wanted(r, i, l, n + 1) = Wanted(r, i, l, n)
                + (IF ln.item = i /\ ln.loc = l /\ ln.qty < 0 THEN -ln.qty ELSE 0)
          /\ Wanted(r, i, l, n + 1) <= Demand(r, i, l)
    <3>. SUFFICES ASSUME NEW i \in Items, NEW l \in Locations
         PROVE  /\ OnHand(s.log, i, l) \in Int /\ OnHand(movements, i, l) \in Int
                /\ Wanted(r, i, l, n) \in Int /\ Wanted(r, i, l, n + 1) \in Int
                /\ Wanted(r, i, l, n + 1) = Wanted(r, i, l, n)
                      + (IF ln.item = i /\ ln.loc = l /\ ln.qty < 0 THEN -ln.qty ELSE 0)
                /\ Wanted(r, i, l, n + 1) <= Demand(r, i, l)
      OBVIOUS
    <3>1. OnHand(s.log, i, l) \in Int /\ OnHand(movements, i, l) \in Int
      BY <2>3, BooksFields, Readings
    <3>2. /\ Wanted(r, i, l, n) \in Int /\ Wanted(r, i, l, n + 1) \in Int
          /\ Wanted(r, i, l, n + 1) <= Demand(r, i, l)
      BY <2>0, WantedTells
    <3>3. Wanted(r, i, l, n + 1) = Wanted(r, i, l, n)
            + (IF ln.item = i /\ ln.loc = l /\ ln.qty < 0 THEN -ln.qty ELSE 0)
      BY <1>2, WantedTells DEF ln
    <3>. QED  BY <3>1, <3>2, <3>3
  <2>6. Writable(s, ln)
    <3>1. ASSUME ln.qty < 0 PROVE OnHand(s.log, ln.item, ln.loc) >= -ln.qty
      <4>1. OnHand(movements, ln.item, ln.loc) >= Demand(r, ln.item, ln.loc)
        BY <2>1, <3>1 DEF assertSufficientStock
      <4>2. /\ OnHand(s.log, ln.item, ln.loc) >=
                 OnHand(movements, ln.item, ln.loc) - Wanted(r, ln.item, ln.loc, n)
            /\ Wanted(r, ln.item, ln.loc, n + 1) = Wanted(r, ln.item, ln.loc, n) + (-ln.qty)
            /\ Wanted(r, ln.item, ln.loc, n + 1) <= Demand(r, ln.item, ln.loc)
            /\ OnHand(s.log, ln.item, ln.loc) \in Int /\ OnHand(movements, ln.item, ln.loc) \in Int
            /\ Wanted(r, ln.item, ln.loc, n) \in Int
        BY <2>3, <2>4, <2>5, <3>1
      <4>3. Demand(r, ln.item, ln.loc) \in Int
        <5>1. N \in 0..N
          BY <1>0
        <5>2. Demand(r, ln.item, ln.loc) = Wanted(r, ln.item, ln.loc, N)
          BY JobLines DEF Demand, Wanted, Asked, Asking
        <5>. QED  BY <5>1, <5>2, WantedTells
      <4>. QED  BY <2>4, <4>1, <4>2, <4>3
    <3>. QED  BY <2>1, <2>3, <3>1 DEF Writable, ln
  <2>7. WrittenFor(s, ln, after)
    BY <2>6, LineWritten DEF after
  <2>8. \E b \in Seq(Row) : after.log = movements \o b /\ \A k \in DOMAIN b : b[k].item \in Needs(r)
    <3>1. PICK b \in Seq(Row) : /\ s.log = movements \o b
                                /\ \A k \in DOMAIN b : b[k].item \in Needs(r)
      BY <2>3
    <3>2. PICK c \in Seq(Row) : after.log = s.log \o c /\ \A k \in DOMAIN c : c[k].item = ln.item
      BY <2>7 DEF WrittenFor
    <3>3. b \o c \in Seq(Row) /\ (movements \o b) \o c = movements \o (b \o c)
      OBVIOUS
    <3>4. \A k \in DOMAIN (b \o c) :
            (k \in DOMAIN b /\ (b \o c)[k] = b[k])
            \/ (k - Len(b) \in DOMAIN c /\ (b \o c)[k] = c[k - Len(b)])
      OBVIOUS
    <3>5. \A k \in DOMAIN (b \o c) : (b \o c)[k].item \in Needs(r)
      BY <2>4, <3>1, <3>2, <3>4
    <3>. QED  BY <3>1, <3>2, <3>3, <3>5
  <2>9. ASSUME NEW i \in Items, NEW l \in Locations
        PROVE  OnHand(after.log, i, l) >= OnHand(movements, i, l) - Wanted(r, i, l, n + 1)
    <3>1. OnHand(after.log, i, l) >=
            OnHand(s.log, i, l) + (IF ln.item = i /\ ln.loc = l /\ ln.qty < 0 THEN ln.qty ELSE 0)
      BY <2>7 DEF WrittenFor
    <3>2. OnHand(after.log, i, l) \in Int
      BY <2>7, BooksFields, Readings DEF WrittenFor
    <3>3. OnHand(s.log, i, l) >= OnHand(movements, i, l) - Wanted(r, i, l, n)
      BY <2>3
    <3>4. /\ OnHand(s.log, i, l) \in Int /\ OnHand(movements, i, l) \in Int
          /\ Wanted(r, i, l, n) \in Int /\ Wanted(r, i, l, n + 1) \in Int
          /\ Wanted(r, i, l, n + 1) = Wanted(r, i, l, n)
                + (IF ln.item = i /\ ln.loc = l /\ ln.qty < 0 THEN -ln.qty ELSE 0)
      BY <2>5
    <3>. QED  BY <2>4, <3>1, <3>2, <3>3, <3>4, SMTT(40)
  <2>10. WrittenFor(LinesWritten(r)[(n + 1) - 1], r.lines[n + 1], LinesWritten(r)[n + 1])
    BY <2>0, <2>2, <2>7 DEF s, ln
  <2>11. Progress(r, n + 1)
    <3>1. /\ after \in Books /\ \A i \in Items : InOrder(after.log, i)
      BY <2>7 DEF WrittenFor
    <3>. QED  BY <2>2, <2>8, <2>9, <2>10, <3>1 DEF Progress
  <2>. QED  BY <2>0, <2>11
<1>3. N \in 0..N /\ \A n \in 0..N : n \in P
  <2>1. \A n \in 0..N : n # N /\ n \in P => n + 1 \in P
    BY <1>2
  <2>2. N \in 0..N
    BY <1>0
  <2>. HIDE DEF P, N
  <2>. QED  BY <1>0, <1>1, <2>1, <2>2, UpTo
<1>. QED  BY <1>3

LEMMA TailOf ==
  ASSUME NEW a \in Seq(Row), NEW b \in Seq(Row)
  PROVE  SubSeq(a \o b, Len(a) + 1, Len(a \o b)) = b
<1>1. /\ Len(a) \in Nat /\ Len(b) \in Nat /\ Len(a \o b) = Len(a) + Len(b) /\ a \o b \in Seq(Row)
      /\ \A k \in 1..Len(b) : (a \o b)[Len(a) + k] = b[k]
  OBVIOUS
<1>2. /\ DOMAIN SubSeq(a \o b, Len(a) + 1, Len(a \o b)) = 1..Len(b)
      /\ \A k \in 1..Len(b) :
           SubSeq(a \o b, Len(a) + 1, Len(a \o b))[k] = (a \o b)[Len(a) + k]
      /\ SubSeq(a \o b, Len(a) + 1, Len(a \o b)) \in Seq(Row)
  BY <1>1
<1>. QED  BY <1>1, <1>2

\* What a request inserts: rows of its items, which leave them in order.
LEMMA InsertedTells ==
  ASSUME StockAssumption, NEW r \in Jobs, movements \in Seq(Row), avg \in [Items -> Nat],
         \A i \in Items : InOrder(movements, i), assertSufficientStock(r)
  PROVE  LET s == Inserted(r)
             rows == SubSeq(s.log, Len(movements) + 1, Len(s.log))
         IN  /\ s.avg \in [Items -> Nat] /\ rows \in Seq(Row) /\ s.log = movements \o rows
             /\ \A k \in DOMAIN rows : rows[k].item \in Needs(r)
             /\ \A i \in Items : InOrder(movements \o rows, i)
<1>. DEFINE s == Inserted(r)
            rows == SubSeq(s.log, Len(movements) + 1, Len(s.log))
<1>1. /\ s \in Books
      /\ \E b \in Seq(Row) : s.log = movements \o b /\ \A k \in DOMAIN b : b[k].item \in Needs(r)
      /\ \A i \in Items : InOrder(s.log, i)
  BY LinesProgress DEF Progress, Inserted
<1>. HIDE DEF s
<1>2. PICK b \in Seq(Row) : s.log = movements \o b /\ \A k \in DOMAIN b : b[k].item \in Needs(r)
  BY <1>1
<1>3. rows = b
  BY <1>2, TailOf
<1>4. s.avg \in [Items -> Nat]
  BY <1>1, BooksFields
<1>. HIDE DEF rows
<1>5. /\ s.avg \in [Items -> Nat] /\ rows \in Seq(Row) /\ s.log = movements \o rows
      /\ \A k \in DOMAIN rows : rows[k].item \in Needs(r)
      /\ \A i \in Items : InOrder(movements \o rows, i)
  BY <1>1, <1>2, <1>3, <1>4
<1>. QED  BY <1>5 DEF s, rows

---------------------------------------------------------------------------------
(* Stock: the invariant, of everyone and of each transaction                 *)

StockShared ==
    /\ job \in [Workers -> Jobs \cup {NoJob}]
    /\ holder \in [Items -> Workers \cup {Free}]
    /\ movements \in Seq(Row)
    /\ avg \in [Items -> Nat] /\ begun \in 0..MaxJobs
    /\ DOMAIN draft = Workers
    /\ \A i \in Items : InOrder(movements, i)

Drafted(w) ==
    /\ AllLocked(w)
    /\ draft[w] = <<[rows |-> draft[w][1].rows, avg |-> draft[w][1].avg]>>
    /\ draft[w][1].rows \in Seq(Row) /\ draft[w][1].avg \in [Items -> Nat]
    /\ \A k \in DOMAIN draft[w][1].rows : draft[w][1].rows[k].item \in Needs(job[w])
    /\ \A i \in Needs(job[w]) : InOrder(View(w), i)

StockOwn(w) == Held(w) \subseteq Needs(job[w]) /\ (draft[w] # <<>> => Drafted(w))

LEMMA StockInParts ==
  /\ StockInv <=> StockShared /\ \A w \in Workers : StockOwn(w)
  /\ StockInv' <=> StockShared' /\ \A w \in Workers : StockOwn(w)'
BY DEF StockInv, StockTypeOK, StockShared, StockOwn, Drafted

\* Of a transaction that does not move, only the log can change.
LEMMA StockStays ==
  ASSUME NEW v \in Workers, StockOwn(v), job'[v] = job[v], draft'[v] = draft[v],
         Held(v)' = Held(v),
         draft[v] # <<>> => \A i \in Needs(job[v]) : InOrder(movements' \o draft[v][1].rows, i)
  PROVE  StockOwn(v)'
<1>1. Held(v)' \subseteq Needs(job[v])'
  BY DEF StockOwn, Needs, LineSet
<1>2. ASSUME draft[v] # <<>> PROVE Drafted(v)'
  <2>1. Drafted(v)
    BY <1>2 DEF StockOwn
  <2>2. AllLocked(v)'
    BY <2>1 DEF Drafted, AllLocked, NoJob, Needs, LineSet
  <2>3. \A k \in DOMAIN draft'[v][1].rows : draft'[v][1].rows[k].item \in Needs(job'[v])
    BY <2>1 DEF Drafted
  <2>4. \A i \in Needs(job'[v]) : InOrder(movements' \o draft'[v][1].rows, i)
    BY <1>2
  <2>. QED  BY <2>1, <2>2, <2>3, <2>4 DEF Drafted, View
<1>. QED  BY <1>1, <1>2 DEF StockOwn

\* What a transaction that is over leaves: nothing of its own.
LEMMA StockEnds ==
  ASSUME StockAssumption, StockShared, NEW w \in Workers, End(w)
  PROVE  /\ job' \in [Workers -> Jobs \cup {NoJob}] /\ holder' \in [Items -> Workers \cup {Free}]
         /\ DOMAIN draft' = Workers /\ begun' = begun
         /\ Held(w)' = {} /\ draft'[w] = <<>> /\ StockOwn(w)'
         /\ \A v \in Workers \ {w} :
               job'[v] = job[v] /\ draft'[v] = draft[v] /\ Held(v)' = Held(v)
<1>1. /\ job' = [job EXCEPT ![w] = NoJob] /\ draft' = [draft EXCEPT ![w] = <<>>]
      /\ holder' = [i \in Items |-> IF holder[i] = w THEN Free ELSE holder[i]] /\ begun' = begun
  BY DEF End, Released
<1>2. /\ job \in [Workers -> Jobs \cup {NoJob}] /\ holder \in [Items -> Workers \cup {Free}]
      /\ DOMAIN draft = Workers /\ Free \notin Workers
  BY DEF StockShared, StockAssumption
<1>3. /\ job' \in [Workers -> Jobs \cup {NoJob}] /\ holder' \in [Items -> Workers \cup {Free}]
      /\ DOMAIN draft' = Workers /\ draft'[w] = <<>>
      /\ \A v \in Workers \ {w} : job'[v] = job[v] /\ draft'[v] = draft[v]
  BY <1>1, <1>2
<1>4. \A i \in Items : /\ holder'[i] # w
                       /\ \A v \in Workers \ {w} : holder'[i] = v <=> holder[i] = v
  BY <1>1, <1>2
<1>5. Held(w)' = {}
  BY <1>4 DEF Held
<1>6. ASSUME NEW v \in Workers \ {w} PROVE Held(v)' = Held(v)
  BY <1>4 DEF Held
<1>7. StockOwn(w)'
  BY <1>3, <1>5 DEF StockOwn
<1>. QED  BY <1>1, <1>3, <1>5, <1>6, <1>7

LEMMA NeedsTell ==
  ASSUME StockAssumption
  PROVE  /\ Needs(NoJob) = {} /\ NoJob \notin Jobs
         /\ \A r \in Jobs \cup {NoJob} : Needs(r) \subseteq Items
<1>1. Needs(NoJob) = {}
  BY DEF Needs, LineSet, NoJob
<1>2. NoJob \notin Jobs
  BY JobLines
<1>3. ASSUME NEW r \in Jobs PROVE Needs(r) \subseteq Items
  BY JobLines, LineFields DEF Needs, LineSet
<1>. QED  BY <1>1, <1>2, <1>3

LEMMA LeastOf ==
  ASSUME NEW S, IsFiniteSet(S), S # {}, S \subseteq Nat
  PROVE  Min(S) \in S
<1>. DEFINE down == [n \in S |-> -n]
<1>1. \E n \in S : \A k \in S : down[k] <= down[n]
  <2>1. \A n \in S : down[n] \in Int
    OBVIOUS
  <2>. HIDE DEF down
  <2>. QED  BY <2>1, FiniteMax
<1>2. \E n \in S : \A k \in S : n <= k
  BY <1>1
<1>. QED  BY <1>2 DEF Min

LEMMA StockStarts == ASSUME StockAssumption, StockInit PROVE StockInv
<1>1. StockShared
  <2>1. NoJob \in Jobs \cup {NoJob} /\ <<>> \in Seq(Row) /\ 0 \in Nat /\ 0 \in 0..MaxJobs
    BY DEF StockAssumption
  <2>. QED  BY <2>1, EmptyLog DEF StockInit, StockShared
<1>2. \A w \in Workers : StockOwn(w)
  BY DEF StockInit, StockOwn, Held, StockAssumption
<1>. QED  BY <1>1, <1>2, StockInParts

LEMMA ArriveKeeps ==
  ASSUME StockAssumption, StockInv, NEW w \in Workers, Arrive(w) PROVE StockInv'
<1>0. StockShared /\ \A v \in Workers : StockOwn(v)
  BY StockInParts
<1>1. PICK r \in Jobs : /\ job[w] = NoJob /\ begun < MaxJobs
                        /\ job' = [job EXCEPT ![w] = r] /\ begun' = begun + 1
                        /\ UNCHANGED <<draft, holder, movements, avg>>
  BY DEF Arrive
<1>2. StockShared'
  BY <1>0, <1>1 DEF StockShared, StockAssumption
<1>3. ASSUME NEW v \in Workers PROVE Held(v)' = Held(v) /\ draft'[v] = draft[v]
  BY <1>1 DEF Held
<1>4. StockOwn(w)'
  <2>1. Held(w) = {} /\ draft[w] = <<>>
    BY <1>0, <1>1, NeedsTell DEF StockOwn, Drafted, AllLocked
  <2>. QED  BY <1>3, <2>1 DEF StockOwn
<1>5. ASSUME NEW v \in Workers, v # w PROVE StockOwn(v)'
  <2>1. StockOwn(v) /\ job'[v] = job[v] /\ movements' = movements
    BY <1>0, <1>1, <1>5 DEF StockShared
  <2>2. draft[v] # <<>> => \A i \in Needs(job[v]) : InOrder(movements' \o draft[v][1].rows, i)
    BY <2>1 DEF StockOwn, Drafted, View
  <2>. QED  BY <1>3, <2>1, <2>2, StockStays
<1>. QED  BY <1>2, <1>4, <1>5, StockInParts

LEMMA lockItemsKeeps ==
  ASSUME StockAssumption, StockInv, NEW w \in Workers, lockItems(w) PROVE StockInv'
<1>0. StockShared /\ \A v \in Workers : StockOwn(v)
  BY StockInParts
<1>1. /\ Needs(job[w]) # Held(w) /\ holder[NextItem(w)] = Free
      /\ holder' = [holder EXCEPT ![NextItem(w)] = w]
      /\ UNCHANGED <<job, draft, movements, avg, begun>>
  BY DEF lockItems
<1>2. NextItem(w) \in Needs(job[w]) /\ NextItem(w) \in Items
  <2>1. Held(w) \subseteq Needs(job[w]) /\ Needs(job[w]) \subseteq Items
    BY <1>0, NeedsTell DEF StockOwn, StockShared
  <2>2. Needs(job[w]) \ Held(w) # {} /\ Needs(job[w]) \ Held(w) \subseteq Nat
    BY <1>1, <2>1 DEF StockAssumption
  <2>3. IsFiniteSet(Needs(job[w]) \ Held(w))
    BY <2>1, FS_Subset DEF StockAssumption
  <2>4. NextItem(w) \in Needs(job[w]) \ Held(w)
    BY <2>2, <2>3, LeastOf DEF NextItem
  <2>. QED  BY <2>1, <2>4
<1>3. StockShared'
  BY <1>0, <1>1, <1>2 DEF StockShared
<1>4. Held(w)' = Held(w) \cup {NextItem(w)}
  BY <1>0, <1>1, <1>2 DEF Held, StockShared
<1>5. StockOwn(w)'
  <2>1. draft[w] = <<>>
    BY <1>0, <1>1 DEF StockOwn, Drafted, AllLocked
  <2>2. Held(w)' \subseteq Needs(job'[w])
    BY <1>0, <1>1, <1>2, <1>4 DEF StockOwn
  <2>. QED  BY <1>1, <2>1, <2>2 DEF StockOwn
<1>6. ASSUME NEW v \in Workers, v # w PROVE StockOwn(v)'
  <2>1. Held(v)' = Held(v)
    BY <1>0, <1>1, <1>2, <1>6 DEF Held, StockShared, StockAssumption
  <2>2. /\ StockOwn(v) /\ job'[v] = job[v] /\ draft'[v] = draft[v] /\ movements' = movements
    BY <1>0, <1>1
  <2>3. draft[v] # <<>> => \A i \in Needs(job[v]) : InOrder(movements' \o draft[v][1].rows, i)
    BY <2>2 DEF StockOwn, Drafted, View
  <2>. QED  BY <2>1, <2>2, <2>3, StockStays
<1>. QED  BY <1>3, <1>5, <1>6, StockInParts

LEMMA InsertKeeps ==
  ASSUME StockAssumption, StockInv, NEW w \in Workers, Insert(w) PROVE StockInv'
<1>0. StockShared /\ \A v \in Workers : StockOwn(v)
  BY StockInParts
<1>. DEFINE s == Inserted(job[w])
            rows == SubSeq(s.log, Len(movements) + 1, Len(s.log))
<1>1. /\ AllLocked(w) /\ draft[w] = <<>> /\ assertSufficientStock(job[w])
      /\ draft' = [draft EXCEPT ![w] = <<[rows |-> rows, avg |-> s.avg]>>]
      /\ UNCHANGED <<job, holder, movements, avg, begun>>
  BY DEF Insert
<1>2. job[w] \in Jobs
  BY <1>0, <1>1 DEF StockShared, AllLocked
<1>3. /\ s.avg \in [Items -> Nat] /\ rows \in Seq(Row)
      /\ \A k \in DOMAIN rows : rows[k].item \in Needs(job[w])
      /\ \A i \in Items : InOrder(movements \o rows, i)
  BY <1>0, <1>1, <1>2, InsertedTells DEF StockShared
<1>. HIDE DEF s, rows
<1>4. StockShared'
  BY <1>0, <1>1 DEF StockShared
<1>5. ASSUME NEW v \in Workers PROVE Held(v)' = Held(v)
  BY <1>1 DEF Held
<1>6. StockOwn(w)'
  <2>. DEFINE d == [rows |-> rows, avg |-> s.avg]
  <2>1. draft'[w] = <<d>> /\ d.rows = rows /\ d.avg = s.avg
    BY <1>0, <1>1 DEF StockShared
  <2>2. draft'[w][1] = d /\ draft'[w] = <<[rows |-> draft'[w][1].rows, avg |-> draft'[w][1].avg]>>
    BY <2>1
  <2>. HIDE DEF d
  <2>3. AllLocked(w)'
    BY <1>1, <1>5 DEF AllLocked
  <2>4. \A i \in Needs(job'[w]) : InOrder(movements' \o draft'[w][1].rows, i)
    BY <1>0, <1>1, <1>2, <1>3, <2>1, <2>2, NeedsTell
  <2>5. Drafted(w)'
    BY <1>1, <1>3, <2>1, <2>2, <2>3, <2>4 DEF Drafted, View
  <2>. QED  BY <1>0, <1>1, <1>5, <2>5 DEF StockOwn
<1>7. ASSUME NEW v \in Workers, v # w PROVE StockOwn(v)'
  <2>1. /\ StockOwn(v) /\ job'[v] = job[v] /\ draft'[v] = draft[v] /\ movements' = movements
    BY <1>0, <1>1, <1>7 DEF StockShared
  <2>2. draft[v] # <<>> => \A i \in Needs(job[v]) : InOrder(movements' \o draft[v][1].rows, i)
    BY <2>1 DEF StockOwn, Drafted, View
  <2>. QED  BY <1>5, <2>1, <2>2, StockStays
<1>. QED  BY <1>4, <1>6, <1>7, StockInParts

\* What others have drafted is put after the rows that are committed; those are of
\* items that only the committing transaction holds.
LEMMA CommitStockKeeps ==
  ASSUME StockAssumption, StockInv, NEW w \in Workers, CommitStock(w) PROVE StockInv'
<1>0. StockShared /\ \A v \in Workers : StockOwn(v)
  BY StockInParts
<1>. DEFINE rows == draft[w][1].rows
<1>1. /\ draft[w] # <<>> /\ movements' = movements \o rows
      /\ avg' = [i \in Items |-> IF i \in Needs(job[w]) THEN draft[w][1].avg[i] ELSE avg[i]]
      /\ End(w)
  BY DEF CommitStock
<1>2. /\ Needs(job[w]) = Held(w) /\ rows \in Seq(Row) /\ draft[w][1].avg \in [Items -> Nat]
      /\ \A k \in DOMAIN rows : rows[k].item \in Needs(job[w])
      /\ \A i \in Needs(job[w]) : InOrder(movements \o rows, i)
  BY <1>0, <1>1 DEF StockOwn, Drafted, AllLocked, View
<1>3. /\ movements \in Seq(Row) /\ avg \in [Items -> Nat] /\ begun \in 0..MaxJobs
      /\ \A i \in Items : InOrder(movements, i)
  BY <1>0 DEF StockShared
<1>4. /\ job' \in [Workers -> Jobs \cup {NoJob}] /\ holder' \in [Items -> Workers \cup {Free}]
      /\ DOMAIN draft' = Workers /\ begun' = begun /\ StockOwn(w)'
      /\ \A v \in Workers \ {w} :
            job'[v] = job[v] /\ draft'[v] = draft[v] /\ Held(v)' = Held(v)
  BY <1>0, <1>1, StockEnds
<1>. HIDE DEF rows
<1>5. movements' \in Seq(Row) /\ avg' \in [Items -> Nat]
  BY <1>1, <1>2, <1>3
<1>6. ASSUME NEW i \in Items, i \notin Needs(job[w]) PROVE Agree(movements', movements, i)
  <2>1. \A k \in DOMAIN rows : rows[k].item # i
    BY <1>2, <1>6
  <2>. QED  BY <1>1, <1>2, <1>3, <2>1, AgreeTail
<1>7. ASSUME NEW i \in Items PROVE InOrder(movements', i)
  <2>1. CASE i \in Needs(job[w])
    BY <1>1, <1>2, <2>1
  <2>2. CASE i \notin Needs(job[w])
    BY <1>3, <1>6, <2>2, AgreeInOrder
  <2>. QED  BY <2>1, <2>2
<1>8. StockShared'
  BY <1>3, <1>4, <1>5, <1>7 DEF StockShared
<1>9. ASSUME NEW v \in Workers, v # w PROVE StockOwn(v)'
  <2>1. /\ StockOwn(v) /\ job'[v] = job[v] /\ draft'[v] = draft[v] /\ Held(v)' = Held(v)
    BY <1>0, <1>4, <1>9
  <2>2. ASSUME draft[v] # <<>>, NEW i \in Needs(job[v])
        PROVE  InOrder(movements' \o draft[v][1].rows, i)
    <3>1. /\ Needs(job[v]) = Held(v) /\ draft[v][1].rows \in Seq(Row)
          /\ InOrder(movements \o draft[v][1].rows, i)
      BY <2>1, <2>2 DEF StockOwn, Drafted, AllLocked, View
    <3>2. i \in Items /\ i \notin Needs(job[w])
      BY <1>2, <1>9, <3>1 DEF Held
    <3>3. Agree(movements' \o draft[v][1].rows, movements \o draft[v][1].rows, i)
      BY <1>3, <1>5, <1>6, <3>1, <3>2, AgreeSame
    <3>. QED  BY <3>1, <3>3, AgreeInOrder
  <2>. QED  BY <2>1, <2>2, StockStays
<1>. QED  BY <1>4, <1>8, <1>9, StockInParts

\* A transaction that fails leaves the log as it was.
LEMMA FailureKeeps ==
  ASSUME StockAssumption, StockInv, NEW w \in Workers, End(w), UNCHANGED <<movements, avg>>
  PROVE  StockInv'
<1>0. StockShared /\ \A v \in Workers : StockOwn(v)
  BY StockInParts
<1>1. /\ job' \in [Workers -> Jobs \cup {NoJob}] /\ holder' \in [Items -> Workers \cup {Free}]
      /\ DOMAIN draft' = Workers /\ begun' = begun /\ StockOwn(w)'
      /\ \A v \in Workers \ {w} :
            job'[v] = job[v] /\ draft'[v] = draft[v] /\ Held(v)' = Held(v)
  BY <1>0, StockEnds
<1>2. StockShared'
  BY <1>0, <1>1 DEF StockShared
<1>3. ASSUME NEW v \in Workers, v # w PROVE StockOwn(v)'
  <2>1. /\ StockOwn(v) /\ job'[v] = job[v] /\ draft'[v] = draft[v] /\ Held(v)' = Held(v)
        /\ movements' = movements
    BY <1>0, <1>1, <1>3
  <2>2. draft[v] # <<>> => \A i \in Needs(job[v]) : InOrder(movements' \o draft[v][1].rows, i)
    BY <2>1 DEF StockOwn, Drafted, View
  <2>. QED  BY <2>1, <2>2, StockStays
<1>. QED  BY <1>1, <1>2, <1>3, StockInParts

\* lockItems, assertSufficientStock, insertMovement: the log, and the log with the rows
\* that a transaction has inserted and not yet committed, keep the items it touches in
\* order, whatever other transactions commit.
THEOREM StockInvariant == StockAssumption /\ StockSpec => []StockInv
<1>. SUFFICES ASSUME StockAssumption PROVE StockSpec => []StockInv
  OBVIOUS
<1>1. StockInit => StockInv
  BY StockStarts
<1>2. StockInv /\ [StockNext]_stockVars => StockInv'
  <2>. SUFFICES ASSUME StockInv, [StockNext]_stockVars PROVE StockInv'
    OBVIOUS
  <2>1. CASE UNCHANGED stockVars
    <3>1. StockShared' <=> StockShared
      BY <2>1 DEF stockVars, StockShared
    <3>2. \A w \in Workers : StockOwn(w)' <=> StockOwn(w)
      BY <2>1 DEF stockVars, StockOwn, Drafted, AllLocked, Held, View
    <3>. QED  BY <3>1, <3>2, StockInParts
  <2>2. ASSUME NEW w \in Workers, Arrive(w) PROVE StockInv'
    BY <2>2, ArriveKeeps
  <2>3. ASSUME NEW w \in Workers, lockItems(w) PROVE StockInv'
    BY <2>3, lockItemsKeeps
  <2>4. ASSUME NEW w \in Workers, Insert(w) PROVE StockInv'
    BY <2>4, InsertKeeps
  <2>5. ASSUME NEW w \in Workers, CommitStock(w) PROVE StockInv'
    BY <2>5, CommitStockKeeps
  <2>6. ASSUME NEW w \in Workers, OutOfStock(w) PROVE StockInv'
    BY <2>6, FailureKeeps DEF OutOfStock
  <2>7. ASSUME NEW w \in Workers, RollBack(w) PROVE StockInv'
    BY <2>7, FailureKeeps DEF RollBack
  <2>. QED  BY <2>1, <2>2, <2>3, <2>4, <2>5, <2>6, <2>7 DEF StockNext
<1>. QED  BY <1>1, <1>2, PTL DEF StockSpec

\* shipStock, transferStock, adjustStock, assembleBom and the rest, however they race:
\* every shelf stays at zero or above (assertSufficientStock under lockItems), an item's
\* FIFO layers hold the units on hand (buildFifoLayers), and what came in at cost has
\* left at that cost or lies in a layer (consumptionUnitCost).
THEOREM ShelvesAddUp ==
  StockAssumption /\ StockSpec =>
    [](StockTypeOK /\ NeverBelowZero /\ LayersMatchStock /\ ValueConserved)
<1>. SUFFICES ASSUME StockAssumption
              PROVE  StockSpec =>
                       [](StockTypeOK /\ NeverBelowZero /\ LayersMatchStock /\ ValueConserved)
  OBVIOUS
<1>1. StockInv => StockTypeOK /\ NeverBelowZero /\ LayersMatchStock /\ ValueConserved
  <2>. SUFFICES ASSUME StockInv
                PROVE  StockTypeOK /\ NeverBelowZero /\ LayersMatchStock /\ ValueConserved
    OBVIOUS
  <2>1. StockTypeOK /\ \A i \in Items : InOrder(movements, i)
    BY DEF StockInv
  <2>2. ValueConserved
    <3>1. Fifo \subseteq Items
      BY DEF StockAssumption
    <3>. QED  BY <2>1, <3>1 DEF ValueConserved, InOrder
  <2>. QED  BY <2>1, <2>2 DEF NeverBelowZero, LayersMatchStock, InOrder
<1>. QED  BY <1>1, StockInvariant, PTL

---------------------------------------------------------------------------------
(* Stock: the documents, when requests come one at a time                    *)

\* What a line of a request does to its entry is told by the operation.
LEMMA LineServes ==
  ASSUME StockAssumption, NEW r \in Jobs, NEW k \in 1..Len(r.lines), NEW e \in Lines
  PROVE  LET ln == r.lines[k]
             units == IF ln.line = e THEN Abs(ln.qty) ELSE 0
         IN  /\ Abs(ln.qty) \in Nat
             /\ Filling(ln, e) = IF r.op = "fulfil" THEN units
                                 ELSE IF r.op = "return" THEN -units ELSE 0
             /\ Receiving(ln, e) = IF r.op = "receive" THEN units ELSE 0
<1>. DEFINE ln == r.lines[k]
<1>1. /\ r.op = "fulfil" => ln.type = "ship"
      /\ r.op = "return" => ln.type = "return_in"
      /\ r.op = "receive" => ln.type = "receive"
      /\ r.op \notin {"fulfil", "return", "receive"} => ln.line = NoLine
      /\ NoLine \notin Lines
  BY JobLines DEF StockAssumption
<1>2. /\ ln.type \in {"receive", "produce", "return_in"} => ln.qty > 0
      /\ ln.type \in {"ship", "transfer", "consume"} => ln.qty < 0
      /\ ln.qty \in Int
  BY JobLines, LineFields DEF Signed
<1>. HIDE DEF ln
<1>3. Abs(ln.qty) = IF ln.qty < 0 THEN -ln.qty ELSE ln.qty
  BY DEF Abs
<1>. DEFINE units == IF ln.line = e THEN Abs(ln.qty) ELSE 0
<1>4. /\ Abs(ln.qty) \in Nat
      /\ Filling(ln, e) = IF r.op = "fulfil" THEN units
                          ELSE IF r.op = "return" THEN -units ELSE 0
      /\ Receiving(ln, e) = IF r.op = "receive" THEN units ELSE 0
  <2>0. Abs(ln.qty) \in Nat
    BY <1>2, <1>3
  <2>1. CASE r.op = "fulfil"
    BY <1>1, <1>2, <1>3, <2>0, <2>1 DEF Filling, Receiving
  <2>2. CASE r.op = "return"
    BY <1>1, <1>2, <1>3, <2>0, <2>2 DEF Filling, Receiving
  <2>3. CASE r.op = "receive"
    BY <1>1, <1>2, <1>3, <2>0, <2>3 DEF Filling, Receiving
  <2>4. CASE r.op \notin {"fulfil", "return", "receive"}
    BY <1>1, <2>0, <2>4 DEF Filling, Receiving
  <2>. QED  BY <2>1, <2>2, <2>3, <2>4
<1>. QED  BY <1>4 DEF ln

\* What the first n lines bring on entry e.
Sizes(r) == [k \in DOMAIN r.lines |-> Abs(r.lines[k].qty)]

OnEntry(r, e, n) == {k \in 1..n : r.lines[k].line = e}

Allotted(r, e, n) == SumFunctionOnSet(Sizes(r), OnEntry(r, e, n))

LEMMA AllottedTells ==
  ASSUME StockAssumption, NEW r \in Jobs, NEW e \in Lines
  PROVE  /\ Allotted(r, e, 0) = 0 /\ Allotted(r, e, Len(r.lines)) = Allocated(r, e)
         /\ Allocated(r, e) \in Nat
         /\ e \notin EntriesOf(r) => Allocated(r, e) = 0
         /\ \A n \in 0..Len(r.lines) : Allotted(r, e, n) \in Nat
         /\ \A n \in 0..Len(r.lines) : n # Len(r.lines) =>
              Allotted(r, e, n + 1) = Allotted(r, e, n)
                + (IF r.lines[n + 1].line = e THEN Abs(r.lines[n + 1].qty) ELSE 0)
<1>0. /\ Len(r.lines) \in Nat /\ DOMAIN r.lines = 1..Len(r.lines)
      /\ \A k \in 1..Len(r.lines) : /\ Sizes(r)[k] = Abs(r.lines[k].qty) /\ Sizes(r)[k] \in Nat
                                    /\ r.lines[k] \in LineSet(r)
  BY JobLines, LineServes DEF Sizes
<1>1. Allotted(r, e, 0) = 0
  <2>1. OnEntry(r, e, 0) = {}
    BY DEF OnEntry
  <2>. QED  BY <2>1, SumEmpty, Zenon DEF Allotted
<1>2. Allotted(r, e, Len(r.lines)) = Allocated(r, e)
  BY <1>0 DEF Allotted, Allocated, Sizes, OnEntry
<1>3. ASSUME NEW n \in 0..Len(r.lines) PROVE Allotted(r, e, n) \in Nat
  <2>1. OnEntry(r, e, n) \in SUBSET (1..Len(r.lines))
    BY <1>0 DEF OnEntry
  <2>2. IsFiniteSet(1..Len(r.lines))
    BY <1>0, PlacesFinite
  <2>3. IsFiniteSet(OnEntry(r, e, n))
    BY <2>1, <2>2, FS_Subset
  <2>4. \A k \in OnEntry(r, e, n) : Sizes(r)[k] \in Nat
    BY <1>0, <2>1
  <2>. QED  BY <2>3, <2>4, SumNat DEF Allotted
<1>4. ASSUME NEW n \in 0..Len(r.lines), n # Len(r.lines)
      PROVE  Allotted(r, e, n + 1) = Allotted(r, e, n)
                + (IF r.lines[n + 1].line = e THEN Abs(r.lines[n + 1].qty) ELSE 0)
  <2>1. /\ n \in Nat /\ n + 1 \in 1..Len(r.lines) /\ 1..(n + 1) = (1..n) \cup {n + 1}
        /\ n + 1 \notin 1..n /\ \A k \in 1..n : k \in 1..Len(r.lines)
    BY <1>0, <1>4
  <2>2. OnEntry(r, e, n) \in SUBSET (1..n)
    BY DEF OnEntry
  <2>3. OnEntry(r, e, n + 1) =
          IF r.lines[n + 1].line = e THEN OnEntry(r, e, n) \cup {n + 1} ELSE OnEntry(r, e, n)
    BY <2>1 DEF OnEntry
  <2>4. n + 1 \in OnEntry(r, e, n + 1) <=> r.lines[n + 1].line = e
    BY <2>1, <2>2, <2>3
  <2>5. \A k \in OnEntry(r, e, n) : Sizes(r)[k] \in Int /\ Sizes(r)[k] = Sizes(r)[k]
    BY <1>0, <2>1, <2>2
  <2>6. Sizes(r)[n + 1] \in Int /\ Sizes(r)[n + 1] = Abs(r.lines[n + 1].qty)
    BY <1>0, <2>1
  <2>7. SumFunctionOnSet(Sizes(r), OnEntry(r, e, n + 1)) =
          SumFunctionOnSet(Sizes(r), OnEntry(r, e, n))
            + (IF n + 1 \in OnEntry(r, e, n + 1) THEN Sizes(r)[n + 1] ELSE 0)
    <3>1. \/ OnEntry(r, e, n + 1) = OnEntry(r, e, n)
          \/ OnEntry(r, e, n + 1) = OnEntry(r, e, n) \cup {n + 1}
      BY <2>3
    <3>. QED  BY <2>1, <2>2, <2>5, <2>6, <3>1, GrownSum
  <2>. QED  BY <2>4, <2>6, <2>7 DEF Allotted
<1>5. Allocated(r, e) \in Nat
  <2>1. Len(r.lines) \in 0..Len(r.lines)
    BY <1>0
  <2>. QED  BY <1>2, <1>3, <2>1
<1>6. ASSUME e \notin EntriesOf(r) PROVE Allocated(r, e) = 0
  <2>1. e # NoLine
    BY DEF StockAssumption
  <2>2. OnEntry(r, e, Len(r.lines)) = {}
    BY <1>0, <1>6, <2>1 DEF OnEntry, EntriesOf
  <2>. QED  BY <1>2, <2>2, SumEmpty, Zenon DEF Allotted
<1>. QED  BY <1>1, <1>2, <1>3, <1>4, <1>5, <1>6

LEMMA EntriesRead ==
  ASSUME NEW log \in Seq(Row), NEW e
  PROVE  Fulfilled(log, e) \in Int /\ Received(log, e) \in Int
<1>1. ASSUME NEW types PROVE SumFunctionOnSet(Quantities(log), OfEntry(log, e, types)) \in Int
  <2>1. /\ OfEntry(log, e, types) \in SUBSET (1..Len(log))
        /\ \A k \in OfEntry(log, e, types) : Quantities(log)[k] \in Int
    <3>1. DOMAIN log = 1..Len(log) /\ \A k \in DOMAIN log : log[k] \in Row
      OBVIOUS
    <3>. QED  BY <3>1, RowFields DEF OfEntry, Quantities
  <2>2. IsFiniteSet(1..Len(log))
    BY FS_Interval
  <2>3. IsFiniteSet(OfEntry(log, e, types))
    BY <2>1, <2>2, FS_Subset
  <2>. QED  BY <2>1, <2>3, SumType
<1>. QED  BY <1>1 DEF Fulfilled, Received

\* What a request does to the documents, line by line.
FilledBy(r, e, n) ==
    IF r.op = "fulfil" THEN Allotted(r, e, n)
    ELSE IF r.op = "return" THEN -Allotted(r, e, n) ELSE 0

ReceivedBy(r, e, n) == IF r.op = "receive" THEN Allotted(r, e, n) ELSE 0

LEMMA DocumentsProgress ==
  ASSUME StockAssumption, NEW r \in Jobs, movements \in Seq(Row), avg \in [Items -> Nat],
         \A i \in Items : InOrder(movements, i), assertSufficientStock(r), NEW e \in Lines
  PROVE  /\ Fulfilled(Inserted(r).log, e) = Fulfilled(movements, e) + FilledBy(r, e, Len(r.lines))
         /\ Received(Inserted(r).log, e) = Received(movements, e) + ReceivedBy(r, e, Len(r.lines))
<1>. DEFINE N == Len(r.lines)
            P == {n \in 0..N :
                    /\ Fulfilled(LinesWritten(r)[n].log, e)
                         = Fulfilled(movements, e) + FilledBy(r, e, n)
                    /\ Received(LinesWritten(r)[n].log, e)
                         = Received(movements, e) + ReceivedBy(r, e, n)}
<1>0. N \in Nat /\ N \in 0..N /\ LinesWritten(r)[0].log = movements
  BY JobLines, WritesStep DEF Untouched
<1>1. \A n \in 0..N : Progress(r, n)
  BY LinesProgress
<1>2. Fulfilled(movements, e) \in Int /\ Received(movements, e) \in Int
  BY EntriesRead
<1>3. 0 \in P
  <2>1. FilledBy(r, e, 0) = 0 /\ ReceivedBy(r, e, 0) = 0
    BY AllottedTells DEF FilledBy, ReceivedBy
  <2>. QED  BY <1>0, <1>2, <2>1
<1>4. ASSUME NEW n \in 0..N, n # N, n \in P PROVE n + 1 \in P
  <2>. DEFINE s == LinesWritten(r)[n]
              ln == r.lines[n + 1]
              after == LinesWritten(r)[n + 1]
              units == IF ln.line = e THEN Abs(ln.qty) ELSE 0
  <2>0. n + 1 \in 1..N /\ n + 1 \in 0..N /\ (n + 1) - 1 = n /\ n + 1 # 0
    BY <1>0, <1>4
  <2>1. WrittenFor(s, ln, after)
    <3>1. WrittenFor(LinesWritten(r)[(n + 1) - 1], r.lines[n + 1], LinesWritten(r)[n + 1])
      BY <1>1, <2>0 DEF Progress
    <3>. QED  BY <2>0, <3>1
  <2>2. /\ Abs(ln.qty) \in Nat
        /\ Filling(ln, e) = IF r.op = "fulfil" THEN units
                            ELSE IF r.op = "return" THEN -units ELSE 0
        /\ Receiving(ln, e) = IF r.op = "receive" THEN units ELSE 0
    BY <2>0, LineServes
  <2>3. Allotted(r, e, n) \in Nat /\ Allotted(r, e, n + 1) = Allotted(r, e, n) + units
    BY <1>4, AllottedTells
  <2>4. /\ Fulfilled(s.log, e) = Fulfilled(movements, e) + FilledBy(r, e, n)
        /\ Received(s.log, e) = Received(movements, e) + ReceivedBy(r, e, n)
    BY <1>4
  <2>. HIDE DEF s, after, ln
  <2>5. /\ Fulfilled(after.log, e) = Fulfilled(s.log, e) + Filling(ln, e)
        /\ Received(after.log, e) = Received(s.log, e) + Receiving(ln, e)
    BY <2>1 DEF WrittenFor
  <2>6. units \in Nat
    BY <2>2
  <2>. HIDE DEF units
  <2>7. /\ Fulfilled(after.log, e) = Fulfilled(movements, e) + FilledBy(r, e, n + 1)
        /\ Received(after.log, e) = Received(movements, e) + ReceivedBy(r, e, n + 1)
    <3>1. /\ FilledBy(r, e, n + 1) = FilledBy(r, e, n) + Filling(ln, e)
          /\ FilledBy(r, e, n) \in Int /\ Filling(ln, e) \in Int
      <4>1. CASE r.op = "fulfil"
        BY <2>2, <2>3, <2>6, <4>1 DEF FilledBy
      <4>2. CASE r.op = "return"
        BY <2>2, <2>3, <2>6, <4>2 DEF FilledBy
      <4>3. CASE r.op \notin {"fulfil", "return"}
        BY <2>2, <4>3 DEF FilledBy
      <4>. QED  BY <4>1, <4>2, <4>3
    <3>2. /\ ReceivedBy(r, e, n + 1) = ReceivedBy(r, e, n) + Receiving(ln, e)
          /\ ReceivedBy(r, e, n) \in Int /\ Receiving(ln, e) \in Int
      <4>1. CASE r.op = "receive"
        BY <2>2, <2>3, <2>6, <4>1 DEF ReceivedBy
      <4>2. CASE r.op # "receive"
        BY <2>2, <4>2 DEF ReceivedBy
      <4>. QED  BY <4>1, <4>2
    <3>. QED  BY <1>2, <2>4, <2>5, <3>1, <3>2
  <2>. QED  BY <2>0, <2>7 DEF after
<1>5. N \in P
  <2>1. \A n \in 0..N : n # N /\ n \in P => n + 1 \in P
    BY <1>4
  <2>. HIDE DEF P, N
  <2>. QED  BY <1>0, <1>3, <2>1, UpTo
<1>. QED  BY <1>5 DEF Inserted

\* What passed the check before the locks keeps the documents when it is inserted on
\* the log that it was checked against.
LEMMA DocumentsInserted ==
  ASSUME StockAssumption, NEW r \in Jobs, movements \in Seq(Row), avg \in [Items -> Nat],
         \A i \in Items : InOrder(movements, i), assertSufficientStock(r),
         validateAllocations(r), DocumentsKept(movements)
  PROVE  DocumentsKept(Inserted(r).log)
<1>. SUFFICES ASSUME NEW e \in Lines
              PROVE  /\ Fulfilled(Inserted(r).log, e) \in 0..Quantity[e]
                     /\ Received(Inserted(r).log, e) <= Quantity[e]
  BY DEF DocumentsKept
<1>. DEFINE is == Inserted(r).log
<1>1. /\ Fulfilled(is, e) = Fulfilled(movements, e) + FilledBy(r, e, Len(r.lines))
      /\ Received(is, e) = Received(movements, e) + ReceivedBy(r, e, Len(r.lines))
  BY DocumentsProgress
<1>. HIDE DEF is
<1>2. /\ Fulfilled(movements, e) \in 0..Quantity[e] /\ Received(movements, e) <= Quantity[e]
      /\ Received(movements, e) \in Int /\ Quantity[e] \in Nat
  BY EntriesRead DEF DocumentsKept, StockAssumption
<1>3. /\ Allotted(r, e, Len(r.lines)) = Allocated(r, e) /\ Allocated(r, e) \in Nat
      /\ e \notin EntriesOf(r) => Allocated(r, e) = 0
  BY AllottedTells
<1>4. e \in EntriesOf(r) =>
        /\ r.op = "fulfil"  => Fulfilled(movements, e) + Allocated(r, e) <= Quantity[e]
        /\ r.op = "return"  => Allocated(r, e) <= Fulfilled(movements, e)
        /\ r.op = "receive" => Received(movements, e) + Allocated(r, e) <= Quantity[e]
  BY DEF validateAllocations
<1>5. /\ Fulfilled(is, e) \in 0..Quantity[e] /\ Received(is, e) <= Quantity[e]
  BY <1>1, <1>2, <1>3, <1>4 DEF FilledBy, ReceivedBy
<1>. QED  BY <1>5 DEF is

\* The documents, of each transaction.
DocumentsOwn(w) ==
    /\ job[w] # NoJob => validateAllocations(job[w])
    /\ draft[w] # <<>> => DocumentsKept(View(w))

LEMMA DocumentsInParts ==
  /\ DocumentsInv <=> DocumentsKept(movements) /\ \A w \in Workers : DocumentsOwn(w)
  /\ DocumentsInv' <=> DocumentsKept(movements)' /\ \A w \in Workers : DocumentsOwn(w)'
BY DEF DocumentsInv, DocumentsOwn

\* While the log stays, so does what is said of a transaction that does not move.
LEMMA DocumentsStay ==
  ASSUME NEW v \in Workers, DocumentsOwn(v), movements' = movements,
         job'[v] = job[v], draft'[v] = draft[v]
  PROVE  DocumentsOwn(v)'
BY DEF DocumentsOwn, validateAllocations, View

LEMMA NothingServed == ASSUME StockAssumption PROVE DocumentsKept(<<>>)
<1>1. ASSUME NEW e \in Lines PROVE Fulfilled(<<>>, e) = 0 /\ Received(<<>>, e) = 0
  <2>1. \A types : OfEntry(<<>>, e, types) = {}
    BY DEF OfEntry
  <2>2. \A types : SumFunctionOnSet(Quantities(<<>>), OfEntry(<<>>, e, types)) = 0
    BY <2>1, SumEmpty, Zenon
  <2>. QED  BY <2>2 DEF Fulfilled, Received
<1>2. \A e \in Lines : Quantity[e] \in Nat
  BY DEF StockAssumption
<1>. QED  BY <1>1, <1>2 DEF DocumentsKept

LEMMA DocumentsStart == ASSUME StockAssumption, StockInit PROVE DocumentsInv
BY NothingServed DEF StockInit, DocumentsInv

LEMMA InsertKeepsDocuments ==
  ASSUME StockAssumption, StockInv, DocumentsInv, NEW w \in Workers, Insert(w)
  PROVE  DocumentsInv'
<1>0. /\ StockShared /\ DocumentsKept(movements) /\ \A v \in Workers : DocumentsOwn(v)
  BY StockInParts, DocumentsInParts
<1>. DEFINE s == Inserted(job[w])
            rows == SubSeq(s.log, Len(movements) + 1, Len(s.log))
<1>1. /\ AllLocked(w) /\ assertSufficientStock(job[w])
      /\ draft' = [draft EXCEPT ![w] = <<[rows |-> rows, avg |-> s.avg]>>]
      /\ UNCHANGED <<job, holder, movements, avg, begun>>
  BY DEF Insert
<1>2. job[w] \in Jobs /\ job[w] # NoJob
  BY <1>0, <1>1 DEF StockShared, AllLocked
<1>3. s.log = movements \o rows
  BY <1>0, <1>1, <1>2, InsertedTells DEF StockShared
<1>4. DocumentsKept(s.log)
  BY <1>0, <1>1, <1>2, DocumentsInserted DEF StockShared, DocumentsOwn
<1>. HIDE DEF s, rows
<1>5. DocumentsOwn(w)'
  <2>. DEFINE d == [rows |-> rows, avg |-> s.avg]
  <2>1. draft'[w] = <<d>> /\ d.rows = rows
    BY <1>0, <1>1 DEF StockShared
  <2>2. draft'[w][1] = d
    BY <2>1
  <2>. HIDE DEF d
  <2>3. DocumentsKept(View(w))'
    BY <1>1, <1>3, <1>4, <2>1, <2>2 DEF View
  <2>4. validateAllocations(job[w])'
    BY <1>0, <1>1, <1>2 DEF DocumentsOwn, validateAllocations
  <2>. QED  BY <2>3, <2>4 DEF DocumentsOwn
<1>6. ASSUME NEW v \in Workers, v # w PROVE DocumentsOwn(v)'
  <2>1. movements' = movements /\ job'[v] = job[v] /\ draft'[v] = draft[v]
    BY <1>0, <1>1, <1>6 DEF StockShared
  <2>. QED  BY <1>0, <2>1, DocumentsStay
<1>. QED  BY <1>0, <1>1, <1>5, <1>6, DocumentsInParts

\* Nobody else has passed the check when a transaction commits.
LEMMA CommitKeepsDocuments ==
  ASSUME StockAssumption, StockInv, DocumentsInv, OneJobAtATime, NEW w \in Workers, CommitStock(w)
  PROVE  DocumentsInv'
<1>0. /\ StockShared /\ \A v \in Workers : StockOwn(v)
      /\ DocumentsKept(movements) /\ \A v \in Workers : DocumentsOwn(v)
  BY StockInParts, DocumentsInParts
<1>1. draft[w] # <<>> /\ movements' = movements \o draft[w][1].rows /\ End(w)
  BY DEF CommitStock
<1>2. /\ draft'[w] = <<>> /\ job'[w] = NoJob
      /\ \A v \in Workers \ {w} : job'[v] = job[v] /\ draft'[v] = draft[v]
  BY <1>0, <1>1, StockEnds DEF End, StockShared
<1>3. DocumentsKept(movements)'
  BY <1>0, <1>1 DEF DocumentsOwn, View
<1>4. DocumentsOwn(w)'
  BY <1>2 DEF DocumentsOwn
<1>5. ASSUME NEW v \in Workers, v # w PROVE DocumentsOwn(v)'
  <2>1. job[w] # NoJob
    BY <1>0, <1>1 DEF StockOwn, Drafted, AllLocked
  <2>2. job[v] = NoJob
    BY <1>5, <2>1 DEF OneJobAtATime
  <2>3. draft[v] = <<>>
    BY <1>0, <2>2 DEF StockOwn, Drafted, AllLocked
  <2>. QED  BY <1>2, <1>5, <2>2, <2>3 DEF DocumentsOwn
<1>. QED  BY <1>3, <1>4, <1>5, DocumentsInParts

LEMMA FailureKeepsDocuments ==
  ASSUME StockAssumption, StockInv, DocumentsInv, NEW w \in Workers, End(w),
         UNCHANGED <<movements, avg>>
  PROVE  DocumentsInv'
<1>0. /\ StockShared /\ DocumentsKept(movements) /\ \A v \in Workers : DocumentsOwn(v)
  BY StockInParts, DocumentsInParts
<1>1. /\ draft'[w] = <<>> /\ job'[w] = NoJob
      /\ \A v \in Workers \ {w} : job'[v] = job[v] /\ draft'[v] = draft[v]
  BY <1>0, StockEnds DEF End, StockShared
<1>2. DocumentsOwn(w)'
  BY <1>1 DEF DocumentsOwn
<1>3. \A v \in Workers \ {w} : DocumentsOwn(v)'
  BY <1>0, <1>1, DocumentsStay
<1>. QED  BY <1>0, <1>2, <1>3, DocumentsInParts

LEMMA DocumentsStep ==
  ASSUME StockAssumption, StockInv, DocumentsInv, OneJobAtATime, [StockNext]_stockVars
  PROVE  DocumentsInv'
<1>0. /\ StockShared /\ DocumentsKept(movements) /\ \A v \in Workers : DocumentsOwn(v)
  BY StockInParts, DocumentsInParts
<1>1. CASE UNCHANGED stockVars
  <2>1. \A v \in Workers : DocumentsOwn(v)'
    BY <1>0, <1>1, DocumentsStay DEF stockVars
  <2>. QED  BY <1>0, <1>1, <2>1, DocumentsInParts DEF stockVars
<1>2. ASSUME NEW w \in Workers, Arrive(w) PROVE DocumentsInv'
  <2>1. PICK r \in Jobs : /\ job[w] = NoJob /\ validateAllocations(r)
                          /\ job' = [job EXCEPT ![w] = r]
                          /\ UNCHANGED <<draft, holder, movements, avg>>
    BY <1>2 DEF Arrive
  <2>2. DocumentsOwn(w)'
    <3>1. job'[w] = r
      BY <1>0, <2>1 DEF StockShared
    <3>2. draft[w] = <<>>
      BY <2>1, StockInParts DEF StockOwn, Drafted, AllLocked
    <3>. QED  BY <2>1, <3>1, <3>2 DEF DocumentsOwn, validateAllocations
  <2>3. ASSUME NEW v \in Workers, v # w PROVE DocumentsOwn(v)'
    BY <1>0, <2>1, <2>3, DocumentsStay DEF StockShared
  <2>. QED  BY <1>0, <2>1, <2>2, <2>3, DocumentsInParts
<1>3. ASSUME NEW w \in Workers, lockItems(w) PROVE DocumentsInv'
  <2>1. UNCHANGED <<job, draft, movements>>
    BY <1>3 DEF lockItems
  <2>2. \A v \in Workers : DocumentsOwn(v)'
    BY <1>0, <2>1, DocumentsStay
  <2>. QED  BY <1>0, <2>1, <2>2, DocumentsInParts
<1>4. ASSUME NEW w \in Workers, Insert(w) PROVE DocumentsInv'
  BY <1>4, InsertKeepsDocuments
<1>5. ASSUME NEW w \in Workers, CommitStock(w) PROVE DocumentsInv'
  BY <1>5, CommitKeepsDocuments
<1>6. ASSUME NEW w \in Workers, OutOfStock(w) PROVE DocumentsInv'
  BY <1>6, FailureKeepsDocuments DEF OutOfStock
<1>7. ASSUME NEW w \in Workers, RollBack(w) PROVE DocumentsInv'
  BY <1>7, FailureKeepsDocuments DEF RollBack
<1>. QED  BY <1>1, <1>2, <1>3, <1>4, <1>5, <1>6, <1>7 DEF StockNext

\* fulfillInvoiceLines, returnToStock, receiveFromBill: an entry is never fulfilled
\* beyond its invoice, returned beyond what was fulfilled, or received beyond its bill,
\* for any requests that come one at a time, split into any lines and locations.
THEOREM DocumentsAddUp ==
  StockAssumption /\ StockSpec /\ []OneJobAtATime =>
    [](FulfilledWithinInvoice /\ ReturnedWithinFulfilled /\ ReceivedWithinBill)
<1>. SUFFICES ASSUME StockAssumption
              PROVE  StockSpec /\ []OneJobAtATime =>
                       [](FulfilledWithinInvoice /\ ReturnedWithinFulfilled /\ ReceivedWithinBill)
  OBVIOUS
<1>1. StockInit => DocumentsInv
  BY DocumentsStart
<1>2. StockInv /\ DocumentsInv /\ OneJobAtATime /\ [StockNext]_stockVars => DocumentsInv'
  BY DocumentsStep
<1>3. DocumentsInv => FulfilledWithinInvoice /\ ReturnedWithinFulfilled /\ ReceivedWithinBill
  <2>. SUFFICES ASSUME DocumentsInv, NEW e \in Lines
                PROVE  /\ Fulfilled(movements, e) <= Quantity[e] /\ Fulfilled(movements, e) >= 0
                       /\ Received(movements, e) <= Quantity[e]
    BY DEF FulfilledWithinInvoice, ReturnedWithinFulfilled, ReceivedWithinBill
  <2>. QED  BY DEF DocumentsInv, DocumentsKept, StockAssumption
<1>. QED  BY <1>1, <1>2, <1>3, StockInvariant, PTL DEF StockSpec
=================================================================================
