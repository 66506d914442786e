----------------------------- MODULE MCScheduledExec -----------------------------
(* Instances of ScheduledExec for TLC. *)
EXTENDS ScheduledExec, TLC

KindM == 1 :> "execute" @@ 2 :> "execute" @@ 3 :> "execute" @@ 4 :> "skip"
         @@ 5 :> "update" @@ 6 :> "delete" @@ 7 :> "update"
DateM == [r \in 1 .. 7 |-> IF r \in {1, 2} THEN 1 ELSE 2]
RemainingM == {-1, 1, 2}
Thirds == 1 :> 3335 @@ 2 :> 3335 @@ 3 :> -6670
AmountsM == [r \in 1 .. 7 |-> Thirds]
\* Cents that balance, thirds that round to a cent too much, and a native
\* template that does not balance at all.
ImportedM == {1 :> 100 @@ 2 :> -100, Thirds, 1 :> 100 @@ 2 :> -150}

Unlimited == {-1}
KindU == 1 :> "update" @@ 2 :> "update" @@ 3 :> "execute"
DateU == [r \in 1 .. 3 |-> 1]
AmountsU == [r \in 1 .. 3 |-> 1 :> 200 @@ 2 :> -200]
ImportedU == {1 :> 100 @@ 2 :> -100}
=================================================================================
