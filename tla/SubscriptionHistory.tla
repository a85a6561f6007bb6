------------------------ MODULE SubscriptionHistory ------------------------
(* What the webhook of Stripe promises: the Subscription row of an         *)
(* organization shows some state Stripe's subscription has had, and only   *)
(* ever moves on to a later one.                                           *)
EXTENDS Naturals, Sequences

CONSTANT State  \* states of a subscription at Stripe

VARIABLES
  past,  \* the states it has had, in order
  at     \* which of them the row shows, 0 before it shows any

TypeOK == past \in Seq(State) /\ at \in 0 .. Len(past)

Init == past = <<>> /\ at = 0

Change == \E x \in State : past' = Append(past, x) /\ UNCHANGED at

CatchUp == at' \in (at + 1) .. Len(past) /\ UNCHANGED past

Next == Change \/ CatchUp

Spec == Init /\ [][Next]_<<past, at>>

=============================================================================
