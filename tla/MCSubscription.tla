----------------------------- MODULE MCSubscription -----------------------------
(* Subscription on small instances. *)
EXTENDS Subscription, TLC

\* A shortened DUNNING_DAYS.
One == <<1>>

===============================================================================
