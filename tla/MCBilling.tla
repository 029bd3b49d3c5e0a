----------------------------- MODULE MCBilling -----------------------------
(* Subscriptions and workers are interchangeable.                          *)
EXTENDS Billing, TLC

BillingSymmetry == Permutations(Sub) \cup Permutations(Worker)
============================================================================
