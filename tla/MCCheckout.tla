----------------------------- MODULE MCCheckout -----------------------------
(* An instance of Checkout for TLC. *)
EXTENDS Checkout

\* Two registrations of one service: the owner moves it to another endpoint and chain,
\* and out of the directory.
MCRegistration ==
    {[endpoint |-> "e1", chain |-> "c1", version |-> "v1", listed |-> TRUE],
     [endpoint |-> "e2", chain |-> "c2", version |-> "v2", listed |-> FALSE]}

\* Terms of two merchants, two within the customer's limit and one beyond it.
MCTerms == {[cost |-> 95, feeRateBps |-> 500, merchant |-> "m1"],
            [cost |-> 76, feeRateBps |-> 500, merchant |-> "m2"],
            [cost |-> 190, feeRateBps |-> 500, merchant |-> "m2"]}
=============================================================================
