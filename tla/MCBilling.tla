------------------------------ MODULE MCBilling ------------------------------
(* An instance of Billing for TLC. *)
EXTENDS Billing, TLC

CONSTANTS u1, u2, k1, k2, c1, c2, g1, g2, g3

MCOwnerOf == (k1 :> u1) @@ (k2 :> u1)
MCBuyerOf == (c1 :> u1) @@ (c2 :> u2)
MCCredOf == (g1 :> k1) @@ (g2 :> u1) @@ (g3 :> None)

(* The loss of a subscription, told by its customer; a payment, told by    *)
(* the user; and an update that says nothing but whom it is for.           *)
MCEvents ==
    { [user |-> None, customer |-> c1, type |-> "deleted", status |-> "", until |-> 0],
      [user |-> u1, customer |-> None, type |-> "payment_succeeded", status |-> "", until |-> 2],
      [user |-> u2, customer |-> c1, type |-> "updated", status |-> "past_due", until |-> 1] }

(* Webhook threads run the same code and share nothing but the tables. *)
Alike == Permutations(Handlers)
=============================================================================
