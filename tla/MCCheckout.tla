----------------------------- MODULE MCCheckout -----------------------------
(* A coordinated set of three images: one is copied from elsewhere, one is  *)
(* staged, and one is looked up in a mirror.                                *)
EXTENDS Checkout, TLC

CONSTANTS t1, t2, d0, d1, s1, s2

MCVia     == <<"copy", "staging", "plain">>
MCMode    == <<"lazycat", "lazycat", "mirror">>
MCMatch   == [i \in Images |-> TRUE]
MCTag     == (s1 :> t1) @@ (s2 :> t2)
MCVersion == (s1 :> 2) @@ (s2 :> 2)

Tagged == [at |-> "source", tag |-> t1, pin |-> NoDigest]
MCOld  == {[runtime |-> [at |-> "store", tag |-> t1, pin |-> d0],
            upstream |-> [Tagged EXCEPT !.pin = d0]],
           [runtime |-> Tagged, upstream |-> NoRef]}
=============================================================================
