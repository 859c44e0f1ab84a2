---------------------------- MODULE MCHandleTable ----------------------------
(* A small instance of HandleTable: six handles for five keys: three *)
(* keys share a bucket of four, two of them one hash.                      *)
EXTENDS HandleTable, TLC

CONSTANTS h1, h2, h3, h4, h5, h6, k1, k2, k3, k4, k5

MCHandles == {h1, h2, h3, h4, h5, h6}
MCKeys == {k1, k2, k3, k4, k5}
MCKeyOf == h1 :> k1 @@ h2 :> k2 @@ h3 :> k3 @@ h4 :> k4 @@ h5 :> k5 @@ h6 :> k2
MCHash == k1 :> 0 @@ k2 :> 4 @@ k3 :> 4 @@ k4 :> 1 @@ k5 :> 3
=============================================================================
