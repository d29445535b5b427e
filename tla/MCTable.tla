------------------------------ MODULE MCTable ------------------------------
(***************************************************************************)
(* A small instance of Table for TLC.                                      *)
(***************************************************************************)
EXTENDS Table, TLC

CONSTANTS k1, k2, k3

\* All three start at the last slot of the smallest table or next to it: k1 and
\* k2 collide there and wrap around into k3's home; in 16 slots k2 is parted.
MCHash == k1 :> 7 @@ k2 :> 15 @@ k3 :> 16
============================================================================
