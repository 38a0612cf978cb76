---------------------------- MODULE MCWorkOrders ----------------------------
(* Small instances of WorkOrders for TLC. *)
EXTENDS WorkOrders, TLC

CONSTANTS a1, a2, w1, w2, p1

OrderSymmetry == Permutations(Orders)
=============================================================================
