---------------------------- MODULE MCEndpoints -----------------------------
(***************************************************************************)
(* A drive with a collection a and its member ab, two UDP clients, and a   *)
(* VPN whose bytes have four values.                                       *)
(***************************************************************************)
EXTENDS Endpoints, TLC

CONSTANTS root, a, ab, t1, t2, t3, t4, r1, r2, u1, u2, s1, s2, v1, v2

DriveUp == [n \in Names |-> {n, root} \cup (IF n = ab THEN {a} ELSE {})]

Symmetric == Permutations(Tokens) \cup Permutations(Requests)
=============================================================================
