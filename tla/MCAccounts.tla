----------------------------- MODULE MCAccounts -----------------------------
(***************************************************************************)
(* One account, whose email is written in two ways.                        *)
(***************************************************************************)
EXTENDS Accounts, TLC

CONSTANTS john, John, p1, p2, k1, k2, k3, a1, a2, a3, b1, b2, i1, i2, r1, r2

InLowerCase == [e \in Emails |-> john]

Symmetric ==
  Permutations(Passwords) \cup Permutations(Keys) \cup Permutations(RequestTokens) \cup Permutations(ResetTokens)
    \cup Permutations(InviteTokens) \cup Permutations(Requests)
=============================================================================
