-------------------------- MODULE MCPayFastAttempts --------------------------
(* Small instances of PayFastAttempts for TLC. *)
EXTENDS PayFastAttempts, TLC

CONSTANTS o1, o2, a1, a2, a3, a4, t1, t2, t3, t4

AttemptSymmetry == Permutations(Order) \union Permutations(Attempt)
                   \union Permutations(Transaction)
=============================================================================
