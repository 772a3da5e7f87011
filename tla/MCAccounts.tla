----------------------------- MODULE MCAccounts -----------------------------
(* A small instance of Accounts for TLC. *)
EXTENDS Accounts

CONSTANTS k1, k2, k3, home, work, r1, r2

=============================================================================
