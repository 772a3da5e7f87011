------------------------------ MODULE MCReviews ------------------------------
(* Small instances of Reviews for TLC. *)
EXTENDS Reviews, TLC

CONSTANTS ann, bob, t1, t2, mod1, f1, f2

\* Only safety properties are checked: customers, tabs and photos are
\* interchangeable.
Interchangeable == Permutations(Customer) \cup Permutations(Tab) \cup Permutations(Photo)

=============================================================================
