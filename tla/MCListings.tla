----------------------------- MODULE MCListings -----------------------------
(* A small instance of Listings for TLC. *)
EXTENDS Listings, TLC

CONSTANTS shirt, shoe, i1, i2, i3, q1, q2, q3

\* Products, images and requests are interchangeable (the properties are
\* safety properties).
Interchangeable == Permutations(Product) \cup Permutations(Image) \cup Permutations(Request)

=============================================================================
