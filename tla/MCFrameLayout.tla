--------------------------- MODULE MCFrameLayout ---------------------------
(* FrameLayout on small instances. *)
EXTENDS FrameLayout, TLC

\* QuadAddr objects are only told apart by identity.
Symmetry == Permutations(Addr)
=============================================================================
