-------------------------- MODULE MCFilterCompile --------------------------
(* A small instance of FilterCompile. *)
EXTENDS FilterCompile

MCLens == {2, 7, 9}
=============================================================================
