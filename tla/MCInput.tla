------------------------------ MODULE MCInput -------------------------------
(* Rings of a few cells and two to three different keys for module Input. *)
EXTENDS Input
=============================================================================
