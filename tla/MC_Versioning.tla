---------------------------- MODULE MC_Versioning ---------------------------
(* A small instance of Versioning: one item, two operators, two contents.    *)
EXTENDS Versioning

CONSTANTS e1, e2, i1, c1, c2
=============================================================================
