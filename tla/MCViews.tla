------------------------------ MODULE MCViews ------------------------------
(* Enforcement with the views of the administrator on a small instance:    *)
(* the list shows one row, /api/blocked looks at two.                      *)
EXTENDS Views
=============================================================================
