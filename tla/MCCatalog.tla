----------------------------- MODULE MCCatalog -----------------------------
(***************************************************************************)
(* A product that is new or seeded, whose stock rises and then falls.      *)
(***************************************************************************)
EXTENDS Catalog, TLC

MCMovements == <<1, 0>>
MCSeeded == {Product(1, 0)}
AdminSymmetry == Permutations(Admins)
=============================================================================
