------------------------------- MODULE MCAuth -------------------------------
(* One customer and the bootstrap admin, two requests at a time.            *)
EXTENDS Auth, TLC
CONSTANTS h1, h2

MCHandlers == {h1, h2}
HandlerSymmetry == Permutations(MCHandlers)
=============================================================================
