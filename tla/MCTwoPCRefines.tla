--------------------------- MODULE MCTwoPCRefines ---------------------------
(* The values of MCTwoPCStore for the constants of TwoPCRefines. *)
EXTENDS TwoPCRefines, MCTwoPCStore
=============================================================================
