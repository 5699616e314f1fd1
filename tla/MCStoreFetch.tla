---------------------------- MODULE MCStoreFetch ----------------------------
(* The values of MCTwoPCStore for the constants of StoreFetch. *)
EXTENDS StoreFetch, MCTwoPCStore
=============================================================================
