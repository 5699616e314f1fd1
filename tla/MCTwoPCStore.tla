---------------------------- MODULE MCTwoPCStore ----------------------------
(* Values for the constants of TwoPCStore. *)
EXTENDS TwoPCStore, TLC

CONSTANTS b1, b2, s1, s2, t1, t2, th1, th2, p1

ConstantId == [s \in Store |-> t1]
DistinctIds == s1 :> t1 @@ s2 :> t2

OnePath == [s \in Store |-> p1]
OnlyStores == [s \in Store |-> "store"]
StoreThenDelete == s1 :> "store" @@ s2 :> "delete"

OneThread == [s \in Store |-> th1]
TwoThreads == s1 :> th1 @@ s2 :> th2

BackendSymmetry == Permutations(Backend)
=============================================================================
