--------------------------- MODULE MCCoordinator ---------------------------
(* Values for the constants of Coordinator. *)
EXTENDS Coordinator, TLC

CONSTANTS b1, b2, s1, s2, t1, t2, th1, th2

\* getTid as it is in the source: every call gets the same id.
ConstantId == [s \in Store |-> t1]

\* Ids that differ from call to call, as the clock of getTid's disabled return gives.
DistinctIds == s1 :> t1 @@ s2 :> t2

OneThread == [s \in Store |-> th1]
TwoThreads == s1 :> th1 @@ s2 :> th2

BackendSymmetry == Permutations(Backend)
=============================================================================
