---------------------------- MODULE MCContainers ----------------------------
(***************************************************************************)
(* Elements for Containers.  The last two have one key, so that one        *)
(* replaces the other.  Two programs: in the first, keys collide in 2      *)
(* buckets and no longer in 4; in the second all keys collide in any of    *)
(* these tables, so expansion is given up; it has a filter, selects nothing. *)
(***************************************************************************)
EXTENDS Containers

LastTwoSame == [e \in Elem |-> IF e = Cardinality(Elem) THEN e - 1 ELSE e]
Spread == [k \in Range(KeyOf) |-> <<0, 2, 1, 3>>[k]]
Poor == [k \in Range(KeyOf) |-> 64 * k]
TwoPrograms == {[HashOf |-> Spread, Threshold |-> 2, BLOOM |-> 0, Selections |-> SUBSET Elem],
                 [HashOf |-> Poor, Threshold |-> 1, BLOOM |-> 2, Selections |-> {}]}
TwoKeys == [e \in Elem |-> e % 2]
=============================================================================
