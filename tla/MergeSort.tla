----------------------------- MODULE MergeSort ------------------------------
(***************************************************************************)
(* The merge sort of utlist.h and uthash.h, adapted there from Simon       *)
(* Tatham's, on a list of one of four kinds:                               *)
(*   "single"    next pointers only (LL_SORT2)                             *)
(*   "double"    the prev of the head is the tail (DL_SORT2)               *)
(*   "circular"  and the next of the tail is the head (CDL_SORT2)          *)
(*   "app"       the prev of the head is NULL (HASH_SRT)                   *)
(***************************************************************************)
EXTENDS Integers, SequencesExt

CONSTANTS
  Elem,  \* the nodes
  NULL,
  Key    \* Key[e]: the field that a list is sorted and searched by

ASSUME MergeSortAssumption ==
  /\ IsFiniteSet(Elem)
  /\ NULL \notin Elem
  /\ Key \in [Elem -> Int]

Link == Elem \cup {NULL}
Pointers == [next : [Elem -> Link], prev : [Elem -> Link]]

SetNext(n, e, to) == [n EXCEPT !.next[e] = to]
SetPrev(n, e, to) == [n EXCEPT !.prev[e] = to]

(***************************************************************************)
(* A loop: one turn of it takes a state y to turn[y], which is y when the  *)
(* loop has ended.  N is a number of turns that suffices.                  *)
(***************************************************************************)
Repeat(turn, x, N) ==
  LET after[k \in 0 .. N] == IF k = 0 THEN x ELSE turn[after[k - 1]] IN after[N]

\* The nodes from x on up to the one before stop or the last one, in size turns.
Walk(next, x, stop, size) ==
  Repeat([w \in Seq(Elem) \ {<<>>} |->
            IF next[Last(w)] \in {stop, NULL} THEN w ELSE Append(w, next[Last(w)])], <<x>>, size)

-----------------------------------------------------------------------------
(***************************************************************************)
(* A pass merges runs of insize nodes.  Its state m holds the pointers n,  *)
(* the head and the tail of the new list, and the two runs: p and q with   *)
(* what is left of each.  end is what the next of the last node is.        *)
(***************************************************************************)
Merges == [n : Pointers, head : Link, tail : Link, p : Link, q : Link,
           psize : Nat, qsize : Nat, nmerges : Nat]

After(m, x, end) == IF m.n.next[x] = end THEN NULL ELSE m.n.next[x]

Merging(m) == m.psize > 0 \/ (m.qsize > 0 /\ m.q # NULL)

(* Mutant: of equal elements the one of the second run is taken first. *)
TakeQUnstable(m) ==
  m.psize = 0 \/ (m.qsize > 0 /\ m.q # NULL /\ Key[m.p] >= Key[m.q])

\* Whether the next element comes from the second run: cmp(p, q) <= 0 takes the first.
TakeQ(m) == m.psize = 0 \/ (m.qsize > 0 /\ m.q # NULL /\ Key[m.p] > Key[m.q])

Linked(m, e, kind) ==
  LET n1 == IF m.tail = NULL THEN m.n ELSE SetNext(m.n, m.tail, e)
  IN [m EXCEPT !.n = IF kind = "single" THEN n1 ELSE SetPrev(n1, e, m.tail),
               !.head = IF m.tail = NULL THEN e ELSE @,
               !.tail = e]

Take(m, kind, end) ==
  IF TakeQ(m)
    THEN Linked([m EXCEPT !.q = After(m, @, end), !.qsize = @ - 1], m.q, kind)
    ELSE Linked([m EXCEPT !.p = After(m, @, end), !.psize = @ - 1], m.p, kind)

\* The next merge begins at q, which is moved on over the first run.
Begin(m, end, insize) ==
  LET run == Walk(m.n.next, m.q, end, insize)
      last == Len(run) <= insize
  IN [m EXCEPT !.p = m.q, !.q = IF last THEN NULL ELSE Last(run),
               !.psize = IF last THEN Len(run) ELSE insize, !.qsize = insize, !.nmerges = @ + 1]

Pass(n, h, insize, kind, end) ==
  Repeat([m \in Merges |-> IF Merging(m) THEN Take(m, kind, end)
                           ELSE IF m.q # NULL THEN Begin(m, end, insize) ELSE m],
         [n |-> n, head |-> NULL, tail |-> NULL, p |-> NULL, q |-> h,
          psize |-> 0, qsize |-> 0, nmerges |-> 0],
         2 * Cardinality(Elem) + 1)

\* How a pass leaves the two ends of its list.
Ended(m, kind) ==
  CASE kind \in {"single", "app"} -> SetNext(m.n, m.tail, NULL)
    [] kind = "double" -> SetNext(SetPrev(m.n, m.head, m.tail), m.tail, NULL)
    [] kind = "circular" -> SetNext(SetPrev(m.n, m.head, m.tail), m.tail, m.head)

\* Runs of insize nodes are merged until one merge makes the whole list.
Sorts == [n : Pointers, head : Link, tail : Link, insize : Nat, looping : BOOLEAN]

SortPass(s, kind) ==
  LET m == Pass(s.n, s.head, s.insize, kind, IF kind = "circular" THEN s.head ELSE NULL)
  IN [n |-> Ended(m, kind), head |-> m.head, tail |-> m.tail,
      insize |-> 2 * s.insize, looping |-> m.nmerges > 1]

SortFrom(n, h, kind) ==
  Repeat([s \in Sorts |-> IF s.looping THEN SortPass(s, kind) ELSE s],
         [n |-> n, head |-> h, tail |-> NULL, insize |-> 1, looping |-> TRUE],
         Cardinality(Elem))

-----------------------------------------------------------------------------
At(s, e) == CHOOSE i \in DOMAIN s : s[i] = e

\* The first node of s whose field key has the value val.
FirstWith(s, key, val) ==
  LET found == {i \in DOMAIN s : key[s[i]] = val} IN IF found = {} THEN NULL ELSE s[Min(found)]

Without(s, e) == IF e \in Range(s) THEN RemoveAt(s, At(s, e)) ELSE s

\* What a sort by Key makes of the sequence s of distinct nodes: a stable one.
Sorted(s) ==
  [i \in DOMAIN s |-> CHOOSE x \in Range(s) :
     i - 1 = Cardinality({y \in Range(s) : \/ Key[y] < Key[x]
                                           \/ Key[y] = Key[x] /\ At(s, y) < At(s, x)})]
=============================================================================
