------------------------------- MODULE UtHash -------------------------------
(***************************************************************************)
(* The hash tables of uthash.h.  An element has two hash handles, "src"    *)
(* and "dst", and each of them can be in one table: HASH_SELECT puts       *)
(* elements of the first table into the second as well.                    *)
(*                                                                         *)
(* A macro works on w, a table and the handles of its name; a NULL head is *)
(* NoTable.                                                                *)
(***************************************************************************)
EXTENDS MergeSort

CONSTANTS
  KeyOf,            \* KeyOf[e]: the key field of element e
  Builds,           \* programs: what each defines for HASH_FCN, HASH_BKT_CAPACITY_THRESH and
                    \* HASH_BLOOM, and the sets that its conditions of HASH_SELECT accept
  InitialBuckets,   \* HASH_INITIAL_NUM_BUCKETS
  SelectionChanges  \* whether elements are added to and deleted from a selection

\* The number of buckets is a power of two, as HASH_TO_BKT takes it to be.  With a
\* threshold of 1 a selection divides by zero: it adds an element before it counts it.
ASSUME UtHashAssumption ==
  /\ KeyOf \in [Elem -> Int]
  /\ Builds \subseteq [HashOf : [Range(KeyOf) -> Nat], Threshold : Nat \ {0}, BLOOM : Nat,
                     Selections : SUBSET SUBSET Elem]
  /\ \A program \in Builds : program.Threshold > 1 \/ program.Selections = {}
  /\ InitialBuckets \in Nat \ {0} /\ \E log2 \in 0 .. 31 : InitialBuckets = 2^log2
  /\ SelectionChanges \in BOOLEAN

VARIABLES
  tbl,   \* tbl[h]: the table of handle name h
  hh,    \* hh[h]: the handles of that name, a function for each field
  items, \* items[h]: the elements put into the table of h, in app order
  build  \* the program

hashVars == <<tbl, hh, items, build>>

HashOf == build.HashOf        \* HashOf[k]: the hash value of key k
Threshold == build.Threshold
HASH_BLOOM == build.BLOOM     \* the log of the number of bits of the filter; 0: there is none

\* The bit of the filter that stands for a hash value, and those that can be set.
BloomBit(hashv) == hashv % 2^HASH_BLOOM
Bits == {BloomBit(HashOf[k]) : k \in Range(KeyOf)}

Handle == {"src", "dst"}
Bucket == [hh_head : Link, count : Nat, expand_mult : Nat]
EmptyBucket == [hh_head |-> NULL, count |-> 0, expand_mult |-> 0]
NoTable == [head |-> NULL]
Table == [head : Elem, tail : Elem, buckets : Seq(Bucket), num_items : Nat, ideal : Nat,
          nonideal : Nat, ineff : Nat, noexpand : BOOLEAN, bloom : SUBSET Bits]
Handles == [prev : [Elem -> Link], next : [Elem -> Link],
            hh_prev : [Elem -> Link], hh_next : [Elem -> Link]]
Nowhere == [e \in Elem |-> NULL]
NoHandles == [prev |-> Nowhere, next |-> Nowhere, hh_prev |-> Nowhere, hh_next |-> Nowhere]

UtHashInit ==
  /\ tbl = [h \in Handle |-> NoTable]
  /\ hh = [h \in Handle |-> NoHandles]
  /\ items = [h \in Handle |-> <<>>]
  /\ build \in Builds

Hashv(e) == HashOf[KeyOf[e]]
\* Buckets are numbered from 1.
HASH_TO_BKT(hashv, num_bkts) == (hashv % num_bkts) + 1
Buckets(num_bkts) == [b \in 1 .. num_bkts |-> EmptyBucket]

\* The tail of the new table is its head.
HASH_MAKE_TABLE(e) ==
  [head |-> e, tail |-> e, buckets |-> Buckets(InitialBuckets), num_items |-> 0,
   ideal |-> 0, nonideal |-> 0, ineff |-> 0, noexpand |-> FALSE, bloom |-> {}]

\* A bit of the filter is never cleared.
HASH_BLOOM_ADD(t, hashv) == [t EXCEPT !.bloom = @ \cup {BloomBit(hashv)}]
HASH_BLOOM_TEST(t, hashv) == HASH_BLOOM = 0 \/ BloomBit(hashv) \in t.bloom

\* The elements from x on, along a field of the handles p.
Chain(p, x) == IF x = NULL THEN <<>> ELSE Walk(p, x, NULL, Cardinality(Elem))

\* The elements of the table, bucket by bucket.
ByBucket(w) ==
  Repeat([y \in [b : Nat, out : Seq(Elem)] |->
            IF y.b = Len(w.t.buckets) THEN y
            ELSE [b |-> y.b + 1, out |-> y.out \o Chain(w.p.hh_next, w.t.buckets[y.b + 1].hh_head)]],
         [b |-> 0, out |-> <<>>], Len(w.t.buckets)).out

\* e becomes the first of the chain of bucket b.
Pushed(bkt, p, e) ==
  LET p1 == [p EXCEPT !.hh_next[e] = bkt.hh_head, !.hh_prev[e] = NULL]
  IN IF bkt.hh_head = NULL THEN p1 ELSE [p1 EXCEPT !.hh_prev[bkt.hh_head] = e]

\* ceil(num_items / the new number of buckets)
IdealChain(t) ==
  LET num_bkts == 2 * Len(t.buckets)
  IN (t.num_items \div num_bkts) + (IF t.num_items % num_bkts # 0 THEN 1 ELSE 0)

(* Mutant: an element stays in the bucket of the old table. *)
RedistributeByOld(y, e, ideal) ==
  LET b == HASH_TO_BKT(Hashv(e), Len(y.buckets) \div 2)
      count == y.buckets[b].count + 1
      beyond == count > ideal
  IN [buckets |-> [y.buckets EXCEPT ![b] =
                     [hh_head |-> e, count |-> count,
                      expand_mult |-> IF beyond THEN count \div ideal ELSE @.expand_mult]],
      p |-> Pushed(y.buckets[b], y.p, e),
      nonideal |-> y.nonideal + (IF beyond THEN 1 ELSE 0), done |-> y.done + 1]

\* One element goes into its new bucket; y holds what the loop changes.
Redistribute(y, e, ideal) ==
  LET b == HASH_TO_BKT(Hashv(e), Len(y.buckets))
      count == y.buckets[b].count + 1
      beyond == count > ideal
  IN [buckets |-> [y.buckets EXCEPT ![b] =
                     [hh_head |-> e, count |-> count,
                      expand_mult |-> IF beyond THEN count \div ideal ELSE @.expand_mult]],
      p |-> Pushed(y.buckets[b], y.p, e),
      nonideal |-> y.nonideal + (IF beyond THEN 1 ELSE 0), done |-> y.done + 1]

Redistributed(w, ideal) ==
  LET s == ByBucket(w)
  IN Repeat([y \in [buckets : Seq(Bucket), p : Handles, nonideal : Nat, done : Nat] |->
               IF y.done = Len(s) THEN y ELSE Redistribute(y, s[y.done + 1], ideal)],
            [buckets |-> Buckets(2 * Len(w.t.buckets)), p |-> w.p, nonideal |-> 0, done |-> 0], Len(s))

\* The buckets are doubled; after two expansions in a row that helped little, never again.
HASH_EXPAND_BUCKETS(w) ==
  LET ideal == IdealChain(w.t)
      y == Redistributed(w, ideal)
      ineff == IF y.nonideal > w.t.num_items \div 2 THEN w.t.ineff + 1 ELSE 0
  IN [t |-> [w.t EXCEPT !.buckets = y.buckets, !.ideal = ideal, !.nonideal = y.nonideal,
                        !.ineff = ineff, !.noexpand = @ \/ ineff > 1],
      p |-> y.p]

(* Mutant: a chain may grow to its limit and is expanded when it passes it. *)
AddExpandsLate(w, e) ==
  LET b == HASH_TO_BKT(Hashv(e), Len(w.t.buckets))
      bkt == w.t.buckets[b]
      w1 == [t |-> [w.t EXCEPT !.buckets[b] =
                      [hh_head |-> e, count |-> bkt.count + 1, expand_mult |-> bkt.expand_mult]],
             p |-> Pushed(bkt, w.p, e)]
  IN IF bkt.count + 1 > (bkt.expand_mult + 1) * Threshold /\ ~w.t.noexpand
       THEN HASH_EXPAND_BUCKETS(w1)
       ELSE w1

HASH_ADD_TO_BKT(w, e) ==
  LET b == HASH_TO_BKT(Hashv(e), Len(w.t.buckets))
      bkt == w.t.buckets[b]
      w1 == [t |-> [w.t EXCEPT !.buckets[b] =
                      [hh_head |-> e, count |-> bkt.count + 1, expand_mult |-> bkt.expand_mult]],
             p |-> Pushed(bkt, w.p, e)]
  IN IF bkt.count + 1 >= (bkt.expand_mult + 1) * Threshold /\ ~w.t.noexpand
       THEN HASH_EXPAND_BUCKETS(w1)
       ELSE w1

HASH_DEL_IN_BKT(w, e) ==
  LET b == HASH_TO_BKT(Hashv(e), Len(w.t.buckets))
      bkt == w.t.buckets[b]
      before == w.p.hh_prev[e]
      after == w.p.hh_next[e]
  IN [t |-> [w.t EXCEPT !.buckets[b] =
               [hh_head |-> IF bkt.hh_head = e THEN after ELSE bkt.hh_head,
                count |-> bkt.count - 1, expand_mult |-> bkt.expand_mult]],
      p |-> [w.p EXCEPT !.hh_next = IF before = NULL THEN @ ELSE [@ EXCEPT ![before] = after],
                        !.hh_prev = IF after = NULL THEN @ ELSE [@ EXCEPT ![after] = before]]]

HASH_ADD_KEYPTR(w, e) ==
  LET empty == w.t.head = NULL
      t == IF empty THEN HASH_MAKE_TABLE(e) ELSE w.t
      p == [w.p EXCEPT !.next = IF empty THEN [@ EXCEPT ![e] = NULL]
                                ELSE [@ EXCEPT ![e] = NULL, ![t.tail] = e],
                       !.prev[e] = IF empty THEN NULL ELSE t.tail]
      w1 == HASH_ADD_TO_BKT([t |-> [t EXCEPT !.tail = e, !.num_items = @ + 1], p |-> p], e)
  IN [w1 EXCEPT !.t = HASH_BLOOM_ADD(@, Hashv(e))]

(* Mutant: the tail of the table is not moved off the element that is deleted. *)
DeleteKeepsTail(w, e) ==
  LET before == w.p.prev[e]
      after == w.p.next[e]
      t == [w.t EXCEPT !.head = IF before = NULL THEN after ELSE @]
      p == [w.p EXCEPT !.next = IF before = NULL THEN @ ELSE [@ EXCEPT ![before] = after],
                       !.prev = IF after = NULL THEN @ ELSE [@ EXCEPT ![after] = before]]
      w1 == HASH_DEL_IN_BKT([t |-> t, p |-> p], e)
  IN IF before = NULL /\ after = NULL
       THEN [w EXCEPT !.t = NoTable]
       ELSE [w1 EXCEPT !.t.num_items = @ - 1]

\* The element alone in the table takes the table with it.
HASH_DELETE(w, e) ==
  LET before == w.p.prev[e]
      after == w.p.next[e]
      t == [w.t EXCEPT !.tail = IF @ = e THEN before ELSE @,
                       !.head = IF before = NULL THEN after ELSE @]
      p == [w.p EXCEPT !.next = IF before = NULL THEN @ ELSE [@ EXCEPT ![before] = after],
                       !.prev = IF after = NULL THEN @ ELSE [@ EXCEPT ![after] = before]]
      w1 == HASH_DEL_IN_BKT([t |-> t, p |-> p], e)
  IN IF before = NULL /\ after = NULL
       THEN [w EXCEPT !.t = NoTable]
       ELSE [w1 EXCEPT !.t.num_items = @ - 1]

\* The first element of the bucket's chain that has the key.
HASH_FIND_IN_BKT(w, key) ==
  LET chain == Chain(w.p.hh_next, w.t.buckets[HASH_TO_BKT(HashOf[key], Len(w.t.buckets))].hh_head)
  IN FirstWith(chain, KeyOf, key)

HASH_FIND(w, key) ==
  IF w.t.head # NULL /\ HASH_BLOOM_TEST(w.t, HashOf[key]) THEN HASH_FIND_IN_BKT(w, key) ELSE NULL

HASH_REPLACE(w, e) ==
  LET replaced == HASH_FIND(w, KeyOf[e])
  IN HASH_ADD_KEYPTR(IF replaced = NULL THEN w ELSE HASH_DELETE(w, replaced), e)

HASH_SRT(w) ==
  LET sorted == SortFrom([next |-> w.p.next, prev |-> w.p.prev], w.t.head, "app")
  IN [t |-> [w.t EXCEPT !.head = sorted.head, !.tail = sorted.tail],
      p |-> [w.p EXCEPT !.next = sorted.n.next, !.prev = sorted.n.prev]]

\* The elements of s that are in S, in their order.
Chosen(s, S) ==
  Repeat([y \in [done : Nat, out : Seq(Elem)] |->
            IF y.done = Len(s) THEN y
            ELSE [done |-> y.done + 1,
                  out |-> IF s[y.done + 1] \in S THEN Append(y.out, s[y.done + 1]) ELSE y.out]],
         [done |-> 0, out |-> <<>>], Len(s)).out

\* One selected element goes after the last one; y.last is _last_elt.
Select(y, e) ==
  LET p == [y.p EXCEPT !.prev[e] = y.last,
                       !.next = IF y.last = NULL THEN [@ EXCEPT ![e] = NULL]
                                ELSE [@ EXCEPT ![e] = NULL, ![y.last] = e]]
      w == HASH_ADD_TO_BKT([t |-> IF y.t.head = NULL THEN HASH_MAKE_TABLE(e) ELSE y.t, p |-> p], e)
  IN [t |-> [w.t EXCEPT !.num_items = @ + 1], p |-> w.p, last |-> e, done |-> y.done + 1]

\* cond(_elt) accepts the elements of chosen.
HASH_SELECT(dst, src, chosen) ==
  LET s == Chosen(ByBucket(src), chosen)
      y == Repeat([y \in [t : Table \cup {NoTable}, p : Handles, last : Link, done : Nat] |->
                     IF y.done = Len(s) THEN y ELSE Select(y, s[y.done + 1])],
                  [t |-> dst.t, p |-> dst.p, last |-> NULL, done |-> 0], Len(s))
  IN [t |-> y.t, p |-> y.p]

HASH_ITER(w) == Chain(w.p.next, w.t.head)
HASH_CNT(w) == IF w.t.head = NULL THEN 0 ELSE w.t.num_items

\* Whether x is followed back: prev of each element is the element before it.
GoesBack(chain, prev) ==
  \A i \in DOMAIN chain : prev[chain[i]] = IF i = 1 THEN NULL ELSE chain[i - 1]

\* What HASH_FSCK demands; FALSE is one of its HASH_OOPS.
HASH_FSCK(w) ==
  w.t.head # NULL =>
    /\ \A b \in DOMAIN w.t.buckets :
         LET chain == Chain(w.p.hh_next, w.t.buckets[b].hh_head)
         IN GoesBack(chain, w.p.hh_prev) /\ w.t.buckets[b].count = Len(chain)
    /\ Len(ByBucket(w)) = w.t.num_items
    /\ GoesBack(HASH_ITER(w), w.p.prev)
    /\ Len(HASH_ITER(w)) = w.t.num_items

-----------------------------------------------------------------------------
Of(h) == [t |-> tbl[h], p |-> hh[h]]
\* The pointers of an element that has left the table are forgotten: it may be freed.
Kept(f, S) == [e \in Elem |-> IF e \in S THEN f[e] ELSE NULL]
Becomes(h, w, sequence) ==
  LET S == Range(sequence)
  IN /\ tbl' = [tbl EXCEPT ![h] = w.t]
     /\ hh' = [hh EXCEPT ![h] = [prev |-> Kept(w.p.prev, S), next |-> Kept(w.p.next, S),
                                 hh_prev |-> Kept(w.p.hh_prev, S), hh_next |-> Kept(w.p.hh_next, S)]]
     /\ items' = [items EXCEPT ![h] = sequence]
     /\ UNCHANGED build

In(e, h) == e \in Range(items[h])
Keys(h) == {KeyOf[e] : e \in Range(items[h])}
Changes(h) == h = "src" \/ SelectionChanges

\* The program keeps the keys of a table distinct, as HASH_ADD requires.
HashAdd(h, e) ==
  /\ Changes(h) /\ KeyOf[e] \notin Keys(h)
  /\ Becomes(h, HASH_ADD_KEYPTR(Of(h), e), Append(items[h], e))

HashReplace(h, e) ==
  /\ Changes(h) /\ ~In(e, h)
  /\ Becomes(h, HASH_REPLACE(Of(h), e),
             Append(Without(items[h], FirstWith(items[h], KeyOf, KeyOf[e])), e))

HashDelete(h, e) ==
  /\ Changes(h) /\ In(e, h)
  /\ Becomes(h, HASH_DELETE(Of(h), e), Without(items[h], e))

HashSort(h) == tbl[h].head # NULL /\ Becomes(h, HASH_SRT(Of(h)), Sorted(items[h]))

SelectInto(chosen) ==
  /\ tbl["src"].head # NULL /\ tbl["dst"].head = NULL
  /\ Becomes("dst", HASH_SELECT(Of("dst"), Of("src"), chosen), Chosen(ByBucket(Of("src")), chosen))

HASH_CLEAR(h) == tbl[h].head # NULL /\ Becomes(h, [t |-> NoTable, p |-> hh[h]], <<>>)

UtHashNext ==
  \/ \E h \in Handle :
       \/ \E e \in Elem : HashAdd(h, e) \/ HashReplace(h, e) \/ HashDelete(h, e)
       \/ HashSort(h)
       \/ HASH_CLEAR(h)
  \/ \E chosen \in build.Selections : SelectInto(chosen)

UtHashSpec == UtHashInit /\ [][UtHashNext]_hashVars

-----------------------------------------------------------------------------
(***************************************************************************)
(* What HASH_FSCK would print never happens: the chains and the app order  *)
(* are well linked, and every count is the number of what it counts.       *)
(***************************************************************************)
NeverOops == \A h \in Handle : HASH_FSCK(Of(h))

(***************************************************************************)
(* A table is what was put into it: it is walked in the order of the       *)
(* additions or of the last sort, and a key is found where an element of   *)
(* the table has it and nowhere else, however often the buckets were       *)
(* redistributed.  With a filter it takes a table that is no selection:    *)
(* HASH_SELECT leaves the filter of the second table as it is.             *)
(***************************************************************************)
HoldsItems ==
  \A h \in Handle :
    LET w == Of(h)
    IN /\ HASH_CNT(w) = Len(items[h])
       /\ w.t.head # NULL => HASH_ITER(w) = items[h]
       /\ h = "src" \/ HASH_BLOOM = 0 => \A e \in Range(items[h]) : HASH_FIND(w, KeyOf[e]) = e
       /\ \A k \in Range(KeyOf) \ Keys(h) : HASH_FIND(w, k) = NULL

(***************************************************************************)
(* "Its chain length" grows "to a longer yet-still-bounded value": as long *)
(* as a table may be expanded, no chain reaches the length at which it is, *)
(* or it is no longer than an expansion left it, expand_mult times and a   *)
(* part of the ideal length.                                               *)
(***************************************************************************)
ChainsBounded ==
  \A h \in Handle : tbl[h].head # NULL /\ ~tbl[h].noexpand =>
    \A b \in DOMAIN tbl[h].buckets :
      LET bkt == tbl[h].buckets[b]
      IN \/ bkt.count < (bkt.expand_mult + 1) * Threshold
         \/ bkt.count < (bkt.expand_mult + 1) * (tbl[h].ideal + 1)
=============================================================================
