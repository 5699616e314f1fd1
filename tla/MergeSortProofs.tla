--------------------------- MODULE MergeSortProofs --------------------------
(***************************************************************************)
(* Proofs about the merge sort of utlist.h and uthash.h: on a list of any  *)
(* of the four kinds, of any length, it makes the stably sorted list.  A   *)
(* loop is a Repeat; what it computes is an invariant of its turns         *)
(* (RepeatRule), with what is left to do as their number.                  *)
(***************************************************************************)
EXTENDS MergeSort, FiniteSetTheorems, FunctionTheorems, SequenceTheorems, WellFoundedInduction, TLAPS

\* Induction over the numbers, for a set: the form the provers can use.
LEMMA NatSetInduction ==
  ASSUME NEW T, 0 \in T, \A k \in Nat : k \in T => k + 1 \in T
  PROVE  Nat \subseteq T
<1> SUFFICES ASSUME Nat \ T # {} PROVE FALSE
  OBVIOUS
<1>1. IsWellFoundedOn(OpToRel(<, Nat), Nat)
  BY NatLessThanWellFounded
<1> HIDE DEF OpToRel
<1>2. PICK x \in Nat \ T : \A y \in Nat \ T : ~ (<<y, x>> \in OpToRel(<, Nat))
  BY <1>1, WFMin
<1>3. x \in Nat /\ x # 0
  OBVIOUS
<1>4. x - 1 \in Nat /\ x - 1 < x
  BY <1>3
<1>5. <<x - 1, x>> \in OpToRel(<, Nat)
  BY <1>3, <1>4 DEF OpToRel
<1>6. x - 1 \in T
  BY <1>2, <1>4, <1>5
<1> QED
  BY <1>3, <1>4, <1>6

Runs(turn, x, N, I) ==
  {f \in [0 .. N -> I] : f[0] = x /\ \A k \in 1 .. N : f[k] = turn[f[k - 1]]}

\* The states of a loop that keeps I exist, turn by turn.
LEMMA RunExists ==
  ASSUME NEW turn, NEW N \in Nat, NEW I, NEW x \in I, \A y \in I : turn[y] \in I
  PROVE  Runs(turn, x, N, I) # {}
<1> DEFINE Run(n, f) == f[0] = x /\ \A k \in 1 .. n : f[k] = turn[f[k - 1]]
           T == {n \in Nat : \E f \in [0 .. n -> I] : Run(n, f)}
<1>1. 0 \in T
  <2> DEFINE f == [k \in 0 .. 0 |-> x]
  <2>1. f \in [0 .. 0 -> I] /\ Run(0, f)
    OBVIOUS
  <2> QED
    BY <2>1
<1>2. ASSUME NEW n \in Nat, n \in T
      PROVE  n + 1 \in T
  <2>1. PICK f \in [0 .. n -> I] : Run(n, f)
    BY <1>2
  <2> DEFINE g == [k \in 0 .. n + 1 |-> IF k = n + 1 THEN turn[f[n]] ELSE f[k]]
  <2>2. g \in [0 .. n + 1 -> I]
    OBVIOUS
  <2>3. \A k \in 1 .. n + 1 : g[k] = turn[g[k - 1]]
    <3> TAKE k \in 1 .. n + 1
    <3>1. CASE k = n + 1
      BY <3>1
    <3>2. CASE k \in 1 .. n
      <4>1. g[k] = f[k] /\ g[k - 1] = f[k - 1]
        BY <3>2
      <4> QED
        BY <2>1, <3>2, <4>1
    <3> QED
      BY <3>1, <3>2
  <2>4. g[0] = x
    BY <2>1
  <2> HIDE DEF g
  <2>5. \E h \in [0 .. n + 1 -> I] : Run(n + 1, h)
    BY <2>2, <2>3, <2>4
  <2> QED
    BY <2>5
<1> HIDE DEF T
<1>3. N \in T
  BY <1>1, <1>2, NatSetInduction
<1> QED
  BY <1>3 DEF T, Runs

(* Where a function says what each turn leaves, it says what the loop leaves. *)
LEMMA RepeatIs ==
  ASSUME NEW turn, NEW x, NEW N \in Nat, NEW f, f[0] = x,
         \A k \in 1 .. N : f[k] = turn[f[k - 1]]
  PROVE  Repeat(turn, x, N) = f[N]
<1> DEFINE g == [k \in 0 .. N |-> f[k]]
           after == CHOOSE h : h = [k \in 0 .. N |-> IF k = 0 THEN x ELSE turn[h[k - 1]]]
<1>1. g = [k \in 0 .. N |-> IF k = 0 THEN x ELSE turn[g[k - 1]]]
  OBVIOUS
<1> HIDE DEF g
<1>2. after = [k \in 0 .. N |-> IF k = 0 THEN x ELSE turn[after[k - 1]]]
  BY <1>1
<1>3. Repeat(turn, x, N) = after[N]
  BY DEF Repeat
<1> HIDE DEF after
<1> DEFINE T == {k \in Nat : k <= N => after[k] = f[k]}
<1>4. 0 \in T
  BY <1>2
<1>5. ASSUME NEW k \in Nat, k \in T
      PROVE  k + 1 \in T
  <2> SUFFICES ASSUME k + 1 <= N
               PROVE  after[k + 1] = f[k + 1]
    OBVIOUS
  <2>1. k + 1 \in 1 .. N /\ k + 1 # 0 /\ (k + 1) - 1 = k
    OBVIOUS
  <2>2. after[k + 1] = turn[after[k]]
    BY <1>2, <2>1
  <2>3. f[k + 1] = turn[f[k]]
    BY <2>1
  <2> QED
    BY <1>5, <2>1, <2>2, <2>3
<1>6. N \in T
  <2> HIDE DEF T
  <2> QED
    BY <1>4, <1>5, NatSetInduction
<1> QED
  BY <1>3, <1>6

(* What holds with N turns left, and after each turn with one turn less, holds  *)
(* in the end with none left.                                                   *)
LEMMA RepeatRule ==
  ASSUME NEW turn, NEW x, NEW N \in Nat, NEW R, <<x, N>> \in R,
         \A y : \A k \in 1 .. N : <<y, k>> \in R => <<turn[y], k - 1>> \in R
  PROVE  <<Repeat(turn, x, N), 0>> \in R
<1> DEFINE I == {x} \cup {r[1] : r \in R}
           safe == [y \in I |-> IF turn[y] \in I THEN turn[y] ELSE y]
<1>1. \A y \in I : safe[y] \in I
  OBVIOUS
<1>2. Runs(safe, x, N, I) # {}
  <2>1. x \in I
    OBVIOUS
  <2> HIDE DEF I, safe
  <2> QED
    BY <1>1, <2>1, RunExists
<1>3. PICK f \in [0 .. N -> I] : f[0] = x /\ \A k \in 1 .. N : f[k] = safe[f[k - 1]]
  BY <1>2 DEF Runs
<1>4. \A y, k : <<y, k>> \in R => y \in I
  <2> SUFFICES ASSUME NEW y, NEW k, <<y, k>> \in R
               PROVE  y \in I
    OBVIOUS
  <2>1. <<y, k>>[1] = y
    OBVIOUS
  <2> QED
    BY <2>1
<1> DEFINE T == {k \in Nat : k <= N => /\ <<f[k], N - k>> \in R
                                       /\ k > 0 => f[k] = turn[f[k - 1]]}
<1>5. 0 \in T
  BY <1>3
<1>6. ASSUME NEW k \in Nat, k \in T
      PROVE  k + 1 \in T
  <2> SUFFICES ASSUME k + 1 <= N
               PROVE  <<f[k + 1], N - (k + 1)>> \in R /\ f[k + 1] = turn[f[k]]
    OBVIOUS
  <2>1. <<f[k], N - k>> \in R /\ N - k \in 1 .. N
    BY <1>6
  <2>2. <<turn[f[k]], (N - k) - 1>> \in R
    BY <2>1
  <2>3. turn[f[k]] \in I /\ f[k] \in I
    BY <1>4, <2>1, <2>2
  <2>4. k + 1 \in 1 .. N /\ (k + 1) - 1 = k /\ (N - k) - 1 = N - (k + 1)
    OBVIOUS
  <2>5. f[k + 1] = safe[f[k]]
    BY <1>3, <2>4
  <2>6. f[k + 1] = turn[f[k]]
    BY <2>3, <2>5
  <2> QED
    BY <2>2, <2>4, <2>6
<1>7. \A k \in 0 .. N : k \in T
  <2> HIDE DEF T
  <2> QED
    BY <1>5, <1>6, NatSetInduction
<1>8. f[N] = Repeat(turn, x, N)
  <2>1. ASSUME NEW k \in 1 .. N
        PROVE  f[k] = turn[f[k - 1]]
    <3>1. k \in T /\ k > 0 /\ k <= N
      BY <1>7
    <3> QED
      BY <3>1
  <2> QED
    BY <1>3, <2>1, RepeatIs
<1>9. N \in T /\ N - N = 0
  BY <1>7
<1> QED
  BY <1>8, <1>9

-----------------------------------------------------------------------------
(***************************************************************************)
(* Sequences of distinct nodes, and how next pointers follow them.         *)
(***************************************************************************)
Distinct(s) == s \in Seq(Elem) /\ \A i, j \in 1 .. Len(s) : s[i] = s[j] => i = j

Follows(next, s, end) == \A i \in 1 .. Len(s) : next[s[i]] = IF i < Len(s) THEN s[i + 1] ELSE end

\* A sequence of distinct nodes is no longer than there are nodes.
LEMMA DistinctLength ==
  ASSUME NEW s, Distinct(s)
  PROVE  Len(s) <= Cardinality(Elem) /\ Cardinality(Elem) \in Nat
<1>1. s \in Injection(1 .. Len(s), Elem)
  BY DEF Distinct, Injection, IsInjective
<1> QED
  BY <1>1, FS_Injection, FS_Interval, FS_CardinalityType, MergeSortAssumption DEF Distinct

\* What SubSeq gives.
LEMMA Piece ==
  ASSUME NEW S, NEW s \in Seq(S), NEW a \in 1 .. Len(s) + 1, NEW b \in a - 1 .. Len(s)
  PROVE  /\ SubSeq(s, a, b) \in Seq(S)
         /\ Len(SubSeq(s, a, b)) = b - a + 1
         /\ \A i \in 1 .. b - a + 1 : SubSeq(s, a, b)[i] = s[a + i - 1]
<1>1. a \in Int /\ b \in Int /\ \A i \in a .. b : s[i] \in S
  BY ElementOfSeq
<1> QED
  BY <1>1, SubSeqProperties

(* A walk meets the nodes that the pointers follow, as far as its turns reach. *)
LEMMA WalkRule ==
  ASSUME NEW s \in Seq(Elem), NEW next, NEW stop, NEW a \in 1 .. Len(s), NEW N \in Nat,
         \A i \in a .. Len(s) - 1 : next[s[i]] = s[i + 1] /\ s[i + 1] # stop,
         next[s[Len(s)]] \in {stop, NULL} \/ a + N < Len(s)
  PROVE  Walk(next, s[a], stop, N) = SubSeq(s, a, IF a + N < Len(s) THEN a + N ELSE Len(s))
<1> DEFINE turn == [w \in Seq(Elem) \ {<<>>} |->
                      IF next[Last(w)] \in {stop, NULL} THEN w ELSE Append(w, next[Last(w)])]
           upto(k) == IF a + k < Len(s) THEN a + k ELSE Len(s)
           f == [k \in 0 .. N |-> SubSeq(s, a, upto(k))]
<1>1. f[0] = <<s[a]>>
  <2>1. f[0] = SubSeq(s, a, a)
    OBVIOUS
  <2>2. SubSeq(s, a, a) = <<s[a]>> \o SubSeq(s, a + 1, a)
    BY SubSeqRecursiveFirst
  <2>3. SubSeq(s, a + 1, a) = <<>>
    BY SubSeqEmpty
  <2>4. <<s[a]>> \in Seq(Elem)
    OBVIOUS
  <2> QED
    BY <2>1, <2>2, <2>3, <2>4, ConcatEmptySeq
<1>2. ASSUME NEW k \in 1 .. N
      PROVE  f[k] = turn[f[k - 1]]
  <2> DEFINE u == upto(k - 1)
             w == SubSeq(s, a, u)
  <2>1. u \in a .. Len(s) /\ k - 1 \in 0 .. N
    OBVIOUS
  <2>2. f[k - 1] = w /\ f[k] = SubSeq(s, a, upto(k))
    BY <2>1
  <2>3. w \in Seq(Elem) /\ Len(w) = u - a + 1 /\ \A i \in 1 .. u - a + 1 : w[i] = s[a + i - 1]
    BY <2>1, Piece
  <2> HIDE DEF f, w
  <2>4. w \in Seq(Elem) \ {<<>>} /\ Last(w) = s[u]
    BY <2>1, <2>3 DEF Last
  <2>5. CASE u < Len(s)
    <3>1. s[u + 1] \in Elem /\ s[u + 1] # NULL
      BY <2>1, <2>5, MergeSortAssumption
    <3>2. next[Last(w)] = s[u + 1] /\ s[u + 1] # stop
      BY <2>1, <2>4, <2>5
    <3>3. turn[w] = Append(w, s[u + 1])
      BY <2>4, <3>1, <3>2
    <3>4. upto(k) = u + 1
      BY <2>5
    <3>5. /\ SubSeq(s, a, u + 1) \in Seq(Elem)
          /\ Len(SubSeq(s, a, u + 1)) = u + 1 - a + 1
          /\ \A i \in 1 .. u + 1 - a + 1 : SubSeq(s, a, u + 1)[i] = s[a + i - 1]
      BY <2>1, <2>5, Piece
    <3>6. SubSeq(s, a, u + 1) = Append(w, s[u + 1])
      BY <2>1, <2>3, <3>1, <3>5, SeqEqual
    <3> QED
      BY <2>2, <3>3, <3>4, <3>6
  <2>6. CASE u = Len(s)
    <3>1. next[Last(w)] \in {stop, NULL}
      BY <2>4, <2>6
    <3>2. turn[w] = w
      BY <2>4, <3>1
    <3>3. upto(k) = u
      BY <2>6
    <3> QED
      BY <2>2, <3>2, <3>3 DEF w
  <2> QED
    BY <2>1, <2>5, <2>6
<1> DEFINE x == <<s[a]>>
<1>3. Repeat(turn, x, N) = f[N]
  <2>1. \A k \in 1 .. N : f[k] = turn[f[k - 1]]
    BY <1>2
  <2>2. f[0] = x
    BY <1>1
  <2> HIDE DEF turn, f, x
  <2> QED
    BY <2>1, <2>2, RepeatIs
<1>4. f[N] = SubSeq(s, a, upto(N))
  OBVIOUS
<1> HIDE DEF f
<1> QED
  BY <1>3, <1>4 DEF Walk

-----------------------------------------------------------------------------
(***************************************************************************)
(* A pass over the list s, whose pointers are n, in runs of k nodes.  out  *)
(* is the new list so far; a and b nodes of s were reached in the first    *)
(* and the second run of a merge that began after c nodes, the second run  *)
(* after d.                                                                *)
(***************************************************************************)
Setting(s, n, k, end) ==
  /\ Distinct(s) /\ s # <<>>
  /\ n \in Pointers
  /\ k \in Nat \ {0}
  /\ end \in Link
  /\ Follows(n.next, s, end)
  /\ \A i \in 2 .. Len(s) : s[i] # end

RunEnd(c, k, L) == IF c + k < L THEN c + k ELSE L

Cursors(L, k, m, a, b, c, d) ==
  /\ a \in Nat /\ b \in Nat /\ c \in Nat /\ d \in Nat
  /\ c <= a /\ a <= d /\ d <= b /\ b <= L
  /\ m.psize = d - a
  /\ m.nmerges = 0 => b = 0 /\ m.qsize = 0
  /\ m.nmerges > 0 => /\ c < L /\ d = RunEnd(c, k, L)
                      /\ b <= d + k /\ m.qsize = d + k - b
  /\ m.nmerges <= 1 => c = 0
  /\ m.nmerges > 1 => 2 * k < L

Pending(i, a, b, d) == (a < i /\ i <= d) \/ b < i

Shape(m, s, n, kind, out, a, b, d) ==
  /\ m \in Merges
  /\ Distinct(out) /\ Len(out) = a + b - d
  /\ \A i \in 1 .. Len(out) : \E j \in 1 .. Len(s) : ~Pending(j, a, b, d) /\ out[i] = s[j]
  /\ \A i \in 1 .. Len(out) - 1 : m.n.next[out[i]] = out[i + 1]
  /\ kind # "single" =>
       \A i \in 1 .. Len(out) : m.n.prev[out[i]] = IF i = 1 THEN NULL ELSE out[i - 1]
  /\ \A j \in 1 .. Len(s) : Pending(j, a, b, d) => m.n.next[s[j]] = n.next[s[j]]
  /\ \A x \in Elem : x \notin Range(s) => m.n.next[x] = n.next[x] /\ m.n.prev[x] = n.prev[x]
  /\ m.head = IF out = <<>> THEN NULL ELSE out[1]
  /\ m.tail = IF out = <<>> THEN NULL ELSE Last(out)
  /\ a < d => m.p = s[a + 1]
  /\ m.q = IF b < Len(s) THEN s[b + 1] ELSE NULL

\* What linking one node to the end of the new list changes, field by field.
LEMMA LinkedIs ==
  ASSUME NEW m \in Merges, NEW e \in Elem, NEW kind
  PROVE  LET l == Linked(m, e, kind)
         IN /\ l \in Merges
            /\ \A x \in Elem : l.n.next[x] = IF x = m.tail THEN e ELSE m.n.next[x]
            /\ \A x \in Elem : l.n.prev[x] = IF x = e /\ kind # "single" THEN m.tail ELSE m.n.prev[x]
            /\ l.head = IF m.tail = NULL THEN e ELSE m.head
            /\ l.tail = e /\ l.p = m.p /\ l.q = m.q
            /\ l.psize = m.psize /\ l.qsize = m.qsize /\ l.nmerges = m.nmerges
<1> DEFINE n1 == IF m.tail = NULL THEN m.n ELSE SetNext(m.n, m.tail, e)
           n2 == IF kind = "single" THEN n1 ELSE SetPrev(n1, e, m.tail)
<1>1. m.n \in Pointers /\ m.tail \in Link /\ NULL \notin Elem
  BY MergeSortAssumption DEF Merges
<1>2. /\ n1 \in Pointers /\ n1.prev = m.n.prev
      /\ \A x \in Elem : n1.next[x] = IF x = m.tail THEN e ELSE m.n.next[x]
  <2>1. CASE m.tail = NULL
    BY <1>1, <2>1
  <2>2. CASE m.tail # NULL
    <3>1. m.tail \in Elem
      BY <1>1, <2>2 DEF Link
    <3>2. n1 = [m.n EXCEPT !.next = [m.n.next EXCEPT ![m.tail] = e]]
      BY <1>1, <2>2 DEF SetNext, Pointers
    <3> QED
      BY <1>1, <3>1, <3>2 DEF Pointers, Link
  <2> QED
    BY <2>1, <2>2
<1> HIDE DEF n1
<1>3. /\ n2 \in Pointers /\ n2.next = n1.next
      /\ \A x \in Elem : n2.prev[x] = IF x = e /\ kind # "single" THEN m.tail ELSE n1.prev[x]
  <2>1. CASE kind = "single"
    BY <1>2, <2>1
  <2>2. CASE kind # "single"
    <3>1. n2 = [n1 EXCEPT !.prev = [n1.prev EXCEPT ![e] = m.tail]]
      BY <1>2, <2>2 DEF SetPrev, Pointers
    <3> QED
      BY <1>1, <1>2, <2>2, <3>1 DEF Pointers, Link
  <2> QED
    BY <2>1, <2>2
<1>4. Linked(m, e, kind) = [m EXCEPT !.n = n2, !.head = IF m.tail = NULL THEN e ELSE m.head, !.tail = e]
  BY DEF Linked, n1, Merges
<1> HIDE DEF n2
<1> DEFINE l == Linked(m, e, kind)
<1>5. l \in Merges
  BY <1>1, <1>3, <1>4 DEF Merges, Link
<1>6. /\ l.n = n2 /\ l.head = (IF m.tail = NULL THEN e ELSE m.head)
      /\ l.tail = e /\ l.p = m.p /\ l.q = m.q
      /\ l.psize = m.psize /\ l.qsize = m.qsize /\ l.nmerges = m.nmerges
  BY <1>4 DEF Merges
<1> HIDE DEF l
<1> QED
  BY <1>2, <1>3, <1>5, <1>6 DEF l

(* A node that was pending is linked to the end of the new list. *)
LEMMA LinkShape ==
  ASSUME NEW s, NEW n, NEW k, NEW end, Setting(s, n, k, end), NEW kind, NEW out,
         NEW a \in Nat, NEW b \in Nat, NEW d \in Nat, NEW m, Shape(m, s, n, kind, out, a, b, d),
         NEW j \in 1 .. Len(s), Pending(j, a, b, d),
         NEW m1 \in Merges, m1.n = m.n, m1.head = m.head, m1.tail = m.tail,
         NEW a2 \in Nat, NEW b2 \in Nat, a2 + b2 = a + b + 1,
         \A i \in 1 .. Len(s) : Pending(i, a2, b2, d) <=> Pending(i, a, b, d) /\ i # j,
         a2 < d => m1.p = s[a2 + 1],
         m1.q = IF b2 < Len(s) THEN s[b2 + 1] ELSE NULL
  PROVE  Shape(Linked(m1, s[j], kind), s, n, kind, Append(out, s[j]), a2, b2, d)
<1> DEFINE e == s[j]
           l == Linked(m1, e, kind)
           o == Append(out, e)
           z == Len(out)
<1>1. /\ s \in Seq(Elem) /\ e \in Elem /\ out \in Seq(Elem) /\ z \in Nat /\ NULL \notin Elem
      /\ Len(s) \in Nat
  <2>1. s \in Seq(Elem) /\ out \in Seq(Elem)
    BY DEF Setting, Distinct, Shape
  <2> QED
    BY <2>1, ElementOfSeq, LenProperties, MergeSortAssumption
<1>2. /\ o \in Seq(Elem) /\ o # <<>> /\ Len(o) = z + 1
      /\ \A i \in 1 .. z : o[i] = out[i]
      /\ o[z + 1] = e
  <2> HIDE DEF e
  <2>1. e \in Elem /\ out \in Seq(Elem)
    BY <1>1
  <2> QED
    BY <2>1, AppendProperties
<1>3. /\ l \in Merges
      /\ \A x \in Elem : l.n.next[x] = IF x = m.tail THEN e ELSE m.n.next[x]
      /\ \A x \in Elem : l.n.prev[x] = IF x = e /\ kind # "single" THEN m.tail ELSE m.n.prev[x]
      /\ l.head = IF m.tail = NULL THEN e ELSE m.head
      /\ l.tail = e /\ l.p = m1.p /\ l.q = m1.q
  BY <1>1, LinkedIs
<1> HIDE DEF e, l, o
<1>4. \A i \in 1 .. z : out[i] \in Elem /\ out[i] # e
  <2> SUFFICES ASSUME NEW i \in 1 .. z
               PROVE  out[i] \in Elem /\ out[i] # e
    OBVIOUS
  <2>1. PICK j1 \in 1 .. Len(s) : ~Pending(j1, a, b, d) /\ out[i] = s[j1]
    BY DEF Shape
  <2>2. j1 # j
    BY <2>1
  <2> QED
    BY <1>1, <2>1, <2>2 DEF Setting, Distinct, e
<1>5. \A i, i1 \in 1 .. z : out[i] = out[i1] => i = i1
  BY DEF Shape, Distinct
<1>6. /\ out = <<>> <=> z = 0
      /\ m.tail = IF z = 0 THEN NULL ELSE out[z]
      /\ m.head = IF z = 0 THEN NULL ELSE out[1]
  <2>1. out = <<>> <=> z = 0
    BY <1>1, EmptySeq
  <2>2. /\ m.head = IF out = <<>> THEN NULL ELSE out[1]
        /\ m.tail = IF out = <<>> THEN NULL ELSE Last(out)
    BY DEF Shape
  <2>3. Last(out) = out[z]
    BY DEF Last
  <2> HIDE DEF z
  <2> QED
    BY <2>1, <2>2, <2>3
<1>7. Distinct(o)
  <2> SUFFICES ASSUME NEW i \in 1 .. z + 1, NEW i1 \in 1 .. z + 1, o[i] = o[i1]
               PROVE  i = i1
    BY <1>2 DEF Distinct
  <2>1. CASE i \in 1 .. z /\ i1 \in 1 .. z
    BY <1>2, <1>5, <2>1
  <2>2. CASE i = z + 1 \/ i1 = z + 1
    <3>1. \A x \in 1 .. z : o[x] # o[z + 1]
      BY <1>2, <1>4
    <3>2. \A x \in 1 .. z + 1 : x = z + 1 \/ x \in 1 .. z
      BY <1>1
    <3> QED
      BY <2>2, <3>1, <3>2
  <2> QED
    BY <1>1, <2>1, <2>2
<1>8. Len(o) = a2 + b2 - d
  BY <1>1, <1>2 DEF Shape
<1>9. \A i \in 1 .. Len(o) : \E j1 \in 1 .. Len(s) : ~Pending(j1, a2, b2, d) /\ o[i] = s[j1]
  <2> SUFFICES ASSUME NEW i \in 1 .. Len(o)
               PROVE  \E j1 \in 1 .. Len(s) : ~Pending(j1, a2, b2, d) /\ o[i] = s[j1]
    OBVIOUS
  <2>1. CASE i = z + 1
    BY <1>2, <2>1 DEF e
  <2>2. CASE i \in 1 .. z
    <3>1. PICK j1 \in 1 .. Len(s) : ~Pending(j1, a, b, d) /\ out[i] = s[j1]
      BY <2>2 DEF Shape
    <3> QED
      BY <1>2, <2>2, <3>1
  <2> QED
    BY <1>1, <1>2, <2>1, <2>2, SMTT(30)
<1>10. \A i \in 1 .. Len(o) - 1 : l.n.next[o[i]] = o[i + 1]
  <2> SUFFICES ASSUME NEW i \in 1 .. z
               PROVE  l.n.next[o[i]] = o[i + 1]
    BY <1>2
  <2>1. o[i] = out[i] /\ out[i] \in Elem
    BY <1>2, <1>4
  <2>2. CASE i = z
    BY <1>2, <1>3, <1>6, <2>1, <2>2
  <2>3. CASE i < z
    <3>1. out[i] # m.tail
      BY <1>1, <1>5, <1>6, <2>3
    <3>2. i \in 1 .. Len(out) - 1 /\ i + 1 \in 1 .. z
      BY <1>1, <2>3
    <3>3. m.n.next[out[i]] = out[i + 1]
      BY <3>2 DEF Shape
    <3>4. o[i + 1] = out[i + 1]
      BY <1>2, <3>2
    <3> QED
      BY <1>3, <2>1, <3>1, <3>3, <3>4
  <2> QED
    BY <1>1, <2>2, <2>3
<1>11. kind # "single" => \A i \in 1 .. Len(o) : l.n.prev[o[i]] = IF i = 1 THEN NULL ELSE o[i - 1]
  <2> SUFFICES ASSUME kind # "single", NEW i \in 1 .. z + 1
               PROVE  l.n.prev[o[i]] = IF i = 1 THEN NULL ELSE o[i - 1]
    BY <1>2
  <2>1. CASE i = z + 1
    <3>1. l.n.prev[o[i]] = m.tail
      BY <1>1, <1>2, <1>3, <2>1 DEF e
    <3> QED
      BY <1>1, <1>2, <1>6, <2>1, <3>1, SMTT(30)
  <2>2. CASE i \in 1 .. z
    <3>1. m.n.prev[out[i]] = IF i = 1 THEN NULL ELSE out[i - 1]
      BY <2>2 DEF Shape
    <3>2. l.n.prev[o[i]] = m.n.prev[out[i]]
      BY <1>2, <1>3, <1>4, <2>2, SMTT(30)
    <3>3. i # 1 => o[i - 1] = out[i - 1]
      BY <1>1, <1>2, <2>2, SMTT(30)
    <3> QED
      BY <3>1, <3>2, <3>3
  <2> QED
    BY <1>1, <2>1, <2>2
<1>12. \A i \in 1 .. Len(s) : Pending(i, a2, b2, d) => l.n.next[s[i]] = n.next[s[i]]
  <2> SUFFICES ASSUME NEW i \in 1 .. Len(s), Pending(i, a, b, d)
               PROVE  l.n.next[s[i]] = n.next[s[i]]
    OBVIOUS
  <2>1. s[i] \in Elem /\ m.n.next[s[i]] = n.next[s[i]]
    BY <1>1 DEF Shape
  <2>2. s[i] # m.tail
    <3> SUFFICES ASSUME z > 0, s[i] = out[z]
                 PROVE  FALSE
      BY <1>1, <1>6, <2>1
    <3>1. PICK j1 \in 1 .. Len(s) : ~Pending(j1, a, b, d) /\ out[z] = s[j1]
      BY <1>1 DEF Shape
    <3> QED
      BY <3>1 DEF Setting, Distinct
  <2> QED
    BY <1>3, <2>1, <2>2
<1>13. \A x \in Elem : x \notin Range(s) => l.n.next[x] = n.next[x] /\ l.n.prev[x] = n.prev[x]
  <2> SUFFICES ASSUME NEW x \in Elem, x \notin Range(s)
               PROVE  l.n.next[x] = n.next[x] /\ l.n.prev[x] = n.prev[x]
    OBVIOUS
  <2>1. \A i \in 1 .. Len(s) : x # s[i]
    BY <1>1, RangeEquality
  <2>2. x # e
    BY <2>1 DEF e
  <2>3. x # m.tail
    <3> SUFFICES ASSUME z > 0, x = out[z]
                 PROVE  FALSE
      BY <1>1, <1>6
    <3>1. PICK j1 \in 1 .. Len(s) : out[z] = s[j1]
      BY <1>1 DEF Shape
    <3> QED
      BY <2>1, <3>1
  <2>4. m.n.next[x] = n.next[x] /\ m.n.prev[x] = n.prev[x]
    BY DEF Shape
  <2> QED
    BY <1>3, <2>2, <2>3, <2>4
<1>14. l.head = o[1] /\ l.tail = o[Len(o)]
  <2>1. CASE z = 0
    BY <1>2, <1>3, <1>6, <2>1
  <2>2. CASE z > 0
    <3>1. m.tail # NULL
      BY <1>1, <1>4, <1>6, <2>2
    <3> QED
      BY <1>1, <1>2, <1>3, <1>6, <2>2, <3>1
  <2> QED
    BY <1>1, <2>1, <2>2
<1>15. Shape(l, s, n, kind, o, a2, b2, d)
  BY <1>2, <1>3, <1>7, <1>8, <1>9, <1>10, <1>11, <1>12, <1>13, <1>14 DEF Shape, Last
<1> QED
  BY <1>15 DEF l, o, e

-----------------------------------------------------------------------------
(***************************************************************************)
(* The order of a pass.  pos is where the nodes were before the sort; a    *)
(* run of k nodes begins after each of the cuts.                           *)
(***************************************************************************)
Before(pos, x, y) == Key[x] < Key[y] \/ (Key[x] = Key[y] /\ pos[x] < pos[y])

\* The order that a stable sort makes is transitive.
LEMMA BeforeTrans ==
  ASSUME NEW pos \in [Elem -> Int], NEW x \in Elem, NEW y \in Elem, NEW w \in Elem,
         Before(pos, x, y), Before(pos, y, w)
  PROVE  Before(pos, x, w)
<1>1. Key[x] \in Int /\ Key[y] \in Int /\ Key[w] \in Int
  BY MergeSortAssumption
<1>2. pos[x] \in Int /\ pos[y] \in Int /\ pos[w] \in Int
  OBVIOUS
<1> QED
  BY <1>1, <1>2 DEF Before

InRuns(s, k, pos, cuts) ==
  /\ cuts \subseteq Nat /\ 0 \in cuts
  /\ \A c \in cuts : c + k < Len(s) => c + k \in cuts
  /\ \A c \in cuts, i, j \in 1 .. Len(s) : c < i /\ i < j /\ j <= c + k => Before(pos, s[i], s[j])
  /\ \A c \in cuts, i, j \in 1 .. Len(s) : i <= c /\ c < j => pos[s[i]] < pos[s[j]]

Merged(s, k, pos, cuts, out, a, b, c, d, begun) ==
  /\ begun \subseteq 0 .. c /\ 0 \in begun /\ c \in begun
  /\ \A x \in begun : x < c => x + 2 * k \in begun
  /\ \A x \in begun, i, j \in 1 .. Len(out) :
       x < i /\ i < j /\ j <= x + 2 * k => Before(pos, out[i], out[j])
  /\ \A x \in begun, i, j \in 1 .. Len(out) : i <= x /\ x < j => pos[out[i]] < pos[out[j]]
  /\ \A i \in 1 .. c : \E j \in 1 .. c : out[i] = s[j]
  /\ \A i \in 1 .. Len(out), j \in 1 .. Len(s) :
       c < i /\ Pending(j, a, b, d) /\ j <= c + 2 * k => Before(pos, out[i], s[j])

\* An index up to z + 1 is one up to z or the last.
LEMMA LastOrNot ==
  ASSUME NEW z \in Nat
  PROVE  \A i \in 1 .. z + 1 : i \in 1 .. z \/ i = z + 1
OBVIOUS

\* Two runs to merge, and the node of them that comes before all others left.
TwoRuns(s, k, pos, cuts, a, b, c, d) ==
  /\ s \in Seq(Elem) /\ k \in Nat /\ pos \in [Elem -> Int] /\ InRuns(s, k, pos, cuts)
  /\ c \in cuts /\ a \in Nat /\ b \in Nat /\ d = RunEnd(c, k, Len(s))
  /\ c <= a /\ a <= d /\ d <= b /\ b <= Len(s) /\ b <= d + k

ComesFirst(j, s, k, pos, a, b, c, d) ==
  \A i \in 1 .. Len(s) :
    Pending(i, a, b, d) /\ i # j /\ i <= c + 2 * k => Before(pos, s[j], s[i])

QueueBelow(s, k, a, b, d) ==
  b < Len(s) /\ b < d + k /\ (a < d => Key[s[a + 1]] > Key[s[b + 1]])

RunBelow(s, k, a, b, d) ==
  a < d /\ (b < Len(s) /\ b < d + k => Key[s[a + 1]] <= Key[s[b + 1]])

(* A pending node that comes before all other pending ones of this merge. *)
LEMMA MergedStep ==
  ASSUME NEW s \in Seq(Elem), NEW k \in Nat, NEW pos \in [Elem -> Int], NEW cuts, InRuns(s, k, pos, cuts),
         NEW out \in Seq(Elem), NEW a \in Nat, NEW b \in Nat, NEW c \in cuts, NEW d \in Nat,
         NEW begun, Merged(s, k, pos, cuts, out, a, b, c, d, begun),
         c <= Len(out), Len(out) < c + 2 * k,
         NEW j \in 1 .. Len(s), Pending(j, a, b, d), c < j,
         ComesFirst(j, s, k, pos, a, b, c, d),
         j <= c + 2 * k,
         NEW a2 \in Nat, NEW b2 \in Nat,
         \A i \in 1 .. Len(s) : Pending(i, a2, b2, d) => Pending(i, a, b, d) /\ i # j
  PROVE  Merged(s, k, pos, cuts, Append(out, s[j]), a2, b2, c, d, begun)
<1> DEFINE e == s[j]
           o == Append(out, e)
           z == Len(out)
<1>1. /\ e \in Elem /\ z \in Nat /\ c \in Nat /\ Len(s) \in Nat
  BY ElementOfSeq, LenProperties DEF InRuns
<1>2. /\ o \in Seq(Elem) /\ Len(o) = z + 1
      /\ \A i \in 1 .. z : o[i] = out[i]
      /\ o[z + 1] = e
  <2> HIDE DEF e
  <2> QED
    BY <1>1, AppendProperties
<1> HIDE DEF e, o
<1>3. begun \subseteq 0 .. c /\ 0 \in begun /\ c \in begun /\ \A x \in begun : x < c => x + 2 * k \in begun
  BY DEF Merged
<1>4. ASSUME NEW x \in begun, NEW i \in 1 .. z + 1, NEW i1 \in 1 .. z + 1, x < i, i < i1, i1 <= x + 2 * k
      PROVE  Before(pos, o[i], o[i1])
  <2>1. CASE i1 \in 1 .. z
    <3>1. i \in 1 .. z
      BY <1>1, <1>4, <2>1
    <3>2. Before(pos, out[i], out[i1])
      BY <1>4, <2>1, <3>1 DEF Merged
    <3> QED
      BY <1>2, <2>1, <3>1, <3>2
  <2>2. CASE i1 = z + 1
    <3>1. x = c
      <4> SUFFICES ASSUME x < c PROVE FALSE
        BY <1>1, <1>3
      <4>1. x + 2 * k \in 0 .. c
        BY <1>3
      <4> QED
        BY <1>1, <1>4, <2>2, <4>1
    <3>2. i \in 1 .. z /\ c < i
      BY <1>4, <2>2, <3>1
    <3>3. Before(pos, out[i], s[j])
      BY <3>2 DEF Merged
    <3> QED
      BY <1>2, <2>2, <3>2, <3>3 DEF e
  <2>3. i1 \in 1 .. z \/ i1 = z + 1
    BY <1>1, LastOrNot
  <2> QED
    BY <2>1, <2>2, <2>3
<1>5. ASSUME NEW x \in begun, NEW i \in 1 .. z + 1, NEW i1 \in 1 .. z + 1, i <= x, x < i1
      PROVE  pos[o[i]] < pos[o[i1]]
  <2>1. x \in Nat /\ x <= c
    BY <1>1, <1>3
  <2>2. i \in 1 .. c /\ i \in 1 .. z
    BY <1>1, <1>5, <2>1
  <2>3. CASE i1 \in 1 .. z
    BY <1>2, <1>5, <2>2, <2>3 DEF Merged
  <2>4. CASE i1 = z + 1
    <3>1. PICK i2 \in 1 .. c : out[i] = s[i2]
      BY <2>2 DEF Merged
    <3>2. i2 \in 1 .. Len(s) /\ i2 <= c
      BY <1>1
    <3>3. pos[s[i2]] < pos[s[j]]
      BY <3>2 DEF InRuns
    <3> QED
      BY <1>2, <2>2, <2>4, <3>1, <3>3 DEF e
  <2>5. i1 \in 1 .. z \/ i1 = z + 1
    BY <1>1, LastOrNot
  <2> QED
    BY <2>3, <2>4, <2>5
<1>6. \A i \in 1 .. c : \E i1 \in 1 .. c : o[i] = s[i1]
  <2> SUFFICES ASSUME NEW i \in 1 .. c
               PROVE  \E i1 \in 1 .. c : o[i] = s[i1]
    OBVIOUS
  <2>1. i \in 1 .. z
    BY <1>1
  <2> QED
    BY <1>2, <2>1 DEF Merged
<1>7. ASSUME NEW i \in 1 .. z + 1, NEW i1 \in 1 .. Len(s), c < i, Pending(i1, a2, b2, d), i1 <= c + 2 * k
      PROVE  Before(pos, o[i], s[i1])
  <2>1. Pending(i1, a, b, d) /\ i1 # j
    BY <1>7
  <2>2. CASE i \in 1 .. z
    BY <1>2, <1>7, <2>1, <2>2 DEF Merged
  <2>3. CASE i = z + 1
    BY <1>2, <1>7, <2>1, <2>3 DEF e, ComesFirst
  <2>4. i \in 1 .. z \/ i = z + 1
    BY <1>1, LastOrNot
  <2> QED
    BY <2>2, <2>3, <2>4
<1>8. Merged(s, k, pos, cuts, o, a2, b2, c, d, begun)
  BY <1>2, <1>3, <1>4, <1>5, <1>6, <1>7 DEF Merged
<1> QED
  BY <1>8 DEF o, e

(* The node that a merge takes next comes before all others it has left. *)
LEMMA QueueFirst ==
  ASSUME NEW s, NEW k, NEW pos, NEW cuts, NEW a, NEW b, NEW c, NEW d,
         TwoRuns(s, k, pos, cuts, a, b, c, d), QueueBelow(s, k, a, b, d)
  PROVE  ComesFirst(b + 1, s, k, pos, a, b, c, d)
<1> SUFFICES ASSUME NEW i \in 1 .. Len(s), Pending(i, a, b, d), i # b + 1, i <= c + 2 * k
             PROVE  Before(pos, s[b + 1], s[i])
  BY DEF ComesFirst
<1>0. /\ s \in Seq(Elem) /\ k \in Nat /\ pos \in [Elem -> Int] /\ InRuns(s, k, pos, cuts)
      /\ c \in cuts /\ a \in Nat /\ b \in Nat /\ d = RunEnd(c, k, Len(s))
      /\ c <= a /\ a <= d /\ d <= b /\ b < Len(s) /\ b < d + k
      /\ a < d => Key[s[a + 1]] > Key[s[b + 1]]
  BY DEF TwoRuns, QueueBelow
<1>1. /\ Key \in [Elem -> Int] /\ Len(s) \in Nat /\ c \in Nat /\ d \in Nat
      /\ \A x \in 1 .. Len(s) : s[x] \in Elem
  BY <1>0, MergeSortAssumption, ElementOfSeq, LenProperties DEF InRuns, RunEnd
<1>2. d = c + k /\ d \in cuts /\ b + 1 \in 1 .. Len(s)
  BY <1>0, <1>1 DEF InRuns, RunEnd
<1>3. \A x, y \in 1 .. Len(s) : d < x /\ x < y /\ y <= d + k => Before(pos, s[x], s[y])
  BY <1>0, <1>2 DEF InRuns
<1>4. \A x, y \in 1 .. Len(s) : c < x /\ x < y /\ y <= c + k => Before(pos, s[x], s[y])
  BY <1>0 DEF InRuns
<1>5. CASE i > d
  <2>1. i > b + 1
    BY <1>0, <1>1, <1>5 DEF Pending
  <2> QED
    BY <1>0, <1>1, <1>2, <1>3, <2>1
<1>6. CASE i <= d
  <2>1. a < i /\ a + 1 \in 1 .. Len(s)
    <3>1. a < i /\ a < d
      BY <1>0, <1>1, <1>6 DEF Pending
    <3> QED
      BY <1>0, <1>1, <3>1
  <2>2. Key[s[a + 1]] > Key[s[b + 1]]
    BY <1>0, <1>1, <1>6, <2>1
  <2>3. i = a + 1 \/ Before(pos, s[a + 1], s[i])
    BY <1>0, <1>1, <1>2, <1>4, <1>6, <2>1
  <2>4. Key[s[a + 1]] \in Int /\ Key[s[b + 1]] \in Int
    BY <1>1, <1>2, <2>1
  <2>5. Before(pos, s[b + 1], s[a + 1])
    BY <2>2, <2>4 DEF Before
  <2>6. s[b + 1] \in Elem /\ s[a + 1] \in Elem /\ s[i] \in Elem
    BY <1>1, <1>2, <2>1
  <2> QED
    BY <1>0, <2>3, <2>5, <2>6, BeforeTrans
<1> QED
  BY <1>1, <1>5, <1>6

\* The next node of the first run comes first of what is left, when cmp takes it.
LEMMA RunFirst ==
  ASSUME NEW s, NEW k, NEW pos, NEW cuts, NEW a, NEW b, NEW c, NEW d,
         TwoRuns(s, k, pos, cuts, a, b, c, d), RunBelow(s, k, a, b, d)
  PROVE  ComesFirst(a + 1, s, k, pos, a, b, c, d)
<1> SUFFICES ASSUME NEW i \in 1 .. Len(s), Pending(i, a, b, d), i # a + 1, i <= c + 2 * k
             PROVE  Before(pos, s[a + 1], s[i])
  BY DEF ComesFirst
<1>0. /\ s \in Seq(Elem) /\ k \in Nat /\ pos \in [Elem -> Int] /\ InRuns(s, k, pos, cuts)
      /\ c \in cuts /\ a \in Nat /\ b \in Nat /\ d = RunEnd(c, k, Len(s))
      /\ c <= a /\ a < d /\ d <= b /\ b <= Len(s) /\ b <= d + k
      /\ b < Len(s) /\ b < d + k => Key[s[a + 1]] <= Key[s[b + 1]]
  BY DEF TwoRuns, RunBelow
<1>1. /\ Key \in [Elem -> Int] /\ Len(s) \in Nat /\ c \in Nat /\ d \in Nat
      /\ \A x \in 1 .. Len(s) : s[x] \in Elem
  BY <1>0, MergeSortAssumption, ElementOfSeq, LenProperties DEF InRuns, RunEnd
<1>2. a + 1 \in 1 .. Len(s)
  BY <1>0, <1>1
<1>3. \A x, y \in 1 .. Len(s) : c < x /\ x < y /\ y <= c + k => Before(pos, s[x], s[y])
  BY <1>0 DEF InRuns
<1>4. CASE i <= d
  <2>1. a + 1 < i /\ c < a + 1 /\ i <= c + k
    BY <1>0, <1>1, <1>4 DEF Pending, RunEnd
  <2> QED
    BY <1>0, <1>2, <1>3, <2>1
<1>5. CASE i > d
  <2>1. i > b /\ d = c + k /\ d \in cuts /\ b + 1 \in 1 .. Len(s) /\ b < d + k
    <3>1. i > b /\ d < Len(s)
      <4>1. Pending(i, a, b, d) /\ i \in 1 .. Len(s) /\ i > d /\ d \in Nat /\ Len(s) \in Nat
        BY <1>1, <1>5
      <4>2. ~(i <= d) /\ d < Len(s)
        BY <4>1
      <4> QED
        BY <4>1, <4>2 DEF Pending
    <3>2. d = c + k /\ c + k < Len(s)
      BY <1>0, <1>1, <3>1 DEF RunEnd
    <3>3. d \in cuts
      BY <1>0, <3>2 DEF InRuns
    <3>4. b + 1 \in 1 .. Len(s) /\ b < d + k
      BY <1>0, <1>1, <3>1, <3>2
    <3> QED
      BY <1>0, <3>1, <3>2, <3>3, <3>4
  <2>2. Key[s[a + 1]] <= Key[s[b + 1]]
    BY <1>0, <1>1, <2>1
  <2>3. \A x, y \in 1 .. Len(s) : x <= d /\ d < y => pos[s[x]] < pos[s[y]]
    BY <1>0, <2>1 DEF InRuns
  <2>7. a + 1 <= d /\ d < b + 1
    BY <1>0, <1>1, <2>1
  <2>4. pos[s[a + 1]] < pos[s[b + 1]]
    BY <1>0, <1>2, <2>1, <2>3, <2>7
  <2>8. i = b + 1 \/ (d < b + 1 /\ b + 1 < i /\ i <= d + k)
    BY <1>0, <1>1, <2>1
  <2>5. i = b + 1 \/ Before(pos, s[b + 1], s[i])
    BY <1>0, <2>1, <2>8 DEF InRuns
  <2>6. s[b + 1] \in Elem /\ s[a + 1] \in Elem /\ s[i] \in Elem
    BY <1>0, <1>1, <1>2, <2>1
  <2>9. Before(pos, s[a + 1], s[b + 1])
    <3>1. Key[s[a + 1]] \in Int /\ Key[s[b + 1]] \in Int
      BY <1>0, <1>1, <2>6
    <3> QED
      <4>1. Key[s[a + 1]] < Key[s[b + 1]] \/ Key[s[a + 1]] = Key[s[b + 1]]
        BY <2>2, <3>1
      <4> QED
        BY <2>4, <4>1 DEF Before
  <2> QED
    BY <1>0, <2>5, <2>6, <2>9, BeforeTrans
<1> QED
  BY <1>0, <1>1, <1>4, <1>5

-----------------------------------------------------------------------------
(* A pass over s, and where it is: out is made of the merges begun so far. *)
Passing(s, n, k, end, pos, cuts) ==
  Setting(s, n, k, end) /\ pos \in [Elem -> Int] /\ InRuns(s, k, pos, cuts)

Midway(m, s, n, k, kind, pos, cuts, out, a, b, c, d, begun) ==
  /\ Shape(m, s, n, kind, out, a, b, d)
  /\ Cursors(Len(s), k, m, a, b, c, d)
  /\ c \in cuts
  /\ Merged(s, k, pos, cuts, out, a, b, c, d, begun)

(* The pointer that a pass moves on goes to the next node, or is NULL at the end. *)
LEMMA AfterPending ==
  ASSUME NEW s, NEW n, NEW k, NEW end, Setting(s, n, k, end), NEW kind, NEW out,
         NEW a, NEW b, NEW d, NEW m, Shape(m, s, n, kind, out, a, b, d),
         NEW j \in 1 .. Len(s), Pending(j, a, b, d)
  PROVE  After(m, s[j], end) = IF j < Len(s) THEN s[j + 1] ELSE NULL
<1>1. Len(s) \in Nat
  BY LenProperties DEF Setting, Distinct
<1>2. m.n.next[s[j]] = IF j < Len(s) THEN s[j + 1] ELSE end
  BY DEF Shape, Setting, Follows
<1>3. j < Len(s) => s[j + 1] # end
  BY <1>1 DEF Setting
<1> QED
  BY <1>2, <1>3 DEF After

\* A turn that takes from the second run keeps the state of the pass.
LEMMA TakeQStep ==
  ASSUME NEW s, NEW n, NEW k, NEW end, NEW pos, NEW cuts, Passing(s, n, k, end, pos, cuts),
         NEW kind, NEW m, NEW out, NEW a, NEW b, NEW c, NEW d, NEW begun,
         Midway(m, s, n, k, kind, pos, cuts, out, a, b, c, d, begun), Merging(m), TakeQ(m)
  PROVE  /\ b < Len(s)
         /\ Midway(Take(m, kind, end), s, n, k, kind, pos, cuts, Append(out, s[b + 1]), a, b + 1, c, d, begun)
<1>1. /\ s \in Seq(Elem) /\ Len(s) \in Nat /\ k \in Nat \ {0} /\ NULL \notin Elem /\ m \in Merges
      /\ out \in Seq(Elem) /\ Len(out) = a + b - d /\ pos \in [Elem -> Int] /\ InRuns(s, k, pos, cuts)
      /\ c \in cuts /\ cuts \subseteq Nat
  BY LenProperties, MergeSortAssumption DEF Passing, Setting, Distinct, Midway, Shape, InRuns
<1>2. /\ a \in Nat /\ b \in Nat /\ c \in Nat /\ d \in Nat
      /\ c <= a /\ a <= d /\ d <= b /\ b <= Len(s)
      /\ m.psize = d - a
      /\ m.nmerges = 0 => b = 0 /\ m.qsize = 0
      /\ m.nmerges > 0 => /\ c < Len(s) /\ d = RunEnd(c, k, Len(s))
                          /\ b <= d + k /\ m.qsize = d + k - b
  BY DEF Midway, Cursors
<1>3. /\ m.psize \in Nat /\ m.qsize \in Nat /\ m.nmerges \in Nat
  BY <1>1 DEF Merges
<1>4. m.qsize > 0 /\ m.q # NULL
  BY <1>3 DEF Merging, TakeQ
<1>5. m.nmerges > 0 /\ b < d + k
  BY <1>1, <1>2, <1>3, <1>4
<1>6. b < Len(s) /\ m.q = s[b + 1]
  <2>1. m.q = IF b < Len(s) THEN s[b + 1] ELSE NULL
    BY DEF Midway, Shape
  <2>2. b < Len(s)
    BY <1>4, <2>1
  <2> QED
    BY <2>1, <2>2
<1>7. b + 1 \in 1 .. Len(s) /\ Pending(b + 1, a, b, d) /\ c < b + 1 /\ s[b + 1] \in Elem
  <2>1. b + 1 \in 1 .. Len(s) /\ b < b + 1 /\ c < b + 1
    BY <1>1, <1>2, <1>6
  <2> QED
    BY <1>1, <2>1, ElementOfSeq DEF Pending
<1> DEFINE m1 == [m EXCEPT !.q = After(m, m.q, end), !.qsize = m.qsize - 1]
<1>8. After(m, m.q, end) = IF b + 1 < Len(s) THEN s[(b + 1) + 1] ELSE NULL
  BY <1>6, <1>7, AfterPending DEF Passing, Midway
<1>9. After(m, m.q, end) \in Link
  <2>1. b + 1 < Len(s) => s[(b + 1) + 1] \in Elem
    BY <1>1, <1>2, ElementOfSeq
  <2> QED
    BY <1>8, <2>1 DEF Link
<1>10. /\ m1 \in Merges
       /\ m1.n = m.n /\ m1.head = m.head /\ m1.tail = m.tail /\ m1.p = m.p /\ m1.psize = m.psize
       /\ m1.q = After(m, m.q, end) /\ m1.qsize = m.qsize - 1 /\ m1.nmerges = m.nmerges
  <2>1. m.qsize - 1 \in Nat
    BY <1>3, <1>4
  <2> QED
    BY <1>1, <1>9, <2>1 DEF Merges
<1>11. Take(m, kind, end) = Linked(m1, s[b + 1], kind)
  BY <1>1, <1>6 DEF Take, Merges
<1> HIDE DEF m1
<1>12. \A i \in 1 .. Len(s) : Pending(i, a, b + 1, d) <=> Pending(i, a, b, d) /\ i # b + 1
  BY <1>1, <1>2 DEF Pending
<1>13. a < d => m1.p = s[a + 1]
  BY <1>10 DEF Midway, Shape
<1>14. m1.q = IF b + 1 < Len(s) THEN s[(b + 1) + 1] ELSE NULL
  BY <1>8, <1>10
<1>15. Shape(Linked(m1, s[b + 1], kind), s, n, kind, Append(out, s[b + 1]), a, b + 1, d)
  <2>1. Setting(s, n, k, end) /\ Shape(m, s, n, kind, out, a, b, d)
    BY DEF Passing, Midway
  <2>2. a + (b + 1) = a + b + 1 /\ b + 1 \in Nat
    BY <1>2
  <2> QED
    BY <1>2, <1>7, <1>10, <1>12, <1>13, <1>14, <2>1, <2>2, LinkShape
<1>16. LET l == Linked(m1, s[b + 1], kind)
       IN l.psize = m.psize /\ l.qsize = m.qsize - 1 /\ l.nmerges = m.nmerges
  BY <1>7, <1>10, LinkedIs
<1>17. Cursors(Len(s), k, Linked(m1, s[b + 1], kind), a, b + 1, c, d)
  <2> DEFINE l == Linked(m1, s[b + 1], kind)
  <2>1. l.psize = d - a /\ l.qsize = m.qsize - 1 /\ l.nmerges = m.nmerges
    BY <1>2, <1>16
  <2>2. m.nmerges <= 1 => c = 0
    BY DEF Midway, Cursors
  <2>3. m.nmerges > 1 => 2 * k < Len(s)
    BY DEF Midway, Cursors
  <2> HIDE DEF l
  <2>4. /\ b + 1 \in Nat /\ d <= b + 1 /\ b + 1 <= Len(s) /\ b + 1 <= d + k
        /\ l.qsize = d + k - (b + 1) /\ ~(l.nmerges = 0)
    <3>1. m.qsize = d + k - b
      BY <1>2, <1>5
    <3> QED
      <4>1. l.qsize = d + k - (b + 1)
        BY <1>1, <1>2, <2>1, <3>1
      <4>2. ~(l.nmerges = 0)
        BY <1>3, <1>5, <2>1
      <4> QED
        BY <1>1, <1>2, <1>5, <1>6, <4>1, <4>2
  <2>5. Cursors(Len(s), k, l, a, b + 1, c, d)
    BY <1>2, <1>5, <2>1, <2>2, <2>3, <2>4 DEF Cursors
  <2> QED
    BY <2>5 DEF l
<1>18. Merged(s, k, pos, cuts, Append(out, s[b + 1]), a, b + 1, c, d, begun)
  <2>1. a < d => Key[s[a + 1]] > Key[s[b + 1]]
    BY <1>2, <1>3, <1>6 DEF TakeQ, Midway, Shape
  <2>2. d = RunEnd(c, k, Len(s))
    BY <1>2, <1>5
  <2>3. ComesFirst(b + 1, s, k, pos, a, b, c, d)
    <3>1. TwoRuns(s, k, pos, cuts, a, b, c, d)
      BY <1>1, <1>2, <1>5, <2>2 DEF TwoRuns
    <3>2. QueueBelow(s, k, a, b, d)
      BY <1>4, <1>5, <1>6, <2>1 DEF QueueBelow
    <3> QED
      BY <3>1, <3>2, QueueFirst
  <2>4. c <= Len(out) /\ Len(out) < c + 2 * k /\ b + 1 <= c + 2 * k
    <3>1. d <= c + k /\ k \in Nat
      BY <1>1, <1>2, <2>2 DEF RunEnd
    <3> DEFINE z == Len(out)
    <3>2. /\ a \in Nat /\ b \in Nat /\ c \in Nat /\ d \in Nat /\ c <= a /\ a <= d /\ d <= b /\ b < d + k
          /\ z = a + b - d
      BY <1>1, <1>2, <1>5, <1>6
    <3> HIDE DEF z
    <3>3. c <= z /\ z < c + 2 * k /\ b + 1 <= c + 2 * k
      BY <3>1, <3>2
    <3> QED
      BY <3>3 DEF z
  <2>5. \A i \in 1 .. Len(s) : Pending(i, a, b + 1, d) => Pending(i, a, b, d) /\ i # b + 1
    BY <1>12
  <2>6. Merged(s, k, pos, cuts, out, a, b, c, d, begun)
    BY DEF Midway
  <2>7. b + 1 \in Nat /\ k \in Nat
    BY <1>1, <1>2
  <2> DEFINE j == b + 1
  <2>8. /\ s \in Seq(Elem) /\ k \in Nat /\ pos \in [Elem -> Int] /\ InRuns(s, k, pos, cuts) /\ out \in Seq(Elem)
        /\ a \in Nat /\ b \in Nat /\ c \in cuts /\ d \in Nat /\ c <= Len(out) /\ Len(out) < c + 2 * k
        /\ j \in 1 .. Len(s) /\ Pending(j, a, b, d) /\ c < j /\ ComesFirst(j, s, k, pos, a, b, c, d)
        /\ j <= c + 2 * k /\ j \in Nat
        /\ \A i \in 1 .. Len(s) : Pending(i, a, j, d) => Pending(i, a, b, d) /\ i # j
    BY <1>1, <1>2, <1>7, <2>3, <2>4, <2>5, <2>7
  <2> HIDE DEF j
  <2>9. Merged(s, k, pos, cuts, Append(out, s[j]), a, j, c, d, begun)
    BY <2>6, <2>8, MergedStep
  <2> QED
    BY <2>9 DEF j
<1> QED
  BY <1>1, <1>6, <1>11, <1>15, <1>17, <1>18 DEF Midway

\* A turn that takes from the first run keeps the state of the pass.
LEMMA TakePStep ==
  ASSUME NEW s, NEW n, NEW k, NEW end, NEW pos, NEW cuts, Passing(s, n, k, end, pos, cuts),
         NEW kind, NEW m, NEW out, NEW a, NEW b, NEW c, NEW d, NEW begun,
         Midway(m, s, n, k, kind, pos, cuts, out, a, b, c, d, begun), Merging(m), ~TakeQ(m)
  PROVE  /\ a < d
         /\ Midway(Take(m, kind, end), s, n, k, kind, pos, cuts, Append(out, s[a + 1]), a + 1, b, c, d, begun)
<1>1. /\ s \in Seq(Elem) /\ Len(s) \in Nat /\ k \in Nat \ {0} /\ NULL \notin Elem /\ m \in Merges
      /\ out \in Seq(Elem) /\ Len(out) = a + b - d /\ pos \in [Elem -> Int] /\ InRuns(s, k, pos, cuts)
      /\ c \in cuts /\ cuts \subseteq Nat /\ Key \in [Elem -> Int]
  BY LenProperties, MergeSortAssumption DEF Passing, Setting, Distinct, Midway, Shape, InRuns
<1>2. /\ a \in Nat /\ b \in Nat /\ c \in Nat /\ d \in Nat
      /\ c <= a /\ a <= d /\ d <= b /\ b <= Len(s)
      /\ m.psize = d - a
      /\ m.nmerges = 0 => b = 0 /\ m.qsize = 0
      /\ m.nmerges > 0 => /\ c < Len(s) /\ d = RunEnd(c, k, Len(s))
                          /\ b <= d + k /\ m.qsize = d + k - b
  BY DEF Midway, Cursors
<1>3. /\ m.psize \in Nat /\ m.qsize \in Nat /\ m.nmerges \in Nat
  BY <1>1 DEF Merges
<1>4. a < d /\ m.psize > 0
  BY <1>2, <1>3 DEF TakeQ
<1>5. m.nmerges > 0
  BY <1>2, <1>3, <1>4
<1>6. m.p = s[a + 1]
  BY <1>4 DEF Midway, Shape
<1>7. a + 1 \in 1 .. Len(s) /\ Pending(a + 1, a, b, d) /\ c < a + 1 /\ s[a + 1] \in Elem
  BY <1>1, <1>2, <1>4, ElementOfSeq, SMTT(30) DEF Pending
<1> DEFINE m1 == [m EXCEPT !.p = After(m, m.p, end), !.psize = m.psize - 1]
<1>8. After(m, m.p, end) = IF a + 1 < Len(s) THEN s[(a + 1) + 1] ELSE NULL
  BY <1>6, <1>7, AfterPending DEF Passing, Midway
<1>9. After(m, m.p, end) \in Link
  <2>1. a + 1 < Len(s) => s[(a + 1) + 1] \in Elem
    BY <1>1, <1>2, ElementOfSeq
  <2> QED
    BY <1>8, <2>1 DEF Link
<1>10. /\ m1 \in Merges
       /\ m1.n = m.n /\ m1.head = m.head /\ m1.tail = m.tail /\ m1.q = m.q /\ m1.qsize = m.qsize
       /\ m1.p = After(m, m.p, end) /\ m1.psize = m.psize - 1 /\ m1.nmerges = m.nmerges
  <2>1. m.psize - 1 \in Nat
    BY <1>3, <1>4
  <2> QED
    BY <1>1, <1>9, <2>1 DEF Merges
<1>11. Take(m, kind, end) = Linked(m1, s[a + 1], kind)
  <2>1. Take(m, kind, end) = Linked(m1, m.p, kind)
    BY DEF Take
  <2> QED
    BY <1>6, <2>1
<1> HIDE DEF m1
<1>12. \A i \in 1 .. Len(s) : Pending(i, a + 1, b, d) <=> Pending(i, a, b, d) /\ i # a + 1
  <2> SUFFICES ASSUME NEW i \in 1 .. Len(s)
               PROVE  Pending(i, a + 1, b, d) <=> Pending(i, a, b, d) /\ i # a + 1
    OBVIOUS
  <2>1. i \in Nat /\ a \in Nat /\ b \in Nat /\ d \in Nat /\ a < d /\ d <= b
    BY <1>1, <1>2, <1>4
  <2> QED
    BY <2>1 DEF Pending
<1>13. a + 1 < d => m1.p = s[(a + 1) + 1]
  BY <1>1, <1>2, <1>8, <1>10
<1>14. m1.q = IF b < Len(s) THEN s[b + 1] ELSE NULL
  BY <1>10 DEF Midway, Shape
<1>15. Shape(Linked(m1, s[a + 1], kind), s, n, kind, Append(out, s[a + 1]), a + 1, b, d)
  <2>1. Setting(s, n, k, end) /\ Shape(m, s, n, kind, out, a, b, d)
    BY DEF Passing, Midway
  <2>2. (a + 1) + b = a + b + 1 /\ a + 1 \in Nat
    BY <1>2
  <2> QED
    BY <1>2, <1>7, <1>10, <1>12, <1>13, <1>14, <2>1, <2>2, LinkShape
<1>16. LET l == Linked(m1, s[a + 1], kind)
       IN l.psize = m.psize - 1 /\ l.qsize = m.qsize /\ l.nmerges = m.nmerges
  BY <1>7, <1>10, LinkedIs
<1>17. Cursors(Len(s), k, Linked(m1, s[a + 1], kind), a + 1, b, c, d)
  <2> DEFINE l == Linked(m1, s[a + 1], kind)
  <2>1. l.psize = m.psize - 1 /\ l.qsize = m.qsize /\ l.nmerges = m.nmerges
    BY <1>16
  <2>2. m.nmerges <= 1 => c = 0
    BY DEF Midway, Cursors
  <2>3. m.nmerges > 1 => 2 * k < Len(s)
    BY DEF Midway, Cursors
  <2> HIDE DEF l
  <2>4. /\ a + 1 \in Nat /\ c <= a + 1 /\ a + 1 <= d
        /\ l.psize = d - (a + 1) /\ ~(l.nmerges = 0)
    <3>1. m.nmerges # 0
      BY <1>3, <1>5
    <3>2. m.psize = d - a
      BY <1>2
    <3> QED
      BY <1>2, <1>4, <2>1, <3>1, <3>2
  <2>5. Cursors(Len(s), k, l, a + 1, b, c, d)
    BY <1>2, <1>5, <2>1, <2>2, <2>3, <2>4 DEF Cursors
  <2> QED
    BY <2>5 DEF l
<1>18. Merged(s, k, pos, cuts, Append(out, s[a + 1]), a + 1, b, c, d, begun)
  <2>1. b < Len(s) /\ b < d + k => Key[s[a + 1]] <= Key[s[b + 1]]
    <3> SUFFICES ASSUME b < Len(s), b < d + k
                 PROVE  Key[s[a + 1]] <= Key[s[b + 1]]
      OBVIOUS
    <3>1. b + 1 \in 1 .. Len(s) /\ s[b + 1] \in Elem
      BY <1>1, <1>2, ElementOfSeq, SMTT(30)
    <3>2. m.qsize > 0 /\ m.q = s[b + 1] /\ m.q # NULL
      <4>1. m.q = s[b + 1]
        BY DEF Midway, Shape
      <4>2. m.qsize = d + k - b
        BY <1>2, <1>5
      <4> QED
        BY <1>1, <1>2, <3>1, <4>1, <4>2, SMTT(30)
    <3>3. ~(Key[s[a + 1]] > Key[s[b + 1]])
      BY <1>6, <3>2 DEF TakeQ
    <3>4. Key[s[a + 1]] \in Int /\ Key[s[b + 1]] \in Int
      BY <1>1, <1>7, <3>1
    <3> QED
      BY <3>3, <3>4
  <2>2. d = RunEnd(c, k, Len(s))
    BY <1>2, <1>5
  <2>3. ComesFirst(a + 1, s, k, pos, a, b, c, d)
    <3>1. TwoRuns(s, k, pos, cuts, a, b, c, d)
      BY <1>1, <1>2, <1>5, <2>2 DEF TwoRuns
    <3>2. RunBelow(s, k, a, b, d)
      BY <1>4, <1>5, <1>6, <2>1 DEF RunBelow
    <3> QED
      BY <3>1, <3>2, RunFirst
  <2>4. c <= Len(out) /\ Len(out) < c + 2 * k /\ a + 1 <= c + 2 * k
    <3>1. d <= c + k /\ k \in Nat /\ b <= d + k
      BY <1>1, <1>2, <1>5, <2>2 DEF RunEnd
    <3> QED
      <4>1. a + 1 <= d /\ d <= b /\ c <= a /\ a \in Nat /\ b \in Nat /\ c \in Nat /\ d \in Nat /\ Len(out) = a + b - d
        BY <1>1, <1>2, <1>4
      <4> QED
        BY <3>1, <4>1
  <2>5. \A i \in 1 .. Len(s) : Pending(i, a + 1, b, d) => Pending(i, a, b, d) /\ i # a + 1
    BY <1>12
  <2>6. Merged(s, k, pos, cuts, out, a, b, c, d, begun)
    BY DEF Midway
  <2>7. a + 1 \in Nat /\ k \in Nat
    BY <1>1, <1>2
  <2> DEFINE j == a + 1
  <2>8. /\ s \in Seq(Elem) /\ k \in Nat /\ pos \in [Elem -> Int] /\ InRuns(s, k, pos, cuts) /\ out \in Seq(Elem)
        /\ a \in Nat /\ b \in Nat /\ c \in cuts /\ d \in Nat /\ c <= Len(out) /\ Len(out) < c + 2 * k
        /\ j \in 1 .. Len(s) /\ Pending(j, a, b, d) /\ c < j /\ ComesFirst(j, s, k, pos, a, b, c, d)
        /\ j <= c + 2 * k /\ j \in Nat
        /\ \A i \in 1 .. Len(s) : Pending(i, j, b, d) => Pending(i, a, b, d) /\ i # j
    BY <1>1, <1>2, <1>7, <2>3, <2>4, <2>5, <2>7
  <2> HIDE DEF j
  <2>9. Merged(s, k, pos, cuts, Append(out, s[j]), j, b, c, d, begun)
    BY <2>6, <2>8, MergedStep
  <2> QED
    BY <2>9 DEF j
<1> QED
  BY <1>1, <1>4, <1>11, <1>15, <1>17, <1>18 DEF Midway

-----------------------------------------------------------------------------
(* The next merge begins where the second run ended. *)
Begun(m, s, k, b, d1) ==
  [m EXCEPT !.p = s[b + 1], !.q = IF d1 < Len(s) THEN s[d1 + 1] ELSE NULL,
            !.psize = d1 - b, !.qsize = k, !.nmerges = m.nmerges + 1]

\* The next merge begins behind the run that it walks over.
LEMMA BeginIs ==
  ASSUME NEW s, NEW n, NEW k, NEW end, NEW pos, NEW cuts, Passing(s, n, k, end, pos, cuts),
         NEW kind, NEW m, NEW out, NEW a, NEW b, NEW c, NEW d, NEW begun,
         Midway(m, s, n, k, kind, pos, cuts, out, a, b, c, d, begun), b < Len(s), a = d
  PROVE  Begin(m, end, k) = Begun(m, s, k, b, RunEnd(b, k, Len(s)))
<1>1. /\ s \in Seq(Elem) /\ Len(s) \in Nat /\ k \in Nat \ {0} /\ b \in Nat /\ d <= b /\ d \in Nat
      /\ m \in Merges
  BY LenProperties DEF Passing, Setting, Distinct, Midway, Cursors, Shape
<1>2. m.q = s[b + 1]
  BY DEF Midway, Shape
<1> DEFINE u == IF (b + 1) + k < Len(s) THEN (b + 1) + k ELSE Len(s)
           run == SubSeq(s, b + 1, u)
<1>3. Walk(m.n.next, m.q, end, k) = run
  <2>1. \A i \in b + 1 .. Len(s) : m.n.next[s[i]] = IF i < Len(s) THEN s[i + 1] ELSE end
    <3> SUFFICES ASSUME NEW i \in b + 1 .. Len(s)
                 PROVE  m.n.next[s[i]] = IF i < Len(s) THEN s[i + 1] ELSE end
      OBVIOUS
    <3>1. i \in 1 .. Len(s) /\ Pending(i, a, b, d)
      BY <1>1 DEF Pending
    <3> QED
      BY <3>1 DEF Midway, Shape, Passing, Setting, Follows
  <2>2. \A i \in b + 1 .. Len(s) - 1 : m.n.next[s[i]] = s[i + 1] /\ s[i + 1] # end
    <3> SUFFICES ASSUME NEW i \in b + 1 .. Len(s) - 1
                 PROVE  m.n.next[s[i]] = s[i + 1] /\ s[i + 1] # end
      OBVIOUS
    <3>1. i \in b + 1 .. Len(s) /\ i < Len(s) /\ i + 1 \in 2 .. Len(s)
      BY <1>1
    <3> QED
      BY <2>1, <3>1 DEF Passing, Setting
  <2>3. m.n.next[s[Len(s)]] \in {end, NULL}
    BY <1>1, <2>1
  <2>4. b + 1 \in 1 .. Len(s) /\ k \in Nat
    BY <1>1
  <2> DEFINE w == b + 1
  <2>5. /\ \A i \in w .. Len(s) - 1 : m.n.next[s[i]] = s[i + 1] /\ s[i + 1] # end
        /\ w \in 1 .. Len(s) /\ m.q = s[w]
    BY <1>2, <2>2, <2>4
  <2> HIDE DEF w
  <2>6. Walk(m.n.next, s[w], end, k) = SubSeq(s, w, IF w + k < Len(s) THEN w + k ELSE Len(s))
    <3> DEFINE next == m.n.next
    <3>1. /\ s \in Seq(Elem) /\ w \in 1 .. Len(s) /\ k \in Nat
          /\ \A i \in w .. Len(s) - 1 : next[s[i]] = s[i + 1] /\ s[i + 1] # end
          /\ next[s[Len(s)]] \in {end, NULL}
      BY <1>1, <2>3, <2>4, <2>5
    <3> HIDE DEF next
    <3>2. Walk(next, s[w], end, k) = SubSeq(s, w, IF w + k < Len(s) THEN w + k ELSE Len(s))
      BY <3>1, WalkRule
    <3> QED
      BY <3>2 DEF next
  <2> QED
    BY <2>5, <2>6 DEF w
<1>4. /\ run \in Seq(Elem) /\ Len(run) = u - b
      /\ \A i \in 1 .. u - b : run[i] = s[b + i]
  <2>1. b + 1 \in 1 .. Len(s) + 1 /\ u \in b .. Len(s)
    BY <1>1
  <2> HIDE DEF u
  <2>2. /\ run \in Seq(Elem) /\ Len(run) = u - (b + 1) + 1
        /\ \A i \in 1 .. u - (b + 1) + 1 : run[i] = s[(b + 1) + i - 1]
    BY <1>1, <2>1, Piece
  <2>3. u - (b + 1) + 1 = u - b
    BY <1>1, <2>1
  <2>4. \A i \in 1 .. u - b : (b + 1) + i - 1 = b + i
    BY <1>1, <2>1
  <2> QED
    BY <2>2, <2>3, <2>4
<1> HIDE DEF run
<1> DEFINE d1 == RunEnd(b, k, Len(s))
           last == Len(run) <= k
<1>5. /\ last <=> ~(d1 < Len(s))
      /\ (IF last THEN Len(run) ELSE k) = d1 - b
  BY <1>1, <1>4 DEF RunEnd
<1>6. (IF last THEN NULL ELSE Last(run)) = IF d1 < Len(s) THEN s[d1 + 1] ELSE NULL
  <2> SUFFICES ASSUME d1 < Len(s)
               PROVE  Last(run) = s[d1 + 1]
    BY <1>5
  <2>1. u = b + k + 1 /\ d1 = b + k /\ Len(run) = k + 1 /\ k + 1 \in 1 .. u - b
    <3>1. b + k < Len(s) /\ d1 = b + k
      BY <1>1 DEF RunEnd
    <3>2. u = b + k + 1
      BY <1>1, <3>1
    <3> HIDE DEF d1, u
    <3> QED
      BY <1>1, <1>4, <3>1, <3>2
  <2>2. run[k + 1] = s[b + (k + 1)]
    BY <1>4, <2>1
  <2>3. b + (k + 1) = d1 + 1
    BY <1>1, <2>1
  <2> QED
    BY <2>1, <2>2, <2>3 DEF Last
<1>7. Begin(m, end, k) = [m EXCEPT !.p = m.q, !.q = IF last THEN NULL ELSE Last(run),
                                   !.psize = IF last THEN Len(run) ELSE k, !.qsize = k,
                                   !.nmerges = m.nmerges + 1]
  BY <1>3 DEF Begin
<1> HIDE DEF d1, last
<1> QED
  BY <1>2, <1>5, <1>6, <1>7 DEF d1, Begun

\* A turn that begins the next merge keeps the state of the pass.
LEMMA BeginStep ==
  ASSUME NEW s, NEW n, NEW k, NEW end, NEW pos, NEW cuts, Passing(s, n, k, end, pos, cuts),
         NEW kind, NEW m, NEW out, NEW a, NEW b, NEW c, NEW d, NEW begun,
         Midway(m, s, n, k, kind, pos, cuts, out, a, b, c, d, begun), ~Merging(m), m.q # NULL
  PROVE  LET d1 == RunEnd(b, k, Len(s))
         IN /\ Merging(Begin(m, end, k))
            /\ Midway(Begin(m, end, k), s, n, k, kind, pos, cuts, out, b, d1, b, d1, begun \cup {b})
<1>1. /\ s \in Seq(Elem) /\ Len(s) \in Nat /\ k \in Nat \ {0} /\ NULL \notin Elem /\ m \in Merges
      /\ out \in Seq(Elem) /\ Len(out) = a + b - d /\ InRuns(s, k, pos, cuts)
      /\ c \in cuts /\ cuts \subseteq Nat /\ 0 \in cuts
  BY LenProperties, MergeSortAssumption DEF Passing, Setting, Distinct, Midway, Shape, InRuns
<1>2. /\ a \in Nat /\ b \in Nat /\ c \in Nat /\ d \in Nat
      /\ c <= a /\ a <= d /\ d <= b /\ b <= Len(s)
      /\ m.psize = d - a
      /\ m.nmerges = 0 => b = 0 /\ m.qsize = 0
      /\ m.nmerges > 0 => /\ c < Len(s) /\ d = RunEnd(c, k, Len(s))
                          /\ b <= d + k /\ m.qsize = d + k - b
      /\ m.nmerges <= 1 => c = 0
  BY DEF Midway, Cursors
<1>3. /\ m.psize \in Nat /\ m.qsize \in Nat /\ m.nmerges \in Nat
  BY <1>1 DEF Merges
<1>4. m.psize = 0 /\ m.qsize = 0
  BY <1>3 DEF Merging
<1>5. a = d /\ Len(out) = b
  BY <1>1, <1>2, <1>4
<1>6. b < Len(s) /\ m.q = s[b + 1]
  <2>1. m.q = IF b < Len(s) THEN s[b + 1] ELSE NULL
    BY DEF Midway, Shape
  <2> QED
    BY <2>1
<1>7. m.nmerges = 0 => a = 0 /\ b = 0 /\ c = 0 /\ d = 0
  BY <1>2
<1>8. m.nmerges > 0 => d = c + k /\ b = c + 2 * k
  <2> SUFFICES ASSUME m.nmerges > 0
               PROVE  d = c + k /\ b = c + 2 * k
    OBVIOUS
  <2>1. b = d + k /\ d = RunEnd(c, k, Len(s))
    BY <1>1, <1>2, <1>3, <1>4
  <2>2. d < Len(s)
    BY <1>1, <1>2, <1>6
  <2>3. d = c + k
    BY <1>1, <1>2, <2>1, <2>2 DEF RunEnd
  <2> QED
    BY <1>1, <1>2, <2>1, <2>3
<1>9. b \in cuts
  <2>1. CASE m.nmerges = 0
    BY <1>1, <1>7, <2>1
  <2>2. CASE m.nmerges > 0
    <3>1. c + k < Len(s) /\ (c + k) + k < Len(s) /\ b = (c + k) + k
      <4>1. b = c + 2 * k /\ k \in Nat /\ c \in Nat /\ b < Len(s)
        BY <1>1, <1>2, <1>6, <1>8, <2>2
      <4> QED
        BY <1>1, <4>1
    <3>2. c + k \in cuts
      BY <1>1, <3>1 DEF InRuns
    <3>3. (c + k) + k \in cuts
      BY <3>1, <3>2, <1>1 DEF InRuns
    <3> QED
      BY <3>1, <3>3
  <2> QED
    BY <1>3, <2>1, <2>2
<1> DEFINE d1 == RunEnd(b, k, Len(s))
           q1 == IF d1 < Len(s) THEN s[d1 + 1] ELSE NULL
           m1 == Begin(m, end, k)
<1>10. d1 \in Nat /\ b < d1 /\ d1 <= Len(s) /\ d1 <= b + k
  BY <1>1, <1>2, <1>6 DEF RunEnd
<1>11. s[b + 1] \in Elem /\ q1 \in Link
  <2>1. b + 1 \in 1 .. Len(s)
    BY <1>1, <1>2, <1>6
  <2>2. d1 < Len(s) => d1 + 1 \in 1 .. Len(s)
    BY <1>1, <1>10
  <2> HIDE DEF d1
  <2>3. d1 < Len(s) => s[d1 + 1] \in Elem
    BY <1>1, <2>2, ElementOfSeq
  <2> QED
    BY <1>1, <2>1, <2>3, ElementOfSeq DEF Link
<1>12. m1 = [m EXCEPT !.p = s[b + 1], !.q = q1, !.psize = d1 - b, !.qsize = k, !.nmerges = m.nmerges + 1]
  <2>1. a = d /\ b < Len(s)
    BY <1>5, <1>6
  <2> QED
    <3>1. Begin(m, end, k) = Begun(m, s, k, b, RunEnd(b, k, Len(s)))
      BY <2>1, BeginIs
    <3> QED
      BY <3>1 DEF Begun
<1> HIDE DEF d1, q1, m1
<1>13. /\ m1 \in Merges /\ m1.n = m.n /\ m1.head = m.head /\ m1.tail = m.tail
       /\ m1.p = s[b + 1] /\ m1.q = q1 /\ m1.psize = d1 - b /\ m1.qsize = k
       /\ m1.nmerges = m.nmerges + 1
  <2>1. d1 - b \in Nat /\ k \in Nat /\ m.nmerges + 1 \in Nat /\ s[b + 1] \in Link
    BY <1>1, <1>2, <1>3, <1>10, <1>11, SMTT(30) DEF Link
  <2> QED
    BY <1>1, <1>11, <1>12, <2>1 DEF Merges
<1>14. Merging(m1)
  BY <1>2, <1>10, <1>13 DEF Merging
<1>15. \A i \in 1 .. Len(s) : (Pending(i, b, d1, d1) <=> Pending(i, a, b, d)) /\ (Pending(i, a, b, d) <=> b < i)
  <2> SUFFICES ASSUME NEW i \in 1 .. Len(s)
               PROVE  (Pending(i, b, d1, d1) <=> Pending(i, a, b, d)) /\ (Pending(i, a, b, d) <=> b < i)
    OBVIOUS
  <2>1. i \in Nat
    OBVIOUS
  <2> QED
    BY <1>2, <1>5, <1>10, <2>1 DEF Pending
<1>16. Shape(m1, s, n, kind, out, b, d1, d1)
  <2>1. Len(out) = b + d1 - d1
    BY <1>2, <1>5, <1>10
  <2>2. Shape(m, s, n, kind, out, a, b, d)
    BY DEF Midway
  <2>3. \A i \in 1 .. Len(out) : \E j \in 1 .. Len(s) : ~Pending(j, b, d1, d1) /\ out[i] = s[j]
    BY <1>15, <2>2 DEF Shape
  <2>4. \A j \in 1 .. Len(s) : Pending(j, b, d1, d1) => m1.n.next[s[j]] = n.next[s[j]]
    BY <1>13, <1>15, <2>2 DEF Shape
  <2> QED
    BY <1>13, <2>1, <2>2, <2>3, <2>4 DEF Shape, q1
<1>17. Cursors(Len(s), k, m1, b, d1, b, d1)
  <2>1. m1.nmerges # 0 /\ m1.qsize = d1 + k - d1 /\ d1 <= d1 + k
    BY <1>1, <1>3, <1>10, <1>13
  <2>2. m1.nmerges <= 1 => b = 0
    BY <1>3, <1>7, <1>13
  <2>3. m1.nmerges > 1 => 2 * k < Len(s)
    <3> SUFFICES ASSUME m1.nmerges > 1
                 PROVE  2 * k < Len(s)
      OBVIOUS
    <3>1. b = c + 2 * k
      BY <1>3, <1>8, <1>13
    <3> QED
      BY <1>1, <1>2, <1>6, <3>1
  <2>4. b <= b /\ d1 <= d1
    BY <1>2, <1>10
  <2> QED
    BY <1>2, <1>6, <1>10, <1>13, <2>1, <2>2, <2>3, <2>4 DEF Cursors, d1
<1>18. Merged(s, k, pos, cuts, out, b, d1, b, d1, begun \cup {b})
  <2>1. Merged(s, k, pos, cuts, out, a, b, c, d, begun)
    BY DEF Midway
  <2>2. begun \subseteq 0 .. c /\ 0 \in begun /\ c \in begun
    BY <2>1 DEF Merged
  <2>3. begun \cup {b} \subseteq 0 .. b /\ 0 \in begun \cup {b} /\ b \in begun \cup {b}
    BY <1>2, <2>2
  <2>4. ASSUME NEW x \in begun \cup {b}, x < b
        PROVE  x + 2 * k \in begun \cup {b}
    <3>1. x \in begun
      BY <1>2, <2>4
    <3>2. m.nmerges > 0
      BY <1>2, <1>3, <2>3, <2>4
    <3>3. CASE x < c
      BY <2>1, <3>1, <3>3 DEF Merged
    <3>4. CASE x = c
      BY <1>8, <3>2, <3>4
    <3> QED
      BY <1>2, <2>2, <3>1, <3>3, <3>4
  <2>5. ASSUME NEW x \in begun \cup {b}, NEW i \in 1 .. Len(out), NEW j \in 1 .. Len(out),
               x < i, i < j, j <= x + 2 * k
        PROVE  Before(pos, out[i], out[j])
    <3>1. x \in begun
      BY <1>2, <1>5, <2>5
    <3> QED
      BY <2>1, <2>5, <3>1 DEF Merged
  <2>6. ASSUME NEW x \in begun \cup {b}, NEW i \in 1 .. Len(out), NEW j \in 1 .. Len(out),
               i <= x, x < j
        PROVE  pos[out[i]] < pos[out[j]]
    <3>1. x \in begun
      BY <1>2, <1>5, <2>6
    <3> QED
      BY <2>1, <2>6, <3>1 DEF Merged
  <2>7. ASSUME NEW i \in 1 .. b
        PROVE  \E j \in 1 .. b : out[i] = s[j]
    <3>1. PICK j \in 1 .. Len(s) : ~Pending(j, a, b, d) /\ out[i] = s[j]
      BY <1>5 DEF Midway, Shape
    <3>2. j \in 1 .. b
      BY <1>1, <1>2, <1>15, <3>1, SMTT(30)
    <3> QED
      BY <3>1, <3>2
  <2>8. \A i \in 1 .. Len(out) : ~(b < i)
    BY <1>2, <1>5
  <2> QED
    BY <2>3, <2>4, <2>5, <2>6, <2>7, <2>8 DEF Merged
<1>19. Midway(m1, s, n, k, kind, pos, cuts, out, b, d1, b, d1, begun \cup {b})
  BY <1>9, <1>16, <1>17, <1>18 DEF Midway
<1> QED
  BY <1>14, <1>19 DEF d1, m1

-----------------------------------------------------------------------------
\* A state of the pass with at most j turns to go.
Turns(m, s, out) == 2 * (Len(s) - Len(out)) + (IF Merging(m) THEN 0 ELSE 1)

Within(m, s, n, k, kind, pos, cuts, j) ==
  \E out, a, b, c, d, begun :
    Midway(m, s, n, k, kind, pos, cuts, out, a, b, c, d, begun) /\ Turns(m, s, out) <= j + 1

\* A pass with at most j turns to go, from its parts.
LEMMA WithinIntro ==
  ASSUME NEW s, NEW n, NEW k, NEW kind, NEW pos, NEW cuts, NEW m, NEW j,
         NEW out, NEW a, NEW b, NEW c, NEW d, NEW begun,
         Midway(m, s, n, k, kind, pos, cuts, out, a, b, c, d, begun), Turns(m, s, out) <= j + 1
  PROVE  Within(m, s, n, k, kind, pos, cuts, j)
BY DEF Within

\* What the state of a pass says about sizes and indices.
LEMMA MidwayFacts ==
  ASSUME NEW s, NEW n, NEW k, NEW end, NEW pos, NEW cuts, Passing(s, n, k, end, pos, cuts),
         NEW kind, NEW m, NEW out, NEW a, NEW b, NEW c, NEW d, NEW begun,
         Midway(m, s, n, k, kind, pos, cuts, out, a, b, c, d, begun)
  PROVE  /\ m \in Merges /\ out \in Seq(Elem) /\ Len(out) = a + b - d
         /\ a \in Nat /\ b \in Nat /\ d \in Nat /\ a <= d /\ d <= b /\ b <= Len(s)
         /\ Len(s) \in Nat /\ Len(out) \in Nat /\ Len(out) <= Len(s)
         /\ Merging(m) => a < d \/ b < Len(s)
         /\ ~Merging(m) => a = d
         /\ m.q = NULL <=> b = Len(s)
<1>1. /\ s \in Seq(Elem) /\ Len(s) \in Nat /\ NULL \notin Elem /\ m \in Merges
      /\ out \in Seq(Elem) /\ Len(out) = a + b - d
  BY LenProperties, MergeSortAssumption DEF Passing, Setting, Distinct, Midway, Shape
<1>2. /\ a \in Nat /\ b \in Nat /\ d \in Nat /\ a <= d /\ d <= b /\ b <= Len(s) /\ m.psize = d - a
  BY DEF Midway, Cursors
<1>3. Len(out) \in Nat /\ Len(out) <= Len(s)
  BY <1>1, <1>2, LenProperties
<1>4. m.q = NULL <=> b = Len(s)
  <2>1. m.q = IF b < Len(s) THEN s[b + 1] ELSE NULL
    BY DEF Midway, Shape
  <2>2. b < Len(s) => s[b + 1] \in Elem
    BY <1>1, <1>2, ElementOfSeq
  <2> QED
    BY <1>1, <1>2, <2>1, <2>2
<1>5. Merging(m) => a < d \/ b < Len(s)
  BY <1>2, <1>4 DEF Merging
<1>6. ~Merging(m) => a = d
  BY <1>2 DEF Merging
<1> QED
  BY <1>1, <1>2, <1>3, <1>4, <1>5, <1>6

\* One turn of the loop of a pass leaves one turn less to go.
LEMMA PassTurn ==
  ASSUME NEW s, NEW n, NEW k, NEW end, NEW pos, NEW cuts, Passing(s, n, k, end, pos, cuts),
         NEW kind, NEW m, NEW j \in Nat, Within(m, s, n, k, kind, pos, cuts, j + 1)
  PROVE  Within(IF Merging(m) THEN Take(m, kind, end)
                ELSE IF m.q # NULL THEN Begin(m, end, k) ELSE m, s, n, k, kind, pos, cuts, j)
<1>1. PICK out, a, b, c, d, begun :
        /\ Midway(m, s, n, k, kind, pos, cuts, out, a, b, c, d, begun)
        /\ Turns(m, s, out) <= (j + 1) + 1
  BY DEF Within
<1>2. /\ m \in Merges /\ out \in Seq(Elem) /\ Len(out) = a + b - d
      /\ a \in Nat /\ b \in Nat /\ d \in Nat /\ a <= d /\ d <= b /\ b <= Len(s)
      /\ Len(s) \in Nat /\ Len(out) \in Nat /\ Len(out) <= Len(s)
      /\ ~Merging(m) => a = d
      /\ m.q = NULL <=> b = Len(s)
  BY <1>1, MidwayFacts
<1>3. s \in Seq(Elem)
  BY DEF Passing, Setting, Distinct
<1>4. ASSUME NEW m1, NEW e \in Elem, Merging(m)
      PROVE  Turns(m1, s, Append(out, e)) <= j + 1
  <2>1. Len(Append(out, e)) = Len(out) + 1
    BY <1>2, AppendProperties
  <2>2. 2 * (Len(s) - Len(out)) <= j + 2
    BY <1>1, <1>2, <1>4 DEF Turns
  <2>3. 2 * (Len(s) - (Len(out) + 1)) + 1 <= j + 1
    BY <1>2, <2>2
  <2>4. 2 * (Len(s) - (Len(out) + 1)) + 0 <= j + 1
    BY <1>2, <2>2
  <2> QED
    BY <2>1, <2>3, <2>4 DEF Turns
<1>5. CASE Merging(m) /\ TakeQ(m)
  <2>1. /\ b < Len(s)
        /\ Midway(Take(m, kind, end), s, n, k, kind, pos, cuts, Append(out, s[b + 1]), a, b + 1, c, d, begun)
    BY <1>1, <1>5, TakeQStep
  <2>2. s[b + 1] \in Elem
    BY <1>2, <1>3, <2>1, ElementOfSeq
  <2>3. Turns(Take(m, kind, end), s, Append(out, s[b + 1])) <= j + 1
    BY <1>4, <1>5, <2>2
  <2>4. Within(Take(m, kind, end), s, n, k, kind, pos, cuts, j)
    BY <2>1, <2>3, WithinIntro
  <2> QED
    BY <1>5, <2>4
<1>6. CASE Merging(m) /\ ~TakeQ(m)
  <2>1. /\ a < d
        /\ Midway(Take(m, kind, end), s, n, k, kind, pos, cuts, Append(out, s[a + 1]), a + 1, b, c, d, begun)
    BY <1>1, <1>6, TakePStep
  <2>2. s[a + 1] \in Elem
    BY <1>2, <1>3, <2>1, ElementOfSeq
  <2>3. Turns(Take(m, kind, end), s, Append(out, s[a + 1])) <= j + 1
    BY <1>4, <1>6, <2>2
  <2>4. Within(Take(m, kind, end), s, n, k, kind, pos, cuts, j)
    BY <2>1, <2>3, WithinIntro
  <2> QED
    BY <1>6, <2>4
<1>7. CASE ~Merging(m) /\ m.q # NULL
  <2> DEFINE m1 == Begin(m, end, k)
             d1 == RunEnd(b, k, Len(s))
  <2>1. /\ Merging(m1)
        /\ Midway(m1, s, n, k, kind, pos, cuts, out, b, d1, b, d1, begun \cup {b})
    BY <1>1, <1>7, BeginStep
  <2>2. Turns(m1, s, out) <= j + 1
    <3>1. 2 * (Len(s) - Len(out)) + 1 <= (j + 1) + 1
      BY <1>1, <1>7 DEF Turns
    <3>2. Turns(m1, s, out) = 2 * (Len(s) - Len(out)) + 0
      BY <2>1 DEF Turns
    <3> QED
      BY <1>2, <3>1, <3>2
  <2> HIDE DEF m1, d1
  <2>3. Within(m1, s, n, k, kind, pos, cuts, j)
    BY <2>1, <2>2, WithinIntro
  <2> QED
    BY <1>7, <2>3 DEF m1
<1>8. CASE ~Merging(m) /\ m.q = NULL
  <2>1. Len(out) = Len(s)
    BY <1>2, <1>8
  <2>2. Turns(m, s, out) <= j + 1
    BY <1>2, <1>8, <2>1 DEF Turns
  <2>3. Within(m, s, n, k, kind, pos, cuts, j)
    BY <1>1, <2>2, WithinIntro
  <2> QED
    BY <1>8, <2>3
<1> QED
  BY <1>5, <1>6, <1>7, <1>8

(* The state that a pass begins with. *)
LEMMA PassStart ==
  ASSUME NEW s, NEW n, NEW k, NEW end, NEW pos, NEW cuts, Passing(s, n, k, end, pos, cuts), NEW kind
  PROVE  LET m == [n |-> n, head |-> NULL, tail |-> NULL, p |-> NULL, q |-> s[1],
                   psize |-> 0, qsize |-> 0, nmerges |-> 0]
         IN m \in Merges /\ Within(m, s, n, k, kind, pos, cuts, 2 * Len(s))
<1> DEFINE m == [n |-> n, head |-> NULL, tail |-> NULL, p |-> NULL, q |-> s[1],
                 psize |-> 0, qsize |-> 0, nmerges |-> 0]
<1>1. /\ s \in Seq(Elem) /\ Len(s) \in Nat /\ Len(s) > 0 /\ s[1] \in Elem /\ n \in Pointers
      /\ k \in Nat \ {0} /\ InRuns(s, k, pos, cuts)
  <2>1. s \in Seq(Elem) /\ s # <<>>
    BY DEF Passing, Setting, Distinct
  <2>2. Len(s) \in Nat /\ Len(s) > 0
    BY <2>1, LenProperties, EmptySeq
  <2> QED
    BY <2>1, <2>2, ElementOfSeq DEF Passing, Setting
<1>2. m \in Merges
  BY <1>1 DEF Merges, Link
<1>3. /\ m.n = n /\ m.head = NULL /\ m.tail = NULL /\ m.q = s[1]
      /\ m.psize = 0 /\ m.qsize = 0 /\ m.nmerges = 0
  OBVIOUS
<1> HIDE DEF m
<1>4. <<>> \in Seq(Elem) /\ Len(<<>>) = 0
  BY EmptySeq
<1>5. Shape(m, s, n, kind, <<>>, 0, 0, 0)
  <2>1. m.q = IF 0 < Len(s) THEN s[0 + 1] ELSE NULL
    BY <1>1, <1>3
  <2> QED
    BY <1>2, <1>3, <1>4, <2>1 DEF Shape, Distinct
<1>6. Cursors(Len(s), k, m, 0, 0, 0, 0)
  BY <1>1, <1>3 DEF Cursors
<1>7. 0 \in cuts
  BY <1>1 DEF InRuns
<1>8. Merged(s, k, pos, cuts, <<>>, 0, 0, 0, 0, {0})
  BY <1>4 DEF Merged
<1>9. Midway(m, s, n, k, kind, pos, cuts, <<>>, 0, 0, 0, 0, {0})
  BY <1>5, <1>6, <1>7, <1>8 DEF Midway
<1>10. Turns(m, s, <<>>) <= 2 * Len(s) + 1
  BY <1>1, <1>4 DEF Turns
<1>11. Within(m, s, n, k, kind, pos, cuts, 2 * Len(s))
  BY <1>9, <1>10, WithinIntro
<1> QED
  BY <1>2, <1>11 DEF m

-----------------------------------------------------------------------------
\* The nodes of a sequence of distinct nodes, and how many they are.
LEMMA DistinctRange ==
  ASSUME NEW s, Distinct(s)
  PROVE  /\ Range(s) = {s[i] : i \in 1 .. Len(s)} /\ Range(s) \subseteq Elem
         /\ s \in Bijection(1 .. Len(s), Range(s))
         /\ IsFiniteSet(Range(s)) /\ Cardinality(Range(s)) = Len(s)
<1>1. s \in Seq(Elem) /\ Len(s) \in Nat /\ s \in [1 .. Len(s) -> Elem]
  BY LenProperties DEF Distinct
<1>2. Range(s) = {s[i] : i \in 1 .. Len(s)}
  BY <1>1, RangeEquality
<1>3. Range(s) \subseteq Elem
  BY <1>1, <1>2
<1>4. s \in Bijection(1 .. Len(s), Range(s))
  BY <1>1, <1>2 DEF Distinct, Bijection, Injection, Surjection, IsInjective
<1>5. IsFiniteSet(Range(s))
  BY <1>3, FS_Subset, MergeSortAssumption
<1>6. ExistsBijection(1 .. Len(s), Range(s))
  BY <1>4, Fun_ExistsBij
<1>7. Cardinality(Range(s)) = Len(s)
  BY <1>1, <1>6, FS_CountingElements
<1> QED
  BY <1>2, <1>3, <1>4, <1>5, <1>7

\* Distinct nodes, all out of s and as many as s has, are the nodes of s.
LEMMA SameRange ==
  ASSUME NEW s, Distinct(s), NEW t, Distinct(t), Len(s) = Len(t), Range(t) \subseteq Range(s)
  PROVE  Range(t) = Range(s)
<1>1. IsFiniteSet(Range(s)) /\ Cardinality(Range(s)) = Len(s) /\ Cardinality(Range(t)) = Len(t)
  BY DistinctRange
<1>2. Cardinality(Range(s)) = Cardinality(Range(t)) /\ Range(t) \in SUBSET Range(s)
  BY <1>1
<1> QED
  BY <1>1, <1>2, FS_Subset

(* What a pass leaves: the nodes of s in a new order, in runs twice as long. *)
Passed(m, s, n, k, kind, pos, out, cuts) ==
  /\ m \in Merges
  /\ Distinct(out) /\ Len(out) = Len(s) /\ Range(out) = Range(s)
  /\ \A i \in 1 .. Len(out) - 1 : m.n.next[out[i]] = out[i + 1]
  /\ kind # "single" =>
       \A i \in 1 .. Len(out) : m.n.prev[out[i]] = IF i = 1 THEN NULL ELSE out[i - 1]
  /\ \A x \in Elem : x \notin Range(s) => m.n.next[x] = n.next[x] /\ m.n.prev[x] = n.prev[x]
  /\ m.head = out[1] /\ m.tail = out[Len(out)]
  /\ InRuns(out, 2 * k, pos, cuts)
  /\ m.nmerges > 1 <=> 2 * k < Len(s)

PassedSet(m, s, n, k, kind, pos) ==
  {w \in Seq(Elem) \X SUBSET Nat : Passed(m, s, n, k, kind, pos, w[1], w[2])}

\* A pass with no turn to go has merged every node, in runs twice as long.
LEMMA PassEnd ==
  ASSUME NEW s, NEW n, NEW k, NEW end, NEW pos, NEW cuts, Passing(s, n, k, end, pos, cuts),
         NEW kind, NEW m, Within(m, s, n, k, kind, pos, cuts, 0)
  PROVE  PassedSet(m, s, n, k, kind, pos) # {}
<1>1. PICK out, a, b, c, d, begun :
        /\ Midway(m, s, n, k, kind, pos, cuts, out, a, b, c, d, begun)
        /\ Turns(m, s, out) <= 0 + 1
  BY DEF Within
<1>2. /\ m \in Merges /\ out \in Seq(Elem) /\ Len(out) = a + b - d
      /\ a \in Nat /\ b \in Nat /\ d \in Nat /\ a <= d /\ d <= b /\ b <= Len(s)
      /\ Len(s) \in Nat /\ Len(out) \in Nat /\ Len(out) <= Len(s)
      /\ Merging(m) => a < d \/ b < Len(s)
      /\ ~Merging(m) => a = d
  BY <1>1, MidwayFacts
<1>3. Len(out) = Len(s) /\ a = d /\ b = Len(s)
  <2>1. CASE Merging(m)
    <3>1. 2 * (Len(s) - Len(out)) + 0 <= 1
      BY <1>1, <2>1 DEF Turns
    <3>2. a < d \/ b < Len(s)
      BY <1>2, <2>1
    <3> QED
      BY <1>2, <3>1, <3>2
  <2>2. CASE ~Merging(m)
    <3>1. 2 * (Len(s) - Len(out)) + 1 <= 1
      BY <1>1, <2>2 DEF Turns
    <3>2. a = d
      BY <1>2, <2>2
    <3> QED
      BY <1>2, <3>1, <3>2
  <2> QED
    BY <2>1, <2>2
<1>4. Shape(m, s, n, kind, out, a, b, d) /\ Cursors(Len(s), k, m, a, b, c, d)
      /\ Merged(s, k, pos, cuts, out, a, b, c, d, begun)
  BY <1>1 DEF Midway
<1>5. /\ Distinct(s) /\ s \in Seq(Elem) /\ Len(s) > 0 /\ k \in Nat \ {0} /\ k \in Nat /\ Distinct(out)
  <2>1. Distinct(s) /\ s \in Seq(Elem) /\ s # <<>> /\ k \in Nat \ {0}
    BY DEF Passing, Setting, Distinct
  <2> QED
    BY <1>2, <1>4, <2>1, EmptySeq DEF Shape
<1>6. Range(out) = Range(s)
  <2>1. \A i \in 1 .. Len(out) : \E j \in 1 .. Len(s) : out[i] = s[j]
    BY <1>4 DEF Shape
  <2>2. Range(out) \subseteq Range(s)
    BY <1>2, <1>5, <2>1, RangeEquality
  <2> QED
    BY <1>3, <1>5, <2>2, SameRange
<1>7. m.head = out[1] /\ m.tail = out[Len(out)]
  <2>1. out # <<>>
    BY <1>3, <1>5, EmptySeq
  <2> QED
    BY <1>4, <2>1 DEF Shape, Last
<1>8. m.nmerges \in Nat
  BY <1>2 DEF Merges
<1>9. m.nmerges > 0 /\ c \in Nat /\ c < Len(s) /\ b <= c + 2 * k
  <2>1. m.nmerges > 0
    BY <1>3, <1>4, <1>5, <1>8 DEF Cursors
  <2>2. c \in Nat /\ c < Len(s) /\ d = RunEnd(c, k, Len(s)) /\ b <= d + k
    BY <1>4, <2>1 DEF Cursors
  <2>3. d <= c + k
    BY <1>2, <1>5, <2>2 DEF RunEnd
  <2> QED
    BY <1>2, <1>5, <2>1, <2>2, <2>3
<1>10. m.nmerges > 1 <=> 2 * k < Len(s)
  <2>1. m.nmerges > 1 => 2 * k < Len(s)
    BY <1>4 DEF Cursors
  <2>2. ASSUME ~(m.nmerges > 1)
        PROVE  ~(2 * k < Len(s))
    <3>1. c = 0
      BY <1>4, <1>8, <2>2 DEF Cursors
    <3> QED
      BY <1>3, <1>5, <1>2, <1>9, <3>1
  <2> QED
    BY <2>1, <2>2
<1>11. begun \subseteq 0 .. c /\ begun \subseteq Nat
  BY <1>4, <1>9 DEF Merged
<1>12. InRuns(out, 2 * k, pos, begun)
  <2>1. 0 \in begun
    BY <1>4 DEF Merged
  <2>2. ASSUME NEW x \in begun, x + 2 * k < Len(out)
        PROVE  x + 2 * k \in begun
    <3>1. x \in Nat /\ x <= c
      BY <1>9, <1>11
    <3>2. x < c
      BY <1>2, <1>3, <1>5, <1>9, <2>2, <3>1
    <3> QED
      BY <1>4, <3>2 DEF Merged
  <2>3. \A x \in begun, i, j \in 1 .. Len(out) :
          x < i /\ i < j /\ j <= x + 2 * k => Before(pos, out[i], out[j])
    BY <1>4 DEF Merged
  <2>4. \A x \in begun, i, j \in 1 .. Len(out) : i <= x /\ x < j => pos[out[i]] < pos[out[j]]
    BY <1>4 DEF Merged
  <2> QED
    BY <1>11, <2>1, <2>2, <2>3, <2>4 DEF InRuns
<1>13. Passed(m, s, n, k, kind, pos, out, begun)
  BY <1>2, <1>3, <1>4, <1>5, <1>6, <1>7, <1>10, <1>12 DEF Passed, Shape
<1>14. <<out, begun>> \in PassedSet(m, s, n, k, kind, pos)
  BY <1>2, <1>11, <1>13 DEF PassedSet
<1> QED
  BY <1>14

\* A pass over sorted runs of k nodes makes sorted runs of 2k of the same nodes.
LEMMA PassRule ==
  ASSUME NEW s, NEW n, NEW k, NEW end, NEW pos, NEW cuts, Passing(s, n, k, end, pos, cuts), NEW kind
  PROVE  PassedSet(Pass(n, s[1], k, kind, end), s, n, k, kind, pos) # {}
<1> DEFINE turn == [m \in Merges |-> IF Merging(m) THEN Take(m, kind, end)
                                     ELSE IF m.q # NULL THEN Begin(m, end, k) ELSE m]
           m0 == [n |-> n, head |-> NULL, tail |-> NULL, p |-> NULL, q |-> s[1],
                  psize |-> 0, qsize |-> 0, nmerges |-> 0]
           N == 2 * Cardinality(Elem) + 1
           R == {w \in Merges \X Nat : Within(w[1], s, n, k, kind, pos, cuts, w[2])}
<1>1. Distinct(s)
  BY DEF Passing, Setting
<1>2. Len(s) <= Cardinality(Elem) /\ Cardinality(Elem) \in Nat /\ Len(s) \in Nat
  BY <1>1, DistinctLength, LenProperties DEF Distinct
<1>3. N \in Nat /\ 2 * Len(s) <= N
  BY <1>2
<1>4. m0 \in Merges /\ Within(m0, s, n, k, kind, pos, cuts, 2 * Len(s))
  BY PassStart
<1> HIDE DEF N, m0
<1>5. Within(m0, s, n, k, kind, pos, cuts, N)
  <2>1. PICK out, a, b, c, d, begun :
          /\ Midway(m0, s, n, k, kind, pos, cuts, out, a, b, c, d, begun)
          /\ Turns(m0, s, out) <= 2 * Len(s) + 1
    BY <1>4 DEF Within
  <2>2. Len(out) \in Nat
    BY <2>1, MidwayFacts
  <2>3. Turns(m0, s, out) \in Int
    BY <1>2, <2>2 DEF Turns
  <2>4. Turns(m0, s, out) <= N + 1
    BY <1>2, <1>3, <2>1, <2>3
  <2> QED
    BY <2>1, <2>4, WithinIntro
<1>6. <<m0, N>> \in R
  BY <1>3, <1>4, <1>5
<1>7. \A y : \A j \in 1 .. N : <<y, j>> \in R => <<turn[y], j - 1>> \in R
  <2> SUFFICES ASSUME NEW y, NEW j \in 1 .. N, <<y, j>> \in R
               PROVE  <<turn[y], j - 1>> \in R
    OBVIOUS
  <2>1. y \in Merges /\ Within(y, s, n, k, kind, pos, cuts, j)
    OBVIOUS
  <2>2. j - 1 \in Nat /\ j = (j - 1) + 1
    BY <1>3
  <2>3. Within(turn[y], s, n, k, kind, pos, cuts, j - 1)
    <3> DEFINE j1 == j - 1
    <3>1. j1 \in Nat /\ Within(y, s, n, k, kind, pos, cuts, j1 + 1)
      BY <2>1, <2>2
    <3>2. turn[y] = IF Merging(y) THEN Take(y, kind, end)
                    ELSE IF y.q # NULL THEN Begin(y, end, k) ELSE y
      BY <2>1
    <3> HIDE DEF j1, turn
    <3>3. Within(IF Merging(y) THEN Take(y, kind, end)
                 ELSE IF y.q # NULL THEN Begin(y, end, k) ELSE y, s, n, k, kind, pos, cuts, j1)
      BY <3>1, PassTurn
    <3> QED
      BY <3>2, <3>3 DEF j1
  <2> HIDE DEF turn
  <2>4. turn[y] \in Merges
    BY <2>3, MidwayFacts DEF Within
  <2> QED
    BY <2>2, <2>3, <2>4
<1> HIDE DEF turn, R
<1>8. <<Repeat(turn, m0, N), 0>> \in R
  BY <1>3, <1>6, <1>7, RepeatRule
<1>9. Pass(n, s[1], k, kind, end) = Repeat(turn, m0, N)
  BY DEF Pass, turn, m0, N
<1>10. Within(Pass(n, s[1], k, kind, end), s, n, k, kind, pos, cuts, 0)
  BY <1>8, <1>9 DEF R
<1> QED
  BY <1>10, PassEnd

-----------------------------------------------------------------------------
(***************************************************************************)
(* The pointers n and the head h make a list of the nodes s, of one kind.  *)
(***************************************************************************)
EndOf(s, kind) == IF kind = "circular" THEN s[1] ELSE NULL
PrevOfHead(s, kind) == IF kind = "app" THEN NULL ELSE s[Len(s)]

IsList(n, h, s, kind) ==
  /\ Distinct(s)
  /\ h = IF s = <<>> THEN NULL ELSE s[1]
  /\ Follows(n.next, s, EndOf(s, kind))
  /\ kind # "single" =>
       \A i \in 1 .. Len(s) : n.prev[s[i]] = IF i = 1 THEN PrevOfHead(s, kind) ELSE s[i - 1]

SameOutside(n, n1, S) ==
  \A x \in Elem : x \notin S => n1.next[x] = n.next[x] /\ n1.prev[x] = n.prev[x]

Kinds == {"single", "double", "circular", "app"}

\* What setting a next changes.
LEMMA SetNextIs ==
  ASSUME NEW n \in Pointers, NEW e \in Elem, NEW to \in Link
  PROVE  /\ SetNext(n, e, to) \in Pointers
         /\ SetNext(n, e, to).prev = n.prev
         /\ \A x \in Elem : SetNext(n, e, to).next[x] = IF x = e THEN to ELSE n.next[x]
<1>1. SetNext(n, e, to) = [n EXCEPT !.next = [n.next EXCEPT ![e] = to]]
  BY DEF SetNext, Pointers
<1> QED
  BY <1>1 DEF Pointers

\* What setting a prev changes.
LEMMA SetPrevIs ==
  ASSUME NEW n \in Pointers, NEW e \in Elem, NEW to \in Link
  PROVE  /\ SetPrev(n, e, to) \in Pointers
         /\ SetPrev(n, e, to).next = n.next
         /\ \A x \in Elem : SetPrev(n, e, to).prev[x] = IF x = e THEN to ELSE n.prev[x]
<1>1. SetPrev(n, e, to) = [n EXCEPT !.prev = [n.prev EXCEPT ![e] = to]]
  BY DEF SetPrev, Pointers
<1> QED
  BY <1>1 DEF Pointers

(* A pass leaves a list of its kind. *)
LEMMA EndedList ==
  ASSUME NEW s, s # <<>>, NEW n \in Pointers, NEW k, NEW kind \in Kinds, NEW pos, NEW m, NEW out, NEW cuts,
         Distinct(s), Passed(m, s, n, k, kind, pos, out, cuts)
  PROVE  /\ Ended(m, kind) \in Pointers
         /\ IsList(Ended(m, kind), m.head, out, kind)
         /\ SameOutside(n, Ended(m, kind), Range(s))
<1> DEFINE z == Len(out)
           n1 == Ended(m, kind)
<1>1. /\ out \in Seq(Elem) /\ z \in Nat /\ z > 0 /\ m.n \in Pointers /\ Distinct(out)
      /\ out # <<>> /\ Range(out) = Range(s)
  <2>1. /\ s \in Seq(Elem) /\ out \in Seq(Elem) /\ Len(out) = Len(s) /\ m \in Merges /\ Distinct(out)
        /\ Range(out) = Range(s)
    BY DEF Passed, Distinct
  <2>2. Len(s) \in Nat \ {0}
    BY <2>1, EmptySeq
  <2> QED
    BY <2>1, <2>2, EmptySeq DEF Merges
<1>2. /\ m.head = out[1] /\ m.tail = out[z] /\ out[1] \in Elem /\ out[z] \in Elem
      /\ \A i \in 1 .. z : out[i] \in Elem
  BY <1>1, ElementOfSeq DEF Passed
<1>3. /\ n1 \in Pointers
      /\ \A x \in Elem : n1.next[x] = IF x = out[z] THEN EndOf(out, kind) ELSE m.n.next[x]
      /\ \A x \in Elem : n1.prev[x] = IF kind \in {"double", "circular"} /\ x = out[1] THEN out[z]
                                      ELSE m.n.prev[x]
  <2>1. out[1] \in Link /\ out[z] \in Link /\ NULL \in Link
    BY <1>2 DEF Link
  <2>2. CASE kind \in {"single", "app"}
    <3>1. n1 = SetNext(m.n, out[z], NULL)
      BY <1>2, <2>2 DEF Ended
    <3>2. EndOf(out, kind) = NULL
      BY <2>2 DEF EndOf
    <3>3. ~(kind \in {"double", "circular"})
      BY <2>2
    <3> HIDE DEF n1
    <3>4. /\ n1 \in Pointers /\ n1.prev = m.n.prev
          /\ \A x \in Elem : n1.next[x] = IF x = out[z] THEN NULL ELSE m.n.next[x]
      <4>1. m.n \in Pointers /\ out[z] \in Elem /\ NULL \in Link
        BY <1>1, <1>2, <2>1
      <4> DEFINE x1 == out[z]
                 mn == m.n
      <4> HIDE DEF x1, mn
      <4>2. /\ SetNext(mn, x1, NULL) \in Pointers /\ SetNext(mn, x1, NULL).prev = mn.prev
            /\ \A x \in Elem : SetNext(mn, x1, NULL).next[x] = IF x = x1 THEN NULL ELSE mn.next[x]
        <5>1. mn \in Pointers /\ x1 \in Elem
          BY <4>1 DEF mn, x1
        <5> QED
          BY <4>1, <5>1, SetNextIs
      <4> QED
        BY <3>1, <4>2 DEF mn, x1
    <3> QED
      BY <3>2, <3>3, <3>4
  <2>3. CASE kind \in {"double", "circular"}
    <3> DEFINE n2 == SetPrev(m.n, out[1], out[z])
               e == EndOf(out, kind)
    <3>1. n1 = SetNext(n2, out[z], e)
      BY <1>2, <2>3 DEF Ended, EndOf
    <3>2. e \in Link
      BY <2>1 DEF EndOf
    <3> HIDE DEF n1, e
    <3>3. /\ n2 \in Pointers /\ n2.next = m.n.next
          /\ \A x \in Elem : n2.prev[x] = IF x = out[1] THEN out[z] ELSE m.n.prev[x]
      <4>1. m.n \in Pointers /\ out[1] \in Elem /\ out[z] \in Link
        BY <1>1, <1>2, <2>1
      <4> DEFINE x1 == out[1]
                 xz == out[z]
                 mn == m.n
      <4> HIDE DEF x1, xz, mn
      <4>2. /\ SetPrev(mn, x1, xz) \in Pointers /\ SetPrev(mn, x1, xz).next = mn.next
            /\ \A x \in Elem : SetPrev(mn, x1, xz).prev[x] = IF x = x1 THEN xz ELSE mn.prev[x]
        <5>1. mn \in Pointers /\ x1 \in Elem /\ xz \in Link
          BY <4>1 DEF mn, x1, xz
        <5> QED
          BY <5>1, SetPrevIs
      <4> QED
        BY <4>2 DEF n2, mn, x1, xz
    <3> HIDE DEF n2
    <3>4. /\ n1 \in Pointers /\ n1.prev = n2.prev
          /\ \A x \in Elem : n1.next[x] = IF x = out[z] THEN e ELSE n2.next[x]
      BY <1>2, <3>1, <3>2, <3>3, SetNextIs
    <3> QED
      BY <2>3, <3>3, <3>4 DEF e
  <2> QED
    BY <2>2, <2>3 DEF Kinds
<1> HIDE DEF n1
<1>4. Follows(n1.next, out, EndOf(out, kind))
  <2> SUFFICES ASSUME NEW i \in 1 .. z
               PROVE  n1.next[out[i]] = IF i < z THEN out[i + 1] ELSE EndOf(out, kind)
    BY DEF Follows
  <2>1. CASE i = z
    BY <1>1, <1>2, <1>3, <2>1
  <2>2. CASE i # z
    <3>1. i < z /\ i \in 1 .. Len(out) - 1
      BY <1>1, <2>2
    <3>2. out[i] # out[z] /\ out[i] \in Elem
      BY <1>1, <1>2, <2>2 DEF Distinct
    <3>3. m.n.next[out[i]] = out[i + 1]
      BY <3>1 DEF Passed
    <3> QED
      BY <1>3, <3>1, <3>2, <3>3
  <2> QED
    BY <2>1, <2>2
<1>5. kind # "single" =>
        \A i \in 1 .. z : n1.prev[out[i]] = IF i = 1 THEN PrevOfHead(out, kind) ELSE out[i - 1]
  <2> SUFFICES ASSUME kind # "single", NEW i \in 1 .. z
               PROVE  n1.prev[out[i]] = IF i = 1 THEN PrevOfHead(out, kind) ELSE out[i - 1]
    OBVIOUS
  <2>1. m.n.prev[out[i]] = IF i = 1 THEN NULL ELSE out[i - 1]
    BY DEF Passed
  <2>2. CASE i = 1
    BY <1>2, <1>3, <2>1, <2>2 DEF PrevOfHead, Kinds
  <2>3. CASE i # 1
    <3>1. out[i] # out[1] /\ out[i] \in Elem
      BY <1>1, <1>2, <2>3 DEF Distinct
    <3> QED
      BY <1>3, <2>1, <2>3, <3>1
  <2> QED
    BY <2>2, <2>3
<1>6. SameOutside(n, n1, Range(s))
  <2> SUFFICES ASSUME NEW x \in Elem, x \notin Range(s)
               PROVE  n1.next[x] = n.next[x] /\ n1.prev[x] = n.prev[x]
    BY DEF SameOutside
  <2>1. x # out[1] /\ x # out[z]
    BY <1>1, RangeEquality
  <2>2. m.n.next[x] = n.next[x] /\ m.n.prev[x] = n.prev[x]
    BY DEF Passed
  <2> QED
    BY <1>3, <2>1, <2>2
<1> QED
  BY <1>1, <1>2, <1>3, <1>4, <1>5, <1>6 DEF IsList, n1

(***************************************************************************)
(* The sequence in which all nodes are ordered is the sorted one.          *)
(***************************************************************************)
Placed(s) == [e \in Elem |-> IF e \in Range(s) THEN At(s, e) ELSE 0]
Ordered(t, pos) == \A i, j \in 1 .. Len(t) : i < j => Before(pos, t[i], t[j])

\* A node of a sequence of distinct nodes is at its index.
LEMMA AtIs ==
  ASSUME NEW s, Distinct(s), NEW i \in 1 .. Len(s)
  PROVE  At(s, s[i]) = i
<1>1. DOMAIN s = 1 .. Len(s)
  BY LenProperties DEF Distinct
<1> QED
  BY <1>1 DEF At, Distinct

\* The places of the nodes of a list, as a function on all nodes.
LEMMA PlacedIs ==
  ASSUME NEW s, Distinct(s)
  PROVE  /\ Placed(s) \in [Elem -> Int]
         /\ \A i \in 1 .. Len(s) : Placed(s)[s[i]] = i
         /\ \A x \in Range(s) : Placed(s)[x] = At(s, x)
<1>1. Range(s) = {s[i] : i \in 1 .. Len(s)} /\ Range(s) \subseteq Elem
  BY DistinctRange
<1>2. \A i \in 1 .. Len(s) : At(s, s[i]) = i
  BY AtIs
<1>3. \A x \in Range(s) : At(s, x) \in Int
  BY <1>1, <1>2
<1> QED
  BY <1>1, <1>2, <1>3 DEF Placed

\* The only order of the nodes of s that is stably sorted is Sorted(s).
LEMMA OrderedIsSorted ==
  ASSUME NEW s, Distinct(s), NEW t, Distinct(t), Len(t) = Len(s), Range(t) = Range(s), Ordered(t, Placed(s))
  PROVE  t = Sorted(s)
<1> DEFINE L == Len(s)
           less(x) == {y \in Range(s) : Key[y] < Key[x] \/ (Key[y] = Key[x] /\ At(s, y) < At(s, x))}
<1>1. /\ s \in Seq(Elem) /\ t \in Seq(Elem) /\ L \in Nat /\ DOMAIN s = 1 .. L
      /\ Range(s) = {t[i] : i \in 1 .. L} /\ Range(s) \subseteq Elem
      /\ \A i \in 1 .. L : t[i] \in Elem /\ t[i] \in Range(s)
  BY DistinctRange, LenProperties DEF Distinct
<1>2. \A x, y \in Range(s) : y \in less(x) <=> Before(Placed(s), y, x)
  BY PlacedIs DEF Before
<1>3. ASSUME NEW j \in 1 .. L
      PROVE  less(t[j]) = {t[i] : i \in 1 .. j - 1}
  <2>1. ASSUME NEW i \in 1 .. L
        PROVE  t[i] \in less(t[j]) <=> i < j
    <3>1. CASE i < j
      BY <1>1, <1>2, <3>1 DEF Ordered
    <3>2. CASE i = j
      <4>1. Key[t[j]] \in Int /\ Placed(s)[t[j]] \in Int
        BY <1>1, PlacedIs, MergeSortAssumption
      <4>2. ~Before(Placed(s), t[j], t[j])
        BY <4>1 DEF Before
      <4> QED
        BY <1>1, <1>2, <3>2, <4>2
    <3>3. CASE j < i
      <4>1. Before(Placed(s), t[j], t[i])
        BY <1>1, <3>3 DEF Ordered
      <4>2. /\ Key[t[j]] \in Int /\ Placed(s)[t[j]] \in Int
            /\ Key[t[i]] \in Int /\ Placed(s)[t[i]] \in Int
        BY <1>1, PlacedIs, MergeSortAssumption
      <4>3. ~Before(Placed(s), t[i], t[j])
        BY <4>1, <4>2 DEF Before
      <4>4. ~(i < j)
        BY <3>3
      <4> QED
        BY <1>1, <1>2, <4>3, <4>4
    <3> QED
      BY <1>1, <3>1, <3>2, <3>3
  <2>2. less(t[j]) \subseteq Range(s)
    OBVIOUS
  <2> HIDE DEF less
  <2>3. \A i \in 1 .. j - 1 : i \in 1 .. L /\ i < j
    BY <1>1
  <2>4. \A i \in 1 .. L : i < j => i \in 1 .. j - 1
    BY <1>1
  <2> QED
    BY <1>1, <2>1, <2>2, <2>3, <2>4
<1>4. ASSUME NEW j \in 1 .. L
      PROVE  Cardinality(less(t[j])) = j - 1
  <2> DEFINE S == {t[i] : i \in 1 .. j - 1}
             f == [i \in 1 .. j - 1 |-> t[i]]
  <2>1. f \in Bijection(1 .. j - 1, S)
    <3>1. \A i, i1 \in 1 .. j - 1 : t[i] = t[i1] => i = i1
      BY <1>1 DEF Distinct
    <3> QED
      BY <3>1 DEF Bijection, Injection, Surjection, IsInjective
  <2>2. ExistsBijection(1 .. j - 1, S)
    BY <2>1, Fun_ExistsBij
  <2>3. j - 1 \in Nat
    BY <1>1
  <2> HIDE DEF S
  <2>4. Cardinality(S) = j - 1
    BY <2>2, <2>3, FS_CountingElements
  <2> QED
    BY <1>3, <2>4 DEF S
<1>5. ASSUME NEW i \in 1 .. L
      PROVE  t[i] = CHOOSE x \in Range(s) : i - 1 = Cardinality(less(x))
  <2> HIDE DEF less
  <2>1. \A x \in Range(s) : i - 1 = Cardinality(less(x)) => x = t[i]
    <3> SUFFICES ASSUME NEW j \in 1 .. L, i - 1 = Cardinality(less(t[j]))
                 PROVE  t[j] = t[i]
      BY <1>1
    <3>1. i - 1 = j - 1
      BY <1>4
    <3> QED
      BY <1>1, <3>1
  <2>2. t[i] \in Range(s) /\ i - 1 = Cardinality(less(t[i]))
    BY <1>1, <1>4
  <2> QED
    BY <2>1, <2>2
<1>6. Sorted(s) = [i \in 1 .. L |-> CHOOSE x \in Range(s) : i - 1 = Cardinality(less(x))]
  BY <1>1 DEF Sorted
<1>7. t = [i \in 1 .. L |-> t[i]]
  BY <1>1, LenProperties
<1> HIDE DEF less
<1> QED
  BY <1>5, <1>6, <1>7

-----------------------------------------------------------------------------
(* The sort of s, after some passes: t is the list, in runs of insize nodes. *)
SortedSoFar(S, s, n, kind, t, cuts) ==
  /\ S \in Sorts
  /\ IsList(S.n, S.head, t, kind) /\ Len(t) = Len(s) /\ Range(t) = Range(s)
  /\ SameOutside(n, S.n, Range(s))
  /\ S.insize > 0
  /\ InRuns(t, S.insize, Placed(s), cuts)
  /\ ~S.looping => Ordered(t, Placed(s)) /\ S.tail = t[Len(t)]

SortsWithin(S, s, n, kind, j) ==
  /\ \E t, cuts : SortedSoFar(S, s, n, kind, t, cuts)
  /\ S.looping => S.insize <= Len(s) /\ Len(s) + 1 <= j + S.insize

\* One pass leaves one pass less to go.
LEMMA SortTurn ==
  ASSUME NEW s, Distinct(s), s # <<>>, NEW n \in Pointers, NEW kind \in Kinds, NEW S, NEW j \in Nat,
         SortsWithin(S, s, n, kind, j + 1)
  PROVE  SortsWithin(IF S.looping THEN SortPass(S, kind) ELSE S, s, n, kind, j)
<1>1. PICK t, cuts : SortedSoFar(S, s, n, kind, t, cuts)
  BY DEF SortsWithin
<1>2. S.looping => S.insize <= Len(s) /\ Len(s) + 1 <= (j + 1) + S.insize
  BY DEF SortsWithin
<1>3. Len(s) \in Nat /\ Len(s) > 0
  BY EmptySeq DEF Distinct
<1>4. CASE ~S.looping
  BY <1>1, <1>4 DEF SortsWithin
<1>5. CASE S.looping
  <2> DEFINE pos == Placed(s)
             k == S.insize
             end == IF kind = "circular" THEN S.head ELSE NULL
             m == Pass(S.n, S.head, k, kind, end)
             S1 == SortPass(S, kind)
  <2>1. /\ Distinct(t) /\ t \in Seq(Elem) /\ Len(t) = Len(s) /\ t # <<>> /\ S.head = t[1] /\ t[1] \in Elem
        /\ S.n \in Pointers /\ k \in Nat \ {0} /\ k \in Nat /\ Range(t) = Range(s)
    <3>1. Distinct(t) /\ t \in Seq(Elem) /\ Len(t) = Len(s) /\ Range(t) = Range(s)
      BY <1>1 DEF SortedSoFar, IsList, Distinct
    <3>2. t # <<>>
      BY <1>3, <3>1, EmptySeq
    <3>3. S.head = t[1] /\ t[1] \in Elem
      BY <1>1, <1>3, <3>1, <3>2, ElementOfSeq DEF SortedSoFar, IsList
    <3>4. S.n \in Pointers /\ k \in Nat \ {0}
      BY <1>1 DEF SortedSoFar, Sorts
    <3> QED
      BY <3>1, <3>2, <3>3, <3>4
  <2>2. end = EndOf(t, kind) /\ end \in Link
    BY <2>1 DEF EndOf, Link
  <2> HIDE DEF end
  <2>3. Passing(t, S.n, k, end, pos, cuts)
    <3>1. pos \in [Elem -> Int]
      BY PlacedIs
    <3>2. \A i \in 2 .. Len(t) : t[i] # end
      <4> SUFFICES ASSUME NEW i \in 2 .. Len(t)
                   PROVE  t[i] # end
        OBVIOUS
      <4>1. i \in 1 .. Len(t) /\ 1 \in 1 .. Len(t) /\ i # 1
        BY <1>3, <2>1
      <4>2. t[i] \in Elem /\ t[i] # t[1]
        BY <2>1, <4>1, ElementOfSeq DEF Distinct
      <4> QED
        BY <2>2, <4>2, MergeSortAssumption DEF EndOf
    <3>3. Follows(S.n.next, t, end)
      BY <1>1, <2>2 DEF SortedSoFar, IsList
    <3>4. InRuns(t, k, pos, cuts)
      BY <1>1 DEF SortedSoFar
    <3> HIDE DEF pos, k
    <3> QED
      BY <2>1, <2>2, <3>1, <3>2, <3>3, <3>4 DEF Passing, Setting
  <2>4. PassedSet(m, t, S.n, k, kind, pos) # {}
    <3> HIDE DEF k, pos
    <3>1. PassedSet(Pass(S.n, t[1], k, kind, end), t, S.n, k, kind, pos) # {}
      BY <2>3, PassRule
    <3> QED
      BY <2>1, <3>1
  <2> HIDE DEF m
  <2>5. PICK w \in Seq(Elem) \X SUBSET Nat : Passed(m, t, S.n, k, kind, pos, w[1], w[2])
    BY <2>4 DEF PassedSet
  <2> DEFINE out == w[1]
             cuts1 == w[2]
             n1 == Ended(m, kind)
  <2> HIDE DEF out, cuts1, n1, pos, k
  <2>6. Passed(m, t, S.n, k, kind, pos, out, cuts1)
    BY <2>5 DEF out, cuts1
  <2>7. /\ n1 \in Pointers /\ IsList(n1, m.head, out, kind) /\ SameOutside(S.n, n1, Range(t))
    <3>1. /\ Ended(m, kind) \in Pointers
          /\ IsList(Ended(m, kind), m.head, out, kind)
          /\ SameOutside(S.n, Ended(m, kind), Range(t))
      BY <2>1, <2>6, EndedList
    <3> QED
      BY <3>1 DEF n1
  <2>8. S1 = [n |-> n1, head |-> m.head, tail |-> m.tail, insize |-> 2 * k, looping |-> m.nmerges > 1]
    BY DEF SortPass, m, end, n1, k
  <2> HIDE DEF S1
  <2>9. /\ S1 \in Sorts /\ S1.n = n1 /\ S1.head = m.head /\ S1.tail = m.tail /\ S1.insize = 2 * k
        /\ S1.looping = (m.nmerges > 1)
    <3>1. m.head \in Link /\ m.tail \in Link
      BY <2>6 DEF Passed, Merges
    <3>2. 2 * k \in Nat /\ (m.nmerges > 1) \in BOOLEAN
      BY <2>1 DEF k
    <3> QED
      BY <2>7, <2>8, <3>1, <3>2 DEF Sorts
  <2>10. Len(out) = Len(s) /\ Range(out) = Range(s) /\ InRuns(out, 2 * k, pos, cuts1)
    BY <2>1, <2>6 DEF Passed
  <2>11. m.nmerges > 1 <=> 2 * k < Len(s)
    BY <2>1, <2>6 DEF Passed
  <2>12. SameOutside(n, n1, Range(s))
    BY <1>1, <2>1, <2>7 DEF SameOutside, SortedSoFar
  <2>13. ~S1.looping => Ordered(out, pos)
    <3> SUFFICES ASSUME ~(2 * k < Len(s)), NEW i \in 1 .. Len(out), NEW i1 \in 1 .. Len(out), i < i1
                 PROVE  Before(pos, out[i], out[i1])
      BY <2>9, <2>11 DEF Ordered
    <3>1. k \in Nat
      BY <2>1 DEF k
    <3>2. 0 < i /\ i1 <= 0 + 2 * k
      BY <1>3, <2>10, <3>1
    <3> QED
      BY <2>10, <3>2 DEF InRuns
  <2>14. SortedSoFar(S1, s, n, kind, out, cuts1)
    <3>1. S1.insize > 0
      BY <2>1, <2>9 DEF k
    <3>2. S1.tail = out[Len(out)]
      BY <2>6, <2>9 DEF Passed
    <3> QED
      BY <2>7, <2>9, <2>10, <2>12, <2>13, <3>1, <3>2 DEF SortedSoFar, pos
  <2>15. S1.looping => S1.insize <= Len(s) /\ Len(s) + 1 <= j + S1.insize
    <3> SUFFICES ASSUME 2 * k < Len(s)
                 PROVE  2 * k <= Len(s) /\ Len(s) + 1 <= j + 2 * k
      BY <2>9, <2>11
    <3>1. k \in Nat \ {0} /\ Len(s) + 1 <= (j + 1) + k
      BY <1>2, <1>5, <2>1 DEF k
    <3> QED
      BY <1>3, <3>1
  <2>16. SortsWithin(S1, s, n, kind, j)
    BY <2>14, <2>15 DEF SortsWithin
  <2> QED
    BY <1>5, <2>16 DEF S1
<1> QED
  BY <1>4, <1>5

(***************************************************************************)
(* What the SORT macros do, for any list of any kind: they leave a list of *)
(* the same kind and the same nodes, in the one order that is stably       *)
(* sorted by Key, know its tail, and touch the pointers of no other node.  *)
(***************************************************************************)
THEOREM MergeSortCorrect ==
  ASSUME NEW n \in Pointers, NEW s, s # <<>>, NEW h, NEW kind \in Kinds, IsList(n, h, s, kind)
  PROVE  LET r == SortFrom(n, h, kind)
         IN /\ r.n \in Pointers
            /\ IsList(r.n, r.head, Sorted(s), kind)
            /\ SameOutside(n, r.n, Range(s))
            /\ Range(Sorted(s)) = Range(s)
            /\ r.tail = Sorted(s)[Len(Sorted(s))]
<1> DEFINE turn == [S \in Sorts |-> IF S.looping THEN SortPass(S, kind) ELSE S]
           S0 == [n |-> n, head |-> h, tail |-> NULL, insize |-> 1, looping |-> TRUE]
           N == Cardinality(Elem)
           R == {w \in Sorts \X Nat : SortsWithin(w[1], s, n, kind, w[2])}
           cuts == 0 .. Len(s)
<1>1. /\ Distinct(s) /\ s \in Seq(Elem) /\ Len(s) \in Nat /\ Len(s) > 0 /\ N \in Nat /\ Len(s) <= N
      /\ h = s[1] /\ h \in Elem
  <2>1. Distinct(s) /\ s \in Seq(Elem) /\ h = s[1]
    BY DEF IsList, Distinct
  <2>2. Len(s) \in Nat \ {0}
    BY <2>1, EmptySeq
  <2> QED
    BY <2>1, <2>2, DistinctLength, ElementOfSeq
<1>2. S0 \in Sorts
  BY <1>1 DEF Sorts, Link
<1>3. S0.n = n /\ S0.head = h /\ S0.insize = 1 /\ S0.looping = TRUE
  OBVIOUS
<1> HIDE DEF S0
<1>4. InRuns(s, 1, Placed(s), cuts)
  <2>1. cuts \subseteq Nat /\ 0 \in cuts
    BY <1>1
  <2>2. \A c \in cuts : c + 1 < Len(s) => c + 1 \in cuts
    BY <1>1
  <2>3. \A c \in cuts, i, j \in 1 .. Len(s) :
          c < i /\ i < j /\ j <= c + 1 => Before(Placed(s), s[i], s[j])
    <3>1. \A c \in cuts, i, j \in 1 .. Len(s) : ~(c < i /\ i < j /\ j <= c + 1)
      BY <1>1
    <3> QED
      BY <3>1
  <2>4. ASSUME NEW c \in cuts, NEW i \in 1 .. Len(s), NEW j \in 1 .. Len(s), i <= c, c < j
        PROVE  Placed(s)[s[i]] < Placed(s)[s[j]]
    <3>1. Placed(s)[s[i]] = i /\ Placed(s)[s[j]] = j
      BY <1>1, PlacedIs
    <3>2. i < j
      BY <1>1, <2>4
    <3> QED
      BY <3>1, <3>2
  <2> HIDE DEF cuts
  <2> QED
    BY <2>1, <2>2, <2>3, <2>4 DEF InRuns
<1> HIDE DEF cuts
<1>5. SortedSoFar(S0, s, n, kind, s, cuts)
  BY <1>1, <1>2, <1>3, <1>4 DEF SortedSoFar, SameOutside
<1> HIDE DEF N
<1>6. SortsWithin(S0, s, n, kind, N)
  <2>1. S0.insize <= Len(s) /\ Len(s) + 1 <= N + S0.insize
    BY <1>1, <1>3
  <2> QED
    BY <1>5, <2>1 DEF SortsWithin
<1>7. <<S0, N>> \in R
  BY <1>1, <1>2, <1>6
<1>8. \A y : \A j \in 1 .. N : <<y, j>> \in R => <<turn[y], j - 1>> \in R
  <2> SUFFICES ASSUME NEW y, NEW j \in 1 .. N, <<y, j>> \in R
               PROVE  <<turn[y], j - 1>> \in R
    OBVIOUS
  <2>1. y \in Sorts /\ SortsWithin(y, s, n, kind, j)
    OBVIOUS
  <2> DEFINE j1 == j - 1
  <2>2. j1 \in Nat /\ j = j1 + 1
    BY <1>1
  <2>3. turn[y] = IF y.looping THEN SortPass(y, kind) ELSE y
    BY <2>1
  <2> HIDE DEF j1, turn
  <2>4. SortsWithin(IF y.looping THEN SortPass(y, kind) ELSE y, s, n, kind, j1)
    <3>1. SortsWithin(y, s, n, kind, j1 + 1)
      BY <2>1, <2>2
    <3> QED
      BY <1>1, <2>2, <3>1, SortTurn
  <2>5. SortsWithin(turn[y], s, n, kind, j1)
    BY <2>3, <2>4
  <2>6. turn[y] \in Sorts
    BY <2>5 DEF SortsWithin, SortedSoFar
  <2> QED
    BY <2>2, <2>5, <2>6 DEF j1
<1> DEFINE r == SortFrom(n, h, kind)
<1> HIDE DEF turn, R
<1>9. <<Repeat(turn, S0, N), 0>> \in R
  BY <1>1, <1>7, <1>8, RepeatRule
<1>10. r = Repeat(turn, S0, N)
  BY DEF SortFrom, turn, S0, N
<1> HIDE DEF r
<1>11. SortsWithin(r, s, n, kind, 0)
  BY <1>9, <1>10 DEF R
<1>12. PICK t, cuts1 : SortedSoFar(r, s, n, kind, t, cuts1)
  BY <1>11 DEF SortsWithin
<1>13. ~r.looping
  <2> SUFFICES ASSUME r.looping
               PROVE  FALSE
    OBVIOUS
  <2>1. r.insize <= Len(s) /\ Len(s) + 1 <= 0 + r.insize /\ r.insize \in Nat
    BY <1>11, <1>12 DEF SortsWithin, SortedSoFar, Sorts
  <2> QED
    BY <1>1, <2>1
<1>14. t = Sorted(s)
  <2>1. Distinct(t) /\ Len(t) = Len(s) /\ Range(t) = Range(s) /\ Ordered(t, Placed(s))
    BY <1>12, <1>13 DEF SortedSoFar, IsList
  <2> QED
    BY <1>1, <2>1, OrderedIsSorted
<1>15. r.n \in Pointers
  BY <1>12 DEF SortedSoFar, Sorts
<1>16. /\ IsList(r.n, r.head, Sorted(s), kind) /\ SameOutside(n, r.n, Range(s)) /\ Range(Sorted(s)) = Range(s)
       /\ r.tail = Sorted(s)[Len(Sorted(s))]
  BY <1>12, <1>13, <1>14 DEF SortedSoFar
<1> QED
  BY <1>15, <1>16 DEF r
=============================================================================
