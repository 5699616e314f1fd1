--------------------------- MODULE ContainerProofs --------------------------
(***************************************************************************)
(* Proofs about the lists of utlist.h, for any nodes, keys and sequences   *)
(* of macros: the pointers say what was put into the lists, and loops that *)
(* remove nodes visit all of them.                                         *)
(*                                                                         *)
(* First what changes of sequences and of pointers correspond (...Links),  *)
(* then that each macro makes its change (Makes), then the invariant.      *)
(***************************************************************************)
EXTENDS Containers, MergeSortProofs

-----------------------------------------------------------------------------
(***************************************************************************)
(* What putting a node into a sequence, taking one out of it, and putting  *)
(* one in place of another do, position by position.                       *)
(***************************************************************************)
Insertion(s, p, e, t) ==
  /\ Distinct(t) /\ Len(t) = Len(s) + 1 /\ t # <<>>
  /\ \A i \in 1 .. Len(s) : i < p => t[i] = s[i]
  /\ t[p] = e
  /\ \A i \in 1 .. Len(s) : p <= i => t[i + 1] = s[i]
  /\ Range(t) = Range(s) \cup {e}

Removal(s, p, t) ==
  /\ Distinct(t) /\ Len(t) = Len(s) - 1
  /\ \A i \in 1 .. Len(s) - 1 : t[i] = IF i < p THEN s[i] ELSE s[i + 1]
  /\ Range(t) = Range(s) \ {s[p]}

Replacement(s, p, e, t) ==
  /\ Distinct(t) /\ Len(t) = Len(s) /\ t # <<>>
  /\ \A i \in 1 .. Len(s) : t[i] = IF i = p THEN e ELSE s[i]
  /\ Range(t) = (Range(s) \ {s[p]}) \cup {e}

\* An insertion, from its entries.
LEMMA InsertionBy ==
  ASSUME NEW s, Distinct(s), NEW e \in Elem, e \notin Range(s), NEW p \in 1 .. Len(s) + 1,
         NEW t \in Seq(Elem), Len(t) = Len(s) + 1,
         \A i \in 1 .. Len(s) : i < p => t[i] = s[i],
         t[p] = e,
         \A i \in 1 .. Len(s) : p <= i => t[i + 1] = s[i]
  PROVE  Insertion(s, p, e, t)
<1> DEFINE L == Len(s)
<1>1. /\ L \in Nat /\ Range(s) = {s[i] : i \in 1 .. L} /\ Range(t) = {t[i] : i \in 1 .. L + 1}
      /\ \A i \in 1 .. L : s[i] # e
  BY DistinctRange, LenProperties, RangeEquality DEF Distinct
<1>2. \A i \in 1 .. L + 1 : \/ i < p /\ i \in 1 .. L /\ t[i] = s[i]
                            \/ i = p /\ t[i] = e
                            \/ p < i /\ i - 1 \in 1 .. L /\ t[i] = s[i - 1]
  <2> SUFFICES ASSUME NEW i \in 1 .. L + 1
               PROVE  \/ i < p /\ i \in 1 .. L /\ t[i] = s[i]
                      \/ i = p /\ t[i] = e
                      \/ p < i /\ i - 1 \in 1 .. L /\ t[i] = s[i - 1]
    OBVIOUS
  <2>1. CASE i < p
    <3>1. i \in 1 .. L
      BY <1>1, <2>1
    <3> QED
      BY <2>1, <3>1
  <2>2. CASE p < i
    <3>1. i - 1 \in 1 .. L /\ p <= i - 1 /\ (i - 1) + 1 = i
      BY <1>1, <2>2
    <3>2. t[(i - 1) + 1] = s[i - 1]
      BY <3>1
    <3> QED
      BY <2>2, <3>1, <3>2
  <2> QED
    BY <1>1, <2>1, <2>2
<1>3. Distinct(t)
  <2> SUFFICES ASSUME NEW i \in 1 .. L + 1, NEW j \in 1 .. L + 1, t[i] = t[j], i < j
               PROVE  FALSE
    BY <1>1 DEF Distinct
  <2>1. CASE j < p
    <3>1. i \in 1 .. L /\ j \in 1 .. L /\ t[i] = s[i] /\ t[j] = s[j] /\ i # j
      BY <1>1, <1>2, <2>1
    <3>2. s[i] = s[j]
      BY <3>1
    <3> QED
      BY <3>1, <3>2 DEF Distinct
  <2>2. CASE j = p
    <3>1. i \in 1 .. L /\ t[i] = s[i] /\ t[j] = e
      BY <1>1, <1>2, <2>2
    <3> QED
      BY <1>1, <3>1
  <2>3. CASE p < j
    <3>1. j - 1 \in 1 .. L /\ t[j] = s[j - 1]
      BY <1>1, <1>2, <2>3
    <3>2. CASE i < p
      <4>1. i \in 1 .. L /\ t[i] = s[i] /\ i # j - 1
        BY <1>1, <1>2, <2>3, <3>2
      <4> QED
        BY <3>1, <4>1 DEF Distinct
    <3>3. CASE i = p
      BY <1>1, <3>1, <3>3
    <3>4. CASE p < i
      <4>1. i - 1 \in 1 .. L /\ t[i] = s[i - 1] /\ i - 1 # j - 1
        BY <1>1, <1>2, <2>3, <3>4
      <4> QED
        BY <3>1, <4>1 DEF Distinct
    <3> QED
      BY <3>2, <3>3, <3>4, <1>1
  <2> QED
    BY <1>1, <2>1, <2>2, <2>3
<1>4. Range(t) = Range(s) \cup {e}
  <2>1. ASSUME NEW x \in Range(t) PROVE x \in Range(s) \cup {e}
    <3>1. PICK i \in 1 .. L + 1 : t[i] = x
      BY <1>1, <2>1
    <3>2. i < p \/ i = p \/ p < i
      BY <1>1
    <3>3. i < p => i \in 1 .. L /\ t[i] = s[i]
      BY <1>1, <1>2
    <3>4. p < i => i - 1 \in 1 .. L /\ t[i] = s[i - 1]
      BY <1>1, <1>2
    <3> QED
      BY <1>1, <1>2, <3>1, <3>2, <3>3, <3>4
  <2>2. ASSUME NEW i \in 1 .. L PROVE s[i] \in Range(t)
    <3>1. CASE i < p
      <4>1. i \in 1 .. L + 1 /\ t[i] = s[i]
        BY <1>1, <3>1
      <4> QED
        BY <1>1, <4>1
    <3>2. CASE p <= i
      <4>1. i + 1 \in 1 .. L + 1 /\ t[i + 1] = s[i]
        BY <1>1, <3>2
      <4> QED
        BY <1>1, <4>1
    <3> QED
      BY <1>1, <3>1, <3>2
  <2>3. e \in Range(t)
    BY <1>1
  <2>4. Range(s) \subseteq Range(t)
    BY <1>1, <2>2
  <2> QED
    BY <2>1, <2>3, <2>4
<1>5. t # <<>>
  BY <1>1, EmptySeq
<1> QED
  BY <1>3, <1>4, <1>5 DEF Insertion

\* A removal, from its entries.
LEMMA RemovalBy ==
  ASSUME NEW s, Distinct(s), NEW p \in 1 .. Len(s), NEW t \in Seq(Elem), Len(t) = Len(s) - 1,
         \A i \in 1 .. Len(s) - 1 : t[i] = IF i < p THEN s[i] ELSE s[i + 1]
  PROVE  Removal(s, p, t)
<1> DEFINE L == Len(s)
           at == [i \in 1 .. L - 1 |-> IF i < p THEN i ELSE i + 1]
<1>1. L \in Nat /\ Range(s) = {s[i] : i \in 1 .. L} /\ Range(t) = {t[i] : i \in 1 .. L - 1}
  BY DistinctRange, LenProperties, RangeEquality DEF Distinct
<1>2. \A i \in 1 .. L - 1 : at[i] \in 1 .. L /\ at[i] # p /\ t[i] = s[at[i]]
  BY <1>1
<1>3. \A i, j \in 1 .. L - 1 : at[i] = at[j] => i = j
  BY <1>1
<1>4. \A i \in 1 .. L : i # p => \E j \in 1 .. L - 1 : at[j] = i
  <2> SUFFICES ASSUME NEW i \in 1 .. L, i # p
               PROVE  \E j \in 1 .. L - 1 : at[j] = i
    OBVIOUS
  <2>1. CASE i < p
    <3>1. i \in 1 .. L - 1 /\ at[i] = i
      BY <1>1, <2>1
    <3> QED
      BY <3>1
  <2>2. CASE p < i
    <3>1. i - 1 \in 1 .. L - 1 /\ at[i - 1] = i
      BY <1>1, <2>2
    <3> QED
      BY <3>1
  <2> QED
    BY <1>1, <2>1, <2>2
<1> HIDE DEF at
<1>5. Distinct(t)
  BY <1>2, <1>3 DEF Distinct
<1>6. Range(t) = Range(s) \ {s[p]}
  <2>1. ASSUME NEW i \in 1 .. L - 1 PROVE t[i] \in Range(s) \ {s[p]}
    BY <1>1, <1>2 DEF Distinct
  <2>2. ASSUME NEW i \in 1 .. L, s[i] # s[p] PROVE s[i] \in Range(t)
    <3>1. PICK j \in 1 .. L - 1 : at[j] = i
      BY <1>4, <2>2
    <3> QED
      BY <1>1, <1>2, <3>1
  <2> QED
    <3>1. Range(t) \subseteq Range(s) \ {s[p]}
      BY <1>1, <2>1
    <3>2. Range(s) \ {s[p]} \subseteq Range(t)
      BY <1>1, <2>2
    <3> QED
      BY <3>1, <3>2
<1> QED
  BY <1>5, <1>6 DEF Removal

-----------------------------------------------------------------------------
\* A node put in front is an insertion at 1.
LEMMA ConsIs ==
  ASSUME NEW s, Distinct(s), NEW e \in Elem, e \notin Range(s)
  PROVE  Insertion(s, 1, e, <<e>> \o s)
<1>1. s \in Seq(Elem) /\ Len(s) \in Nat /\ <<e>> \in Seq(Elem) /\ Len(<<e>>) = 1
  BY LenProperties DEF Distinct
<1> DEFINE t == <<e>> \o s
<1>2. /\ t \in Seq(Elem) /\ Len(t) = 1 + Len(s)
      /\ \A i \in 1 .. 1 + Len(s) : t[i] = IF i <= 1 THEN <<e>>[i] ELSE s[i - 1]
  BY <1>1, ConcatProperties
<1> HIDE DEF t
<1>3. t[1] = e /\ \A i \in 1 .. Len(s) : t[i + 1] = s[i]
  <2>1. t[1] = <<e>>[1]
    BY <1>1, <1>2
  <2>2. ASSUME NEW i \in 1 .. Len(s) PROVE t[i + 1] = s[i]
    <3>1. i + 1 \in 1 .. 1 + Len(s) /\ ~(i + 1 <= 1) /\ (i + 1) - 1 = i
      BY <1>1
    <3>2. t[i + 1] = s[(i + 1) - 1]
      BY <1>2, <3>1
    <3> QED
      BY <3>1, <3>2
  <2> QED
    BY <2>1, <2>2
<1>4. 1 \in 1 .. Len(s) + 1 /\ Len(t) = Len(s) + 1 /\ \A i \in 1 .. Len(s) : ~(i < 1)
  BY <1>1, <1>2
<1>5. Insertion(s, 1, e, t)
  BY <1>2, <1>3, <1>4, InsertionBy
<1> QED
  BY <1>5 DEF t

\* A node appended is an insertion behind the last.
LEMMA AppendIs ==
  ASSUME NEW s, Distinct(s), NEW e \in Elem, e \notin Range(s)
  PROVE  Insertion(s, Len(s) + 1, e, Append(s, e))
<1>1. s \in Seq(Elem) /\ Len(s) \in Nat
  BY LenProperties DEF Distinct
<1>2. /\ Append(s, e) \in Seq(Elem) /\ Len(Append(s, e)) = Len(s) + 1
      /\ \A i \in 1 .. Len(s) : Append(s, e)[i] = s[i]
      /\ Append(s, e)[Len(s) + 1] = e
  BY <1>1, AppendProperties
<1>3. Len(s) + 1 \in 1 .. Len(s) + 1 /\ \A i \in 1 .. Len(s) : ~(Len(s) + 1 <= i)
  BY <1>1
<1> QED
  BY <1>2, <1>3, InsertionBy

\* InsertAt is an insertion.
LEMMA InsertAtIs ==
  ASSUME NEW s, Distinct(s), NEW e \in Elem, e \notin Range(s), NEW p \in 1 .. Len(s)
  PROVE  Insertion(s, p, e, InsertAt(s, p, e))
<1> DEFINE L == Len(s)
           u == SubSeq(s, 1, p - 1)
           v == SubSeq(s, p, L)
           t == InsertAt(s, p, e)
<1>1. s \in Seq(Elem) /\ L \in Nat /\ <<e>> \in Seq(Elem) /\ Len(<<e>>) = 1 /\ <<e>>[1] = e
  BY LenProperties DEF Distinct
<1>2. /\ u \in Seq(Elem) /\ Len(u) = p - 1 /\ \A i \in 1 .. p - 1 : u[i] = s[i]
  <2>1. 1 \in 1 .. L + 1 /\ p - 1 \in 1 - 1 .. L
    BY <1>1
  <2>2. u \in Seq(Elem) /\ Len(u) = (p - 1) - 1 + 1 /\ \A i \in 1 .. (p - 1) - 1 + 1 : u[i] = s[1 + i - 1]
    BY <1>1, <2>1, Piece
  <2> HIDE DEF u
  <2>3. (p - 1) - 1 + 1 = p - 1 /\ \A i \in 1 .. p - 1 : 1 + i - 1 = i
    BY <1>1
  <2> QED
    BY <2>2, <2>3
<1>3. /\ v \in Seq(Elem) /\ Len(v) = L - p + 1 /\ \A i \in 1 .. L - p + 1 : v[i] = s[p + i - 1]
  <2>1. p \in 1 .. L + 1 /\ L \in p - 1 .. L
    BY <1>1
  <2> QED
    BY <1>1, <2>1, Piece
<1>4. t = (u \o <<e>>) \o v
  BY DEF InsertAt
<1> HIDE DEF u, v, t
<1>5. /\ u \o <<e>> \in Seq(Elem) /\ Len(u \o <<e>>) = p
      /\ \A i \in 1 .. p : (u \o <<e>>)[i] = IF i <= p - 1 THEN u[i] ELSE <<e>>[i - (p - 1)]
  <2>1. /\ u \o <<e>> \in Seq(Elem) /\ Len(u \o <<e>>) = Len(u) + Len(<<e>>)
        /\ \A i \in 1 .. Len(u) + Len(<<e>>) :
             (u \o <<e>>)[i] = IF i <= Len(u) THEN u[i] ELSE <<e>>[i - Len(u)]
    BY <1>1, <1>2, ConcatProperties
  <2>2. Len(u) + Len(<<e>>) = p
    BY <1>1, <1>2
  <2> QED
    BY <1>2, <2>1, <2>2
<1>6. /\ t \in Seq(Elem) /\ Len(t) = L + 1
      /\ \A i \in 1 .. L + 1 : t[i] = IF i <= p THEN (u \o <<e>>)[i] ELSE v[i - p]
  <2> DEFINE w == u \o <<e>>
  <2>1. w \in Seq(Elem) /\ Len(w) = p
    BY <1>5
  <2> HIDE DEF w
  <2>2. /\ w \o v \in Seq(Elem) /\ Len(w \o v) = Len(w) + Len(v)
        /\ \A i \in 1 .. Len(w) + Len(v) :
             (w \o v)[i] = IF i <= Len(w) THEN w[i] ELSE v[i - Len(w)]
    BY <1>3, <2>1, ConcatProperties
  <2>3. Len(w) + Len(v) = L + 1
    BY <1>1, <1>3, <2>1
  <2>4. t = w \o v
    BY <1>4 DEF w
  <2>5. t \in Seq(Elem) /\ Len(t) = L + 1
        /\ \A i \in 1 .. L + 1 : t[i] = IF i <= p THEN w[i] ELSE v[i - p]
    BY <2>1, <2>2, <2>3, <2>4
  <2> QED
    BY <2>5 DEF w
<1>7. \A i \in 1 .. L : i < p => t[i] = s[i]
  <2> SUFFICES ASSUME NEW i \in 1 .. L, i < p
               PROVE  t[i] = s[i]
    OBVIOUS
  <2>1. i \in 1 .. L + 1 /\ i \in 1 .. p /\ i \in 1 .. p - 1 /\ i <= p /\ i <= p - 1
    BY <1>1
  <2> QED
    BY <1>2, <1>5, <1>6, <2>1
<1>8. t[p] = e
  <2>1. p \in 1 .. L + 1 /\ p \in 1 .. p /\ p <= p /\ ~(p <= p - 1) /\ p - (p - 1) = 1
    BY <1>1
  <2>2. t[p] = (u \o <<e>>)[p]
    BY <1>6, <2>1
  <2>3. (u \o <<e>>)[p] = <<e>>[p - (p - 1)]
    BY <1>5, <2>1
  <2> QED
    BY <1>1, <2>1, <2>2, <2>3
<1>9. \A i \in 1 .. L : p <= i => t[i + 1] = s[i]
  <2> SUFFICES ASSUME NEW i \in 1 .. L, p <= i
               PROVE  t[i + 1] = s[i]
    OBVIOUS
  <2>1. i + 1 \in 1 .. L + 1 /\ ~(i + 1 <= p) /\ (i + 1) - p \in 1 .. L - p + 1 /\ p + ((i + 1) - p) - 1 = i
    BY <1>1
  <2>2. t[i + 1] = v[(i + 1) - p]
    BY <1>6, <2>1
  <2>3. v[(i + 1) - p] = s[p + ((i + 1) - p) - 1]
    BY <1>3, <2>1
  <2> QED
    BY <2>1, <2>2, <2>3
<1>10. p \in 1 .. L + 1
  BY <1>1
<1>11. Insertion(s, p, e, t)
  BY <1>6, <1>7, <1>8, <1>9, <1>10, InsertionBy
<1> QED
  BY <1>11 DEF t

\* RemoveAt is a removal.
LEMMA RemoveAtIs ==
  ASSUME NEW s, Distinct(s), NEW p \in 1 .. Len(s)
  PROVE  Removal(s, p, RemoveAt(s, p))
<1> DEFINE L == Len(s)
           u == SubSeq(s, 1, p - 1)
           v == SubSeq(s, p + 1, L)
           t == RemoveAt(s, p)
<1>1. s \in Seq(Elem) /\ L \in Nat
  BY LenProperties DEF Distinct
<1>2. /\ u \in Seq(Elem) /\ Len(u) = p - 1 /\ \A i \in 1 .. p - 1 : u[i] = s[i]
  <2>1. 1 \in 1 .. L + 1 /\ p - 1 \in 1 - 1 .. L
    BY <1>1
  <2>2. u \in Seq(Elem) /\ Len(u) = (p - 1) - 1 + 1 /\ \A i \in 1 .. (p - 1) - 1 + 1 : u[i] = s[1 + i - 1]
    BY <1>1, <2>1, Piece
  <2> HIDE DEF u
  <2>3. (p - 1) - 1 + 1 = p - 1 /\ \A i \in 1 .. p - 1 : 1 + i - 1 = i
    BY <1>1
  <2> QED
    BY <2>2, <2>3
<1>3. /\ v \in Seq(Elem) /\ Len(v) = L - p /\ \A i \in 1 .. L - p : v[i] = s[p + i]
  <2>1. p + 1 \in 1 .. L + 1 /\ L \in (p + 1) - 1 .. L
    BY <1>1
  <2>2. v \in Seq(Elem) /\ Len(v) = L - (p + 1) + 1 /\ \A i \in 1 .. L - (p + 1) + 1 : v[i] = s[(p + 1) + i - 1]
    BY <1>1, <2>1, Piece
  <2> HIDE DEF v
  <2>3. L - (p + 1) + 1 = L - p /\ \A i \in 1 .. L - p : (p + 1) + i - 1 = p + i
    BY <1>1
  <2> QED
    BY <2>2, <2>3
<1>4. t = u \o v
  BY DEF RemoveAt
<1> HIDE DEF u, v, t
<1>5. /\ t \in Seq(Elem) /\ Len(t) = L - 1
      /\ \A i \in 1 .. L - 1 : t[i] = IF i <= p - 1 THEN u[i] ELSE v[i - (p - 1)]
  <2>1. /\ u \o v \in Seq(Elem) /\ Len(u \o v) = Len(u) + Len(v)
        /\ \A i \in 1 .. Len(u) + Len(v) : (u \o v)[i] = IF i <= Len(u) THEN u[i] ELSE v[i - Len(u)]
    BY <1>2, <1>3, ConcatProperties
  <2>2. Len(u) + Len(v) = L - 1
    BY <1>1, <1>2, <1>3
  <2> QED
    BY <1>2, <1>4, <2>1, <2>2
<1>6. \A i \in 1 .. L - 1 : t[i] = IF i < p THEN s[i] ELSE s[i + 1]
  <2> SUFFICES ASSUME NEW i \in 1 .. L - 1
               PROVE  t[i] = IF i < p THEN s[i] ELSE s[i + 1]
    OBVIOUS
  <2>1. CASE i < p
    <3>1. i \in 1 .. p - 1 /\ i <= p - 1
      BY <1>1, <2>1
    <3> QED
      BY <1>2, <1>5, <2>1, <3>1
  <2>2. CASE ~(i < p)
    <3>1. ~(i <= p - 1) /\ i - (p - 1) \in 1 .. L - p /\ p + (i - (p - 1)) = i + 1
      BY <1>1, <2>2
    <3>2. t[i] = v[i - (p - 1)]
      BY <1>5, <3>1
    <3>3. v[i - (p - 1)] = s[p + (i - (p - 1))]
      BY <1>3, <3>1
    <3> QED
      BY <2>2, <3>1, <3>2, <3>3
  <2> QED
    BY <2>1, <2>2
<1>7. Removal(s, p, t)
  BY <1>5, <1>6, RemovalBy
<1> QED
  BY <1>7 DEF t

\* An entry set to a new node is a replacement.
LEMMA ReplaceIs ==
  ASSUME NEW s, Distinct(s), NEW e \in Elem, e \notin Range(s), NEW p \in 1 .. Len(s)
  PROVE  Replacement(s, p, e, [s EXCEPT ![p] = e])
<1> DEFINE L == Len(s)
           t == [s EXCEPT ![p] = e]
<1>1. /\ s \in Seq(Elem) /\ L \in Nat /\ Range(s) = {s[i] : i \in 1 .. L} /\ \A i \in 1 .. L : s[i] # e
  BY DistinctRange, LenProperties DEF Distinct
<1>2. /\ t \in Seq(Elem) /\ Len(t) = L
      /\ \A j \in 1 .. L : t[j] = IF j = p THEN e ELSE s[j]
  BY <1>1, ExceptSeq
<1> HIDE DEF t
<1>3. Distinct(t)
  BY <1>1, <1>2 DEF Distinct
<1>4. Range(t) = {t[i] : i \in 1 .. L}
  BY <1>2, RangeEquality
<1>5. Range(t) = (Range(s) \ {s[p]}) \cup {e}
  <2>1. ASSUME NEW i \in 1 .. L PROVE t[i] \in (Range(s) \ {s[p]}) \cup {e}
    <3>1. i # p => s[i] # s[p]
      BY DEF Distinct
    <3> QED
      BY <1>1, <1>2, <3>1
  <2>2. ASSUME NEW i \in 1 .. L, s[i] # s[p] PROVE s[i] \in Range(t)
    <3>1. t[i] = s[i]
      BY <1>2, <2>2
    <3> QED
      BY <1>4, <3>1
  <2>3. e \in Range(t)
    BY <1>2, <1>4
  <2> QED
    BY <1>1, <1>4, <2>1, <2>2, <2>3
<1>6. t # <<>>
  BY <1>1, <1>2, EmptySeq
<1>7. Replacement(s, p, e, t)
  BY <1>2, <1>3, <1>5, <1>6 DEF Replacement
<1> QED
  BY <1>7 DEF t

-----------------------------------------------------------------------------
(* A list is the same when none of its nodes is touched. *)
LEMMA ListFrame ==
  ASSUME NEW n, NEW n1, NEW h, NEW s, NEW kind, IsList(n, h, s, kind),
         NEW S, SameOutside(n, n1, S), Range(s) \cap S = {}
  PROVE  IsList(n1, h, s, kind)
<1>1. \A i \in 1 .. Len(s) : s[i] \in Elem /\ s[i] \notin S
  BY DistinctRange DEF IsList
<1>2. \A i \in 1 .. Len(s) : n1.next[s[i]] = n.next[s[i]] /\ n1.prev[s[i]] = n.prev[s[i]]
  BY <1>1 DEF SameOutside
<1>3. Follows(n1.next, s, EndOf(s, kind))
  BY <1>2 DEF IsList, Follows
<1> QED
  BY <1>2, <1>3 DEF IsList

(* The pointers that make a list of a node put into one at p, of what is left   *)
(* without the node at p, and of a node put in place of the one at p.           *)
InsertedNext(n1, s, p, e, t, kind) ==
  /\ n1.next[e] = IF p <= Len(s) THEN s[p] ELSE EndOf(t, kind)
  /\ \A i \in 1 .. Len(s) : n1.next[s[i]] = IF i = p - 1 THEN e
                                            ELSE IF i = Len(s) THEN EndOf(t, kind) ELSE s[i + 1]
InsertedPrev(n1, s, p, e, t) ==
  /\ n1.prev[e] = IF p = 1 THEN t[Len(s) + 1] ELSE s[p - 1]
  /\ \A i \in 1 .. Len(s) : n1.prev[s[i]] = IF i = p THEN e
                                            ELSE IF i = 1 THEN t[Len(s) + 1] ELSE s[i - 1]

RemovedNext(n1, s, p, t, kind) ==
  \A i \in 1 .. Len(s) : i # p =>
    n1.next[s[i]] = IF i = p - 1 THEN (IF p = Len(s) THEN EndOf(t, kind) ELSE s[p + 1])
                    ELSE IF i = Len(s) THEN EndOf(t, kind) ELSE s[i + 1]
RemovedPrev(n1, s, p, t) ==
  \A i \in 1 .. Len(s) : i # p =>
    n1.prev[s[i]] = IF i = 1 \/ (i = 2 /\ p = 1) THEN t[Len(s) - 1]
                    ELSE IF i = p + 1 THEN s[p - 1] ELSE s[i - 1]

ReplacedNext(n1, s, p, e, t, kind) ==
  /\ n1.next[e] = IF p = Len(s) THEN EndOf(t, kind) ELSE s[p + 1]
  /\ \A i \in 1 .. Len(s) : i # p =>
       n1.next[s[i]] = IF i = p - 1 THEN e ELSE IF i = Len(s) THEN EndOf(t, kind) ELSE s[i + 1]
ReplacedPrev(n1, s, p, e, t) ==
  /\ n1.prev[e] = IF p = 1 THEN t[Len(s)] ELSE s[p - 1]
  /\ \A i \in 1 .. Len(s) : i # p =>
       n1.prev[s[i]] = IF i = p + 1 THEN e ELSE IF i = 1 THEN t[Len(s)] ELSE s[i - 1]

\* Pointers that carry an insertion make a list of the longer sequence.
LEMMA InsertLinks ==
  ASSUME NEW kind \in Kinds \ {"app"}, NEW n, NEW n1, NEW h, NEW s, IsList(n, h, s, kind),
         NEW e, NEW p \in 1 .. Len(s) + 1, NEW t, Insertion(s, p, e, t),
         InsertedNext(n1, s, p, e, t, kind), kind # "single" => InsertedPrev(n1, s, p, e, t)
  PROVE  IsList(n1, t[1], t, kind)
<1> USE DEF InsertedNext, InsertedPrev
<1> DEFINE L == Len(s)
<1>1. L \in Nat /\ Len(t) = L + 1 /\ t # <<>> /\ Distinct(t)
  BY LenProperties DEF IsList, Distinct, Insertion
<1>2. \A i \in 1 .. L : (i < p => t[i] = s[i]) /\ (p <= i => t[i + 1] = s[i])
  BY DEF Insertion
<1>3. t[p] = e
  BY DEF Insertion
<1>4. ASSUME NEW i \in 1 .. L + 1
      PROVE  n1.next[t[i]] = IF i < L + 1 THEN t[i + 1] ELSE EndOf(t, kind)
  <2>1. CASE i < p
    <3>1. i \in 1 .. L /\ t[i] = s[i] /\ i < L + 1
      BY <1>1, <1>2, <2>1
    <3>2. CASE i = p - 1
      <4>1. t[i + 1] = e
        BY <1>1, <1>3, <3>2
      <4> QED
        BY <3>1, <3>2, <4>1
    <3>3. CASE i # p - 1
      <4>1. i + 1 \in 1 .. L /\ i + 1 < p /\ i # L
        BY <1>1, <2>1, <3>1, <3>3
      <4>2. t[i + 1] = s[i + 1]
        BY <1>2, <4>1
      <4> QED
        BY <3>1, <3>3, <4>1, <4>2
    <3> QED
      BY <3>2, <3>3
  <2>2. CASE i = p
    <3>1. CASE p <= L
      <4>1. p \in 1 .. L /\ i < L + 1
        BY <1>1, <2>2, <3>1
      <4>2. t[p + 1] = s[p]
        BY <1>2, <3>1, <4>1
      <4> QED
        BY <1>3, <2>2, <3>1, <4>1, <4>2
    <3>2. CASE ~(p <= L)
      <4>1. ~(i < L + 1)
        BY <1>1, <2>2, <3>2
      <4> QED
        BY <1>3, <2>2, <3>2, <4>1
    <3> QED
      BY <3>1, <3>2
  <2>3. CASE p < i
    <3> DEFINE j == i - 1
    <3>1. j \in 1 .. L /\ p <= j /\ j # p - 1 /\ i = j + 1
      BY <1>1, <2>3
    <3> HIDE DEF j
    <3>2. t[i] = s[j]
      BY <1>2, <3>1
    <3>3. CASE j = L
      <4>1. ~(i < L + 1)
        BY <1>1, <3>1, <3>3
      <4> QED
        BY <3>1, <3>2, <3>3, <4>1
    <3>4. CASE j # L
      <4>1. j + 1 \in 1 .. L /\ p <= j + 1 /\ i < L + 1
        BY <1>1, <3>1, <3>4
      <4>2. t[(j + 1) + 1] = s[j + 1]
        BY <1>2, <4>1
      <4> QED
        BY <3>1, <3>2, <3>4, <4>1, <4>2
    <3> QED
      BY <3>3, <3>4
  <2> QED
    BY <1>1, <2>1, <2>2, <2>3
<1>5. ASSUME kind # "single", NEW i \in 1 .. L + 1
      PROVE  n1.prev[t[i]] = IF i = 1 THEN t[L + 1] ELSE t[i - 1]
  <2>0. /\ n1.prev[e] = IF p = 1 THEN t[L + 1] ELSE s[p - 1]
        /\ \A j \in 1 .. L : n1.prev[s[j]] = IF j = p THEN e ELSE IF j = 1 THEN t[L + 1] ELSE s[j - 1]
    BY <1>5
  <2>1. CASE i < p
    <3>1. i \in 1 .. L /\ t[i] = s[i] /\ i # p
      BY <1>1, <1>2, <2>1
    <3>2. i # 1 => t[i - 1] = s[i - 1]
      <4> SUFFICES ASSUME i # 1
                   PROVE  t[i - 1] = s[i - 1]
        OBVIOUS
      <4>1. i - 1 \in 1 .. L /\ i - 1 < p
        BY <1>1, <2>1
      <4> QED
        BY <1>2, <4>1
    <3> QED
      BY <2>0, <3>1, <3>2
  <2>2. CASE i = p
    <3>1. p # 1 => t[p - 1] = s[p - 1]
      <4> SUFFICES ASSUME p # 1
                   PROVE  t[p - 1] = s[p - 1]
        OBVIOUS
      <4>1. p - 1 \in 1 .. L /\ p - 1 < p
        BY <1>1
      <4> QED
        BY <1>2, <4>1
    <3> QED
      BY <1>3, <2>0, <2>2, <3>1
  <2>3. CASE p < i
    <3> DEFINE j == i - 1
    <3>1. j \in 1 .. L /\ p <= j /\ i = j + 1 /\ i # 1
      BY <1>1, <2>3
    <3> HIDE DEF j
    <3>2. t[i] = s[j] /\ t[i - 1] = t[j]
      BY <1>2, <3>1
    <3>3. CASE j = p
      BY <1>3, <2>0, <3>1, <3>2, <3>3
    <3>4. CASE j # p
      <4>1. j - 1 \in 1 .. L /\ p <= j - 1 /\ (j - 1) + 1 = j /\ j # 1
        BY <1>1, <3>1, <3>4
      <4>2. t[j] = s[j - 1]
        BY <1>2, <4>1
      <4> QED
        BY <2>0, <3>1, <3>2, <3>4, <4>1, <4>2
    <3> QED
      BY <3>3, <3>4
  <2> QED
    BY <1>1, <2>1, <2>2, <2>3
<1>6. PrevOfHead(t, kind) = t[L + 1]
  BY <1>1 DEF PrevOfHead
<1> QED
  BY <1>1, <1>4, <1>5, <1>6 DEF IsList, Follows

\* Pointers that carry a removal make a list of the shorter sequence.
LEMMA RemoveLinks ==
  ASSUME NEW kind \in Kinds \ {"app"}, NEW n, NEW n1, NEW h, NEW s, IsList(n, h, s, kind),
         NEW p \in 1 .. Len(s), NEW t, Removal(s, p, t), NEW h1, h1 = IF t = <<>> THEN NULL ELSE t[1],
         RemovedNext(n1, s, p, t, kind), kind # "single" => RemovedPrev(n1, s, p, t)
  PROVE  IsList(n1, h1, t, kind)
<1> USE DEF RemovedNext, RemovedPrev
<1> DEFINE L == Len(s)
<1>1. L \in Nat /\ Len(t) = L - 1 /\ Distinct(t)
  BY LenProperties DEF IsList, Distinct, Removal
<1>2. \A i \in 1 .. L - 1 : t[i] = IF i < p THEN s[i] ELSE s[i + 1]
  BY DEF Removal
<1>3. ASSUME NEW i \in 1 .. L - 1
      PROVE  n1.next[t[i]] = IF i < L - 1 THEN t[i + 1] ELSE EndOf(t, kind)
  <2>1. CASE i < p - 1
    <3>1. i \in 1 .. L /\ i # p /\ i # p - 1 /\ i # L /\ i < p /\ i < L - 1 /\ i + 1 \in 1 .. L - 1 /\ i + 1 < p
      BY <1>1, <2>1
    <3>2. t[i] = s[i] /\ t[i + 1] = s[i + 1]
      BY <1>2, <3>1
    <3> QED
      BY <3>1, <3>2
  <2>2. CASE i = p - 1
    <3>1. i \in 1 .. L /\ i # p /\ i < p
      BY <1>1, <2>2
    <3>2. t[i] = s[i]
      BY <1>2, <3>1
    <3>3. CASE p = L
      <4>1. ~(i < L - 1)
        BY <1>1, <2>2, <3>3
      <4> QED
        BY <2>2, <3>1, <3>2, <3>3, <4>1
    <3>4. CASE p # L
      <4>1. i < L - 1 /\ i + 1 \in 1 .. L - 1 /\ ~(i + 1 < p) /\ (i + 1) + 1 = p + 1
        BY <1>1, <2>2, <3>4, SMTT(30)
      <4>2. t[i + 1] = s[p + 1]
        BY <1>2, <4>1
      <4> QED
        BY <2>2, <3>1, <3>2, <3>4, <4>1, <4>2
    <3> QED
      BY <3>3, <3>4
  <2>3. CASE p <= i
    <3> DEFINE j == i + 1
    <3>1. j \in 1 .. L /\ j # p /\ j # p - 1 /\ ~(i < p)
      BY <1>1, <2>3
    <3>2. t[i] = s[j]
      BY <1>2, <3>1
    <3>3. CASE j = L
      <4>1. ~(i < L - 1)
        BY <1>1, <3>3
      <4> QED
        BY <3>1, <3>2, <3>3, <4>1
    <3>4. CASE j # L
      <4>1. i < L - 1 /\ j \in 1 .. L - 1 /\ ~(j < p)
        BY <1>1, <2>3, <3>1, <3>4
      <4>2. t[j] = s[j + 1]
        BY <1>2, <4>1
      <4> QED
        BY <3>1, <3>2, <3>4, <4>1, <4>2
    <3> QED
      BY <3>3, <3>4
  <2> QED
    BY <1>1, <2>1, <2>2, <2>3
<1>4. ASSUME kind # "single", NEW i \in 1 .. L - 1
      PROVE  n1.prev[t[i]] = IF i = 1 THEN t[L - 1] ELSE t[i - 1]
  <2>0. \A j \in 1 .. L : j # p =>
          n1.prev[s[j]] = IF j = 1 \/ (j = 2 /\ p = 1) THEN t[L - 1]
                          ELSE IF j = p + 1 THEN s[p - 1] ELSE s[j - 1]
    BY <1>4
  <2>1. CASE i < p
    <3>1. i \in 1 .. L /\ i # p /\ i # p + 1 /\ ~(i = 2 /\ p = 1)
      BY <1>1, <2>1
    <3>2. t[i] = s[i]
      BY <1>2, <2>1
    <3>3. i # 1 => t[i - 1] = s[i - 1]
      <4> SUFFICES ASSUME i # 1
                   PROVE  t[i - 1] = s[i - 1]
        OBVIOUS
      <4>1. i - 1 \in 1 .. L - 1 /\ i - 1 < p
        BY <1>1, <2>1
      <4> QED
        BY <1>2, <4>1
    <3> QED
      BY <2>0, <3>1, <3>2, <3>3
  <2>2. CASE i = p
    <3>1. p + 1 \in 1 .. L /\ p + 1 # p /\ p + 1 # 1 /\ (p + 1 = 2 <=> p = 1)
      BY <1>1, <2>2
    <3>2. t[i] = s[p + 1]
      BY <1>2, <2>2
    <3>3. p # 1 => t[p - 1] = s[p - 1]
      <4> SUFFICES ASSUME p # 1
                   PROVE  t[p - 1] = s[p - 1]
        OBVIOUS
      <4>1. p - 1 \in 1 .. L - 1 /\ p - 1 < p
        BY <1>1
      <4> QED
        BY <1>2, <4>1
    <3> QED
      BY <2>0, <2>2, <3>1, <3>2, <3>3
  <2>3. CASE p < i
    <3>1. i + 1 \in 1 .. L /\ i + 1 # p /\ i + 1 # p + 1 /\ i + 1 # 1 /\ i + 1 # 2 /\ (i + 1) - 1 = i /\ i # 1
      BY <1>1, <2>3
    <3>2. t[i] = s[i + 1]
      BY <1>2, <2>3
    <3>3. t[i - 1] = s[i]
      <4>1. i - 1 \in 1 .. L - 1 /\ ~(i - 1 < p) /\ (i - 1) + 1 = i
        BY <1>1, <2>3
      <4>2. t[i - 1] = s[(i - 1) + 1]
        BY <1>2, <4>1
      <4> QED
        BY <4>1, <4>2
    <3>4. n1.prev[s[i + 1]] = s[(i + 1) - 1]
      BY <2>0, <3>1
    <3> QED
      BY <3>1, <3>2, <3>3, <3>4
  <2> QED
    BY <1>1, <2>1, <2>2, <2>3
<1>5. PrevOfHead(t, kind) = t[L - 1]
  BY <1>1 DEF PrevOfHead
<1> QED
  BY <1>1, <1>3, <1>4, <1>5 DEF IsList, Follows

\* Pointers that carry a replacement make a list of the changed sequence.
LEMMA ReplaceLinks ==
  ASSUME NEW kind \in Kinds \ {"app"}, NEW n, NEW n1, NEW h, NEW s, IsList(n, h, s, kind),
         NEW e, NEW p \in 1 .. Len(s), NEW t, Replacement(s, p, e, t),
         ReplacedNext(n1, s, p, e, t, kind), kind # "single" => ReplacedPrev(n1, s, p, e, t)
  PROVE  IsList(n1, t[1], t, kind)
<1> USE DEF ReplacedNext, ReplacedPrev
<1> DEFINE L == Len(s)
<1>1. L \in Nat /\ Len(t) = L /\ Distinct(t) /\ t # <<>>
  BY LenProperties DEF IsList, Distinct, Replacement
<1>2. \A i \in 1 .. L : t[i] = IF i = p THEN e ELSE s[i]
  BY DEF Replacement
<1>3. ASSUME NEW i \in 1 .. L
      PROVE  n1.next[t[i]] = IF i < L THEN t[i + 1] ELSE EndOf(t, kind)
  <2>1. i < L => t[i + 1] = IF i + 1 = p THEN e ELSE s[i + 1]
    <3>1. i < L => i + 1 \in 1 .. L
      BY <1>1
    <3> QED
      BY <1>2, <3>1
  <2>2. (i < L <=> i # L) /\ (i + 1 = p <=> i = p - 1)
    BY <1>1
  <2>3. CASE i = p
    <3>1. i # p - 1
      BY <1>1, <2>3
    <3> QED
      BY <1>2, <2>1, <2>2, <2>3, <3>1
  <2>4. CASE i # p
    <3>1. n1.next[s[i]] = IF i = p - 1 THEN e ELSE IF i = L THEN EndOf(t, kind) ELSE s[i + 1]
      BY <2>4
    <3>2. i = p - 1 => i < L
      BY <1>1
    <3> QED
      BY <1>2, <2>1, <2>2, <2>4, <3>1, <3>2
  <2> QED
    BY <2>3, <2>4
<1>4. ASSUME kind # "single", NEW i \in 1 .. L
      PROVE  n1.prev[t[i]] = IF i = 1 THEN t[L] ELSE t[i - 1]
  <2>0. /\ n1.prev[e] = IF p = 1 THEN t[L] ELSE s[p - 1]
        /\ \A j \in 1 .. L : j # p =>
             n1.prev[s[j]] = IF j = p + 1 THEN e ELSE IF j = 1 THEN t[L] ELSE s[j - 1]
    BY <1>4
  <2>1. i # 1 => t[i - 1] = IF i = p + 1 THEN e ELSE s[i - 1]
    <3>1. i # 1 => i - 1 \in 1 .. L /\ (i = p + 1 <=> i - 1 = p)
      BY <1>1
    <3> QED
      BY <1>2, <3>1
  <2>2. p + 1 # 1 /\ p # p + 1
    BY <1>1
  <2>3. CASE i = p
    BY <1>2, <2>0, <2>1, <2>2, <2>3
  <2>4. CASE i # p
    <3>1. n1.prev[s[i]] = IF i = p + 1 THEN e ELSE IF i = 1 THEN t[L] ELSE s[i - 1]
      BY <2>0, <2>4
    <3> QED
      BY <1>2, <2>1, <2>2, <2>4, <3>1
  <2> QED
    BY <2>3, <2>4
<1>5. PrevOfHead(t, kind) = t[L]
  BY <1>1 DEF PrevOfHead
<1> QED
  BY <1>1, <1>3, <1>4, <1>5 DEF IsList, Follows

-----------------------------------------------------------------------------
(* What a list is, node by node. *)
LEMMA ListFacts ==
  ASSUME NEW n, NEW h, NEW s, NEW kind, IsList(n, h, s, kind)
  PROVE  /\ Distinct(s) /\ s \in Seq(Elem) /\ Len(s) \in Nat
         /\ s = <<>> <=> Len(s) = 0
         /\ h = NULL <=> s = <<>>
         /\ s # <<>> => h = s[1] /\ 1 \in 1 .. Len(s) /\ Len(s) \in 1 .. Len(s)
         /\ h \in Link
         /\ Range(s) = {s[i] : i \in 1 .. Len(s)} /\ Range(s) \subseteq Elem
         /\ \A i \in 1 .. Len(s) : s[i] \in Elem /\ s[i] # NULL /\ s[i] \in Range(s)
         /\ \A i, j \in 1 .. Len(s) : s[i] = s[j] => i = j
         /\ \A i \in 1 .. Len(s) : n.next[s[i]] = IF i < Len(s) THEN s[i + 1] ELSE EndOf(s, kind)
<1>1. Distinct(s) /\ s \in Seq(Elem) /\ Len(s) \in Nat
  BY LenProperties DEF IsList, Distinct
<1>2. s = <<>> <=> Len(s) = 0
  BY <1>1, EmptySeq
<1>3. Range(s) = {s[i] : i \in 1 .. Len(s)} /\ Range(s) \subseteq Elem
  BY <1>1, DistinctRange
<1>4. \A i \in 1 .. Len(s) : s[i] \in Elem /\ s[i] # NULL /\ s[i] \in Range(s)
  BY <1>3, MergeSortAssumption
<1>5. s # <<>> => 1 \in 1 .. Len(s) /\ Len(s) \in 1 .. Len(s)
  BY <1>1, <1>2
<1>6. h = IF s = <<>> THEN NULL ELSE s[1]
  BY DEF IsList
<1>7. \A i, j \in 1 .. Len(s) : s[i] = s[j] => i = j
  BY <1>1 DEF Distinct
<1>8. \A i \in 1 .. Len(s) : n.next[s[i]] = IF i < Len(s) THEN s[i + 1] ELSE EndOf(s, kind)
  BY DEF IsList, Follows
<1>9. h \in Link /\ (h = NULL <=> s = <<>>) /\ (s # <<>> => h = s[1])
  BY <1>4, <1>5, <1>6 DEF Link
<1> QED
  BY <1>1, <1>2, <1>3, <1>4, <1>5, <1>7, <1>8, <1>9

\* A sequence is its own piece from end to end.
LEMMA WholePiece ==
  ASSUME NEW S, NEW s \in Seq(S)
  PROVE  SubSeq(s, 1, Len(s)) = s
<1> DEFINE L == Len(s)
           u == SubSeq(s, 1, L)
<1>1. L \in Nat /\ 1 \in 1 .. L + 1 /\ L \in 1 - 1 .. L
  BY LenProperties
<1>2. u \in Seq(S) /\ Len(u) = L - 1 + 1 /\ \A i \in 1 .. L - 1 + 1 : u[i] = s[1 + i - 1]
  BY <1>1, Piece
<1> HIDE DEF u
<1>3. L - 1 + 1 = L /\ \A i \in 1 .. L : 1 + i - 1 = i
  BY <1>1
<1>4. Len(u) = L /\ \A i \in 1 .. L : u[i] = s[i]
  BY <1>2, <1>3
<1>5. u = s
  BY <1>2, <1>4, SeqEqual
<1> QED
  BY <1>5 DEF u

(* A walk over all of s, in turns enough. *)
LEMMA WalkWhole ==
  ASSUME NEW s \in Seq(Elem), 1 \in 1 .. Len(s), NEW next, NEW stop, NEW N \in Nat, Len(s) <= N,
         \A i \in 1 .. Len(s) - 1 : next[s[i]] = s[i + 1] /\ s[i + 1] # stop,
         next[s[Len(s)]] \in {stop, NULL}
  PROVE  Walk(next, s[1], stop, N) = s
<1>1. Len(s) \in Nat
  BY LenProperties
<1>2. next[s[Len(s)]] \in {stop, NULL} \/ 1 + N < Len(s)
  OBVIOUS
<1>3. Walk(next, s[1], stop, N) = SubSeq(s, 1, IF 1 + N < Len(s) THEN 1 + N ELSE Len(s))
  BY <1>2, WalkRule
<1>4. ~(1 + N < Len(s))
  BY <1>1
<1> QED
  BY <1>3, <1>4, WholePiece

(* A walk over a list meets its nodes: to NULL, or round to the head.  It   *)
(* ends before the node that it looks for, or at the last one.              *)
LEMMA WalksList ==
  ASSUME NEW n, NEW h, NEW s, NEW kind \in Kinds, IsList(n, h, s, kind),
         NEW stop, stop = IF kind = "circular" THEN h ELSE NULL
  PROVE  WalkTo(n, h, stop) = s
<1> DEFINE L == Len(s)
           C == Cardinality(Elem)
           next == n.next
<1>1. CASE s = <<>>
  BY <1>1, ListFacts DEF WalkTo
<1>2. CASE s # <<>>
  <2>1. /\ s \in Seq(Elem) /\ L \in Nat /\ 1 \in 1 .. L /\ L \in 1 .. L /\ h = s[1] /\ h # NULL
        /\ \A i \in 1 .. L : s[i] # NULL
        /\ \A i, j \in 1 .. L : s[i] = s[j] => i = j
        /\ \A i \in 1 .. L : next[s[i]] = IF i < L THEN s[i + 1] ELSE EndOf(s, kind)
    BY <1>2, ListFacts
  <2>2. C \in Nat /\ L <= C
    BY DistinctLength, ListFacts
  <2>3. next[s[L]] = stop
    BY <2>1 DEF EndOf
  <2>4. \A i \in 1 .. L - 1 : next[s[i]] = s[i + 1] /\ s[i + 1] # stop
    <3> SUFFICES ASSUME NEW i \in 1 .. L - 1
                 PROVE  next[s[i]] = s[i + 1] /\ s[i + 1] # stop
      OBVIOUS
    <3>1. i \in 1 .. L /\ i < L /\ i + 1 \in 1 .. L /\ i + 1 # 1
      BY <2>1
    <3>2. s[i + 1] # s[1] /\ s[i + 1] # NULL
      BY <2>1, <3>1
    <3> QED
      BY <2>1, <3>1, <3>2
  <2>5. next[s[Len(s)]] \in {stop, NULL}
    BY <2>3
  <2>6. s \in Seq(Elem) /\ 1 \in 1 .. Len(s) /\ C \in Nat /\ Len(s) <= C
    BY <2>1, <2>2
  <2> HIDE DEF next, C
  <2>7. Walk(next, s[1], stop, C) = s
    BY <2>4, <2>5, <2>6, WalkWhole
  <2> QED
    BY <2>1, <2>7 DEF WalkTo, next, C
<1> QED
  BY <1>1, <1>2

\* Searching a list for a node that is not in it ends at the last node.
LEMMA WalkedAll ==
  ASSUME NEW n, NEW h, NEW s, s # <<>>, NEW kind \in Kinds \ {"circular"}, IsList(n, h, s, kind),
         NEW el, el \notin Range(s)
  PROVE  Walked(n, h, el) = s[Len(s)]
<1> DEFINE L == Len(s)
           C == Cardinality(Elem)
           next == n.next
<1>1. /\ s \in Seq(Elem) /\ L \in Nat /\ 1 \in 1 .. L /\ L \in 1 .. L /\ h = s[1] /\ h # NULL
      /\ \A i \in 1 .. L : s[i] \in Range(s)
      /\ \A i \in 1 .. L : next[s[i]] = IF i < L THEN s[i + 1] ELSE EndOf(s, kind)
  BY ListFacts
<1>2. C \in Nat /\ L <= C
  BY DistinctLength, ListFacts
<1>3. next[s[L]] = NULL
  BY <1>1 DEF EndOf
<1>4. \A i \in 1 .. L - 1 : next[s[i]] = s[i + 1] /\ s[i + 1] # el
  <2> SUFFICES ASSUME NEW i \in 1 .. L - 1
               PROVE  next[s[i]] = s[i + 1] /\ s[i + 1] # el
    OBVIOUS
  <2>1. i \in 1 .. L /\ i < L /\ i + 1 \in 1 .. L
    BY <1>1
  <2> QED
    BY <1>1, <2>1
<1>5. next[s[Len(s)]] \in {el, NULL}
  BY <1>3
<1> HIDE DEF next, C
<1>6. /\ s \in Seq(Elem) /\ 1 \in 1 .. Len(s) /\ C \in Nat /\ Len(s) <= C
      /\ \A i \in 1 .. Len(s) - 1 : next[s[i]] = s[i + 1] /\ s[i + 1] # el
  BY <1>1, <1>2, <1>4
<1> HIDE DEF L
<1>7. Walk(next, s[1], el, C) = s
  BY <1>5, <1>6, WalkWhole
<1>8. WalkTo(n, h, el) = s
  BY <1>1, <1>7 DEF WalkTo, next, C
<1> QED
  BY <1>8 DEF Walked, Last

\* Searching a list for its i-th node, from the second on, ends at the node before.
LEMMA WalkedBefore ==
  ASSUME NEW n, NEW h, NEW s, NEW kind, IsList(n, h, s, kind), NEW i \in 2 .. Len(s)
  PROVE  Walked(n, h, s[i]) = s[i - 1] /\ i - 1 \in 1 .. Len(s) /\ n.next[s[i - 1]] = s[i]
<1> DEFINE L == Len(s)
           C == Cardinality(Elem)
           next == n.next
           stop == s[i]
           u == SubSeq(s, 1, i - 1)
<1>1. /\ s \in Seq(Elem) /\ L \in Nat /\ (s = <<>> <=> L = 0)
      /\ \A k, j \in 1 .. L : s[k] = s[j] => k = j
      /\ \A j \in 1 .. L : next[s[j]] = IF j < L THEN s[j + 1] ELSE EndOf(s, kind)
  BY ListFacts
<1>2. i - 1 \in 1 .. L /\ i - 1 < L /\ 1 \in 1 .. L + 1 /\ i - 1 \in 1 - 1 .. L /\ (i - 1) - 1 + 1 = i - 1
      /\ s # <<>> /\ i \in 1 .. L /\ (i - 1) + 1 = i
  BY <1>1
<1>3. h = s[1] /\ h # NULL
  BY <1>2, ListFacts
<1>4. C \in Nat /\ L <= C
  BY DistinctLength, ListFacts
<1>5. u \in Seq(Elem) /\ Len(u) = i - 1 /\ \A j \in 1 .. i - 1 : u[j] = s[j]
  <2>1. u \in Seq(Elem) /\ Len(u) = (i - 1) - 1 + 1 /\ \A j \in 1 .. (i - 1) - 1 + 1 : u[j] = s[1 + j - 1]
    BY <1>1, <1>2, Piece
  <2> HIDE DEF u
  <2>2. \A j \in 1 .. i - 1 : 1 + j - 1 = j
    BY <1>1
  <2> QED
    BY <1>2, <2>1, <2>2
<1> HIDE DEF u
<1>6. next[s[i - 1]] = s[i]
  BY <1>1, <1>2
<1>7. 1 \in 1 .. i - 1 /\ i - 1 \in 1 .. i - 1
  BY <1>1
<1>8. next[u[Len(u)]] = stop /\ u[1] = s[1]
  BY <1>5, <1>6, <1>7
<1>9. \A j \in 1 .. Len(u) - 1 : next[u[j]] = u[j + 1] /\ u[j + 1] # stop
  <2> SUFFICES ASSUME NEW j \in 1 .. (i - 1) - 1
               PROVE  next[u[j]] = u[j + 1] /\ u[j + 1] # stop
    BY <1>5
  <2>1. j \in 1 .. i - 1 /\ j + 1 \in 1 .. i - 1 /\ j \in 1 .. L /\ j + 1 \in 1 .. L /\ j < L /\ j + 1 # i
    BY <1>1
  <2>2. s[j + 1] # s[i] /\ next[s[j]] = s[j + 1]
    BY <1>1, <1>2, <2>1
  <2> QED
    BY <1>5, <2>1, <2>2
<1>10. 1 \in 1 .. Len(u) /\ Len(u) <= C
  BY <1>1, <1>4, <1>5
<1>11. next[u[Len(u)]] \in {stop, NULL}
  BY <1>8
<1> HIDE DEF next, stop, C
<1>12. Walk(next, u[1], stop, C) = u
  BY <1>4, <1>5, <1>9, <1>10, <1>11, WalkWhole
<1>13. Walked(n, h, s[i]) = u[Len(u)]
  BY <1>3, <1>8, <1>12 DEF Walked, WalkTo, Last, next, stop, C
<1>14. u[Len(u)] = s[i - 1]
  BY <1>5, <1>7
<1>15. n.next[s[i - 1]] = s[i]
  BY <1>6 DEF next
<1> QED
  BY <1>2, <1>13, <1>14, <1>15

-----------------------------------------------------------------------------
(***************************************************************************)
(* A macro of a list makes the list t of its kind, and touches the nodes S *)
(* at most.                                                                *)
(***************************************************************************)
Makes(r, n, S, t, kind) ==
  r.n \in Pointers /\ IsList(r.n, r.head, t, kind) /\ SameOutside(n, r.n, S)

(* A node put into a singly linked list, taken out of it, or put in place of *)
(* another, from the next pointers alone.                                   *)
LEMMA InsertedNextBy ==
  ASSUME NEW n, NEW h, NEW s, NEW kind \in {"single", "double"}, IsList(n, h, s, kind),
         NEW e \in Elem, e \notin Range(s), NEW p \in 1 .. Len(s) + 1, NEW t, NEW n1,
         \A x \in Elem : n1.next[x] = IF x = e THEN (IF p <= Len(s) THEN s[p] ELSE NULL)
                                      ELSE IF p > 1 /\ x = s[p - 1] THEN e ELSE n.next[x]
  PROVE  /\ InsertedNext(n1, s, p, e, t, kind)
         /\ \A x \in Elem : x \notin Range(s) \cup {e} => n1.next[x] = n.next[x]
<1> DEFINE L == Len(s)
<1>1. /\ L \in Nat /\ \A i \in 1 .. L : s[i] \in Elem /\ s[i] \in Range(s) /\ s[i] # e
      /\ \A i, j \in 1 .. L : s[i] = s[j] => i = j
      /\ \A i \in 1 .. L : n.next[s[i]] = IF i < L THEN s[i + 1] ELSE EndOf(s, kind)
  BY ListFacts
<1>2. EndOf(t, kind) = NULL /\ EndOf(s, kind) = NULL
  BY DEF EndOf
<1>3. n1.next[e] = IF p <= L THEN s[p] ELSE EndOf(t, kind)
  BY <1>2
<1>4. ASSUME NEW i \in 1 .. L
      PROVE  n1.next[s[i]] = IF i = p - 1 THEN e ELSE IF i = L THEN EndOf(t, kind) ELSE s[i + 1]
  <2>1. n1.next[s[i]] = IF p > 1 /\ s[i] = s[p - 1] THEN e ELSE n.next[s[i]]
    BY <1>1
  <2>2. (p > 1 /\ s[i] = s[p - 1]) <=> i = p - 1
    <3>1. p > 1 => p - 1 \in 1 .. L
      BY <1>1
    <3>2. i = p - 1 => p > 1
      BY <1>1
    <3> QED
      BY <1>1, <3>1, <3>2
  <2>3. i < L <=> i # L
    BY <1>1
  <2> QED
    BY <1>1, <1>2, <2>1, <2>2, <2>3
<1>5. ASSUME NEW x \in Elem, x \notin Range(s) \cup {e} PROVE n1.next[x] = n.next[x]
  <2>1. p > 1 => p - 1 \in 1 .. L
    BY <1>1
  <2>2. ~(p > 1 /\ x = s[p - 1])
    BY <1>1, <1>5, <2>1
  <2> QED
    BY <1>5, <2>2
<1> QED
  BY <1>3, <1>4, <1>5 DEF InsertedNext

\* An insertion into a singly-linked list, whatever macro makes it.
LEMMA SingleInsertion ==
  ASSUME NEW n \in Pointers, NEW h, NEW s, IsList(n, h, s, "single"), NEW e \in Elem, e \notin Range(s),
         NEW p \in 1 .. Len(s) + 1, NEW t, Insertion(s, p, e, t), NEW n1 \in Pointers, n1.prev = n.prev,
         \A x \in Elem : n1.next[x] = IF x = e THEN (IF p <= Len(s) THEN s[p] ELSE NULL)
                                      ELSE IF p > 1 /\ x = s[p - 1] THEN e ELSE n.next[x]
  PROVE  Makes(Result(n1, t[1]), n, Range(s) \cup {e}, t, "single")
<1>1. /\ InsertedNext(n1, s, p, e, t, "single")
      /\ \A x \in Elem : x \notin Range(s) \cup {e} => n1.next[x] = n.next[x]
  BY InsertedNextBy
<1>2. "single" \in Kinds \ {"app"}
  BY DEF Kinds
<1>3. IsList(n1, t[1], t, "single")
  BY <1>1, <1>2, InsertLinks
<1>4. SameOutside(n, n1, Range(s) \cup {e})
  BY <1>1 DEF SameOutside
<1> QED
  BY <1>3, <1>4 DEF Makes, Result

\* A removal from a singly-linked list, whatever macro makes it.
LEMMA SingleRemoval ==
  ASSUME NEW n \in Pointers, NEW h, NEW s, IsList(n, h, s, "single"), NEW p \in 1 .. Len(s),
         NEW t, Removal(s, p, t), NEW n1 \in Pointers, n1.prev = n.prev,
         \A x \in Elem : n1.next[x] = IF p > 1 /\ x = s[p - 1] THEN n.next[s[p]] ELSE n.next[x],
         NEW h1, h1 = IF t = <<>> THEN NULL ELSE t[1]
  PROVE  Makes(Result(n1, h1), n, Range(s), t, "single")
<1> DEFINE L == Len(s)
<1>1. /\ L \in Nat /\ \A i \in 1 .. L : s[i] \in Elem /\ s[i] \in Range(s)
      /\ \A i, j \in 1 .. L : s[i] = s[j] => i = j
      /\ \A i \in 1 .. L : n.next[s[i]] = IF i < L THEN s[i + 1] ELSE EndOf(s, "single")
  BY ListFacts
<1>2. EndOf(t, "single") = NULL /\ EndOf(s, "single") = NULL
  BY DEF EndOf
<1>3. p > 1 => p - 1 \in 1 .. L
  BY <1>1
<1>4. ASSUME NEW i \in 1 .. L, i # p
      PROVE  n1.next[s[i]] = IF i = p - 1 THEN (IF p = L THEN EndOf(t, "single") ELSE s[p + 1])
                             ELSE IF i = L THEN EndOf(t, "single") ELSE s[i + 1]
  <2>1. n1.next[s[i]] = IF p > 1 /\ s[i] = s[p - 1] THEN n.next[s[p]] ELSE n.next[s[i]]
    BY <1>1
  <2>2. (p > 1 /\ s[i] = s[p - 1]) <=> i = p - 1
    <3>1. i = p - 1 => p > 1
      BY <1>1
    <3> QED
      BY <1>1, <1>3, <3>1
  <2>3. (i < L <=> i # L) /\ (p < L <=> p # L)
    BY <1>1
  <2> QED
    BY <1>1, <1>2, <2>1, <2>2, <2>3
<1>5. "single" \in Kinds \ {"app"}
  BY DEF Kinds
<1>6. IsList(n1, h1, t, "single")
  <2>1. RemovedNext(n1, s, p, t, "single")
    BY <1>4 DEF RemovedNext
  <2> QED
    BY <1>5, <2>1, RemoveLinks
<1>7. SameOutside(n, n1, Range(s))
  BY <1>1, <1>3 DEF SameOutside
<1> QED
  BY <1>6, <1>7 DEF Makes, Result

\* A replacement in a singly-linked list, whatever macro makes it.
LEMMA SingleReplacement ==
  ASSUME NEW n \in Pointers, NEW h, NEW s, IsList(n, h, s, "single"), NEW e \in Elem, e \notin Range(s),
         NEW p \in 1 .. Len(s), NEW t, Replacement(s, p, e, t), NEW n1 \in Pointers, n1.prev = n.prev,
         \A x \in Elem : n1.next[x] = IF x = e THEN n.next[s[p]]
                                      ELSE IF p > 1 /\ x = s[p - 1] THEN e ELSE n.next[x]
  PROVE  Makes(Result(n1, t[1]), n, Range(s) \cup {e}, t, "single")
<1> DEFINE L == Len(s)
<1>1. /\ L \in Nat /\ \A i \in 1 .. L : s[i] \in Elem /\ s[i] \in Range(s) /\ s[i] # e
      /\ \A i, j \in 1 .. L : s[i] = s[j] => i = j
      /\ \A i \in 1 .. L : n.next[s[i]] = IF i < L THEN s[i + 1] ELSE EndOf(s, "single")
  BY ListFacts
<1>2. EndOf(t, "single") = NULL /\ EndOf(s, "single") = NULL
  BY DEF EndOf
<1>3. (p > 1 => p - 1 \in 1 .. L) /\ (p < L <=> p # L)
  BY <1>1
<1>4. n1.next[e] = IF p = L THEN EndOf(t, "single") ELSE s[p + 1]
  BY <1>1, <1>2, <1>3
<1>5. ASSUME NEW i \in 1 .. L, i # p
      PROVE  n1.next[s[i]] = IF i = p - 1 THEN e ELSE IF i = L THEN EndOf(t, "single") ELSE s[i + 1]
  <2>1. n1.next[s[i]] = IF p > 1 /\ s[i] = s[p - 1] THEN e ELSE n.next[s[i]]
    BY <1>1
  <2>2. (p > 1 /\ s[i] = s[p - 1]) <=> i = p - 1
    <3>1. i = p - 1 => p > 1
      BY <1>1
    <3> QED
      BY <1>1, <1>3, <3>1
  <2>3. i < L <=> i # L
    BY <1>1
  <2> QED
    BY <1>1, <1>2, <2>1, <2>2, <2>3
<1>6. "single" \in Kinds \ {"app"}
  BY DEF Kinds
<1>7. IsList(n1, t[1], t, "single")
  <2>1. ReplacedNext(n1, s, p, e, t, "single")
    BY <1>4, <1>5 DEF ReplacedNext
  <2> QED
    BY <1>6, <2>1, ReplaceLinks
<1>8. SameOutside(n, n1, Range(s) \cup {e})
  BY <1>1, <1>3 DEF SameOutside
<1> QED
  BY <1>7, <1>8 DEF Makes, Result

-----------------------------------------------------------------------------
(* LL_PREPEND2 puts a node before the others, LL_APPEND2 after them. *)
LEMMA SinglePrepend ==
  ASSUME NEW n \in Pointers, NEW h, NEW s, IsList(n, h, s, "single"), NEW e \in Elem, e \notin Range(s)
  PROVE  Makes(LL_PREPEND2(n, h, e), n, Range(s) \cup {e}, <<e>> \o s, "single")
<1> DEFINE t == <<e>> \o s
           n1 == SetNext(n, e, h)
<1>1. /\ Distinct(s) /\ Len(s) \in Nat /\ h \in Link /\ (h = NULL <=> s = <<>>) /\ (s = <<>> <=> Len(s) = 0)
      /\ (s # <<>> => h = s[1])
  BY ListFacts
<1>2. Insertion(s, 1, e, t)
  BY <1>1, ConsIs
<1>3. n1 \in Pointers /\ n1.prev = n.prev /\ \A x \in Elem : n1.next[x] = IF x = e THEN h ELSE n.next[x]
  BY <1>1, SetNextIs
<1>4. LL_PREPEND2(n, h, e) = Result(n1, e)
  BY DEF LL_PREPEND2
<1> HIDE DEF n1, t
<1>5. t[1] = e
  BY <1>2 DEF Insertion
<1>6. 1 \in 1 .. Len(s) + 1 /\ h = (IF 1 <= Len(s) THEN s[1] ELSE NULL)
  BY <1>1
<1>7. \A x \in Elem : n1.next[x] = IF x = e THEN (IF 1 <= Len(s) THEN s[1] ELSE NULL)
                                   ELSE IF 1 > 1 /\ x = s[1 - 1] THEN e ELSE n.next[x]
  BY <1>3, <1>6
<1>8. Makes(Result(n1, t[1]), n, Range(s) \cup {e}, t, "single")
  BY <1>2, <1>3, <1>6, <1>7, SingleInsertion
<1> QED
  BY <1>4, <1>5, <1>8 DEF t

\* LL_APPEND appends.
LEMMA SingleAppend ==
  ASSUME NEW n \in Pointers, NEW h, NEW s, IsList(n, h, s, "single"), NEW e \in Elem, e \notin Range(s)
  PROVE  Makes(LL_APPEND2(n, h, e), n, Range(s) \cup {e}, Append(s, e), "single")
<1> DEFINE t == Append(s, e)
           L == Len(s)
           n1 == SetNext(n, e, NULL)
<1>1. /\ Distinct(s) /\ L \in Nat /\ h \in Link /\ (h = NULL <=> s = <<>>) /\ (s = <<>> <=> L = 0)
      /\ (s # <<>> => h = s[1] /\ 1 \in 1 .. L /\ L \in 1 .. L)
      /\ \A i \in 1 .. L : s[i] \in Elem /\ s[i] # NULL /\ s[i] \in Range(s)
      /\ Range(s) \subseteq Elem
  BY ListFacts
<1>2. Insertion(s, L + 1, e, t)
  BY <1>1, AppendIs
<1>3. n1 \in Pointers /\ n1.prev = n.prev /\ \A x \in Elem : n1.next[x] = IF x = e THEN NULL ELSE n.next[x]
  BY SetNextIs DEF Link
<1>4. L + 1 \in 1 .. L + 1 /\ ~(L + 1 <= L) /\ (L + 1) - 1 = L /\ (L + 1 > 1 <=> s # <<>>)
  BY <1>1
<1>5. CASE s = <<>>
  <2>1. LL_APPEND2(n, h, e) = Result(n1, e)
    BY <1>1, <1>5 DEF LL_APPEND2
  <2>2. t[1] = e
    BY <1>1, <1>2, <1>5 DEF Insertion
  <2>3. \A x \in Elem : n1.next[x] = IF x = e THEN (IF L + 1 <= L THEN s[L + 1] ELSE NULL)
                                     ELSE IF L + 1 > 1 /\ x = s[(L + 1) - 1] THEN e ELSE n.next[x]
    BY <1>3, <1>4, <1>5
  <2> HIDE DEF n1, t
  <2>4. Makes(Result(n1, t[1]), n, Range(s) \cup {e}, t, "single")
    BY <1>2, <1>3, <1>4, <2>3, SingleInsertion
  <2> QED
    BY <2>1, <2>2, <2>4 DEF t
<1>6. CASE s # <<>>
  <2> DEFINE n2 == SetNext(n1, s[L], e)
  <2>1. SameOutside(n, n1, {e})
    BY <1>3 DEF SameOutside
  <2>2. IsList(n1, h, s, "single")
    <3>1. Range(s) \cap {e} = {}
      OBVIOUS
    <3> HIDE DEF n1
    <3> QED
      BY <2>1, <3>1, ListFrame
  <2>3. Walked(n1, h, NULL) = s[L]
    <3>1. NULL \notin Range(s) /\ "single" \in Kinds \ {"circular"}
      BY <1>1, MergeSortAssumption DEF Kinds
    <3> HIDE DEF n1
    <3> QED
      BY <1>6, <2>2, <3>1, WalkedAll
  <2>4. LL_APPEND2(n, h, e) = Result(n2, h)
    BY <1>1, <1>6, <2>3 DEF LL_APPEND2
  <2> HIDE DEF n1
  <2>5. n2 \in Pointers /\ n2.prev = n1.prev /\ \A x \in Elem : n2.next[x] = IF x = s[L] THEN e ELSE n1.next[x]
    <3>1. s[L] \in Elem /\ e \in Link
      BY <1>1, <1>6 DEF Link
    <3> QED
      BY <1>3, <3>1, SetNextIs
  <2> HIDE DEF n2, t
  <2>6. s[L] # e
    BY <1>1, <1>6
  <2>7. \A x \in Elem : n2.next[x] = IF x = e THEN (IF L + 1 <= L THEN s[L + 1] ELSE NULL)
                                     ELSE IF L + 1 > 1 /\ x = s[(L + 1) - 1] THEN e ELSE n.next[x]
    BY <1>3, <1>4, <1>6, <2>5, <2>6
  <2>8. n2.prev = n.prev
    BY <1>3, <2>5
  <2>9. Makes(Result(n2, t[1]), n, Range(s) \cup {e}, t, "single")
    BY <1>2, <1>4, <2>5, <2>7, <2>8, SingleInsertion
  <2>10. t[1] = h
    <3>1. 1 \in 1 .. L /\ 1 < L + 1
      BY <1>1, <1>6
    <3>2. t[1] = s[1]
      BY <1>2, <3>1 DEF Insertion
    <3> QED
      BY <1>1, <1>6, <3>2
  <2> QED
    BY <2>4, <2>9, <2>10 DEF t
<1> QED
  BY <1>5, <1>6

-----------------------------------------------------------------------------
\* A list without its i-th node.
LEMMA WithoutIs ==
  ASSUME NEW s, Distinct(s), NEW i \in 1 .. Len(s), s[i] \in Range(s)
  PROVE  Removal(s, i, Without(s, s[i]))
<1>1. At(s, s[i]) = i
  BY AtIs
<1>2. Without(s, s[i]) = RemoveAt(s, i)
  BY <1>1 DEF Without
<1> QED
  BY <1>2, RemoveAtIs

\* A list with a node instead of, or before, its i-th.
LEMMA InsteadIs ==
  ASSUME NEW s, Distinct(s), NEW i \in 1 .. Len(s), NEW e \in Elem, e \notin Range(s)
  PROVE  /\ Replacement(s, i, e, InsteadOf(s, s[i], e))
         /\ Insertion(s, i, e, InsertBefore(s, s[i], e))
<1>1. At(s, s[i]) = i
  BY AtIs
<1>2. InsteadOf(s, s[i], e) = [s EXCEPT ![i] = e] /\ InsertBefore(s, s[i], e) = InsertAt(s, i, e)
  BY <1>1 DEF InsteadOf, InsertBefore
<1> QED
  BY <1>2, ReplaceIs, InsertAtIs

\* The ends of a list after a removal.
LEMMA HeadOfRemoval ==
  ASSUME NEW n, NEW h, NEW s, NEW kind, IsList(n, h, s, kind), NEW p \in 1 .. Len(s), NEW t, Removal(s, p, t)
  PROVE  /\ t = <<>> <=> Len(s) = 1
         /\ p > 1 => t # <<>> /\ t[1] = s[1]
         /\ p = 1 /\ t # <<>> => 2 \in 1 .. Len(s) /\ t[1] = s[2] /\ 1 < Len(s)
         /\ Len(s) > 1 => t[Len(s) - 1] = IF p = Len(s) THEN s[Len(s) - 1] ELSE s[Len(s)]
<1>0. Len(s) \in Nat
  BY ListFacts
<1>1. Len(s) \in Nat /\ p \in Nat /\ 1 <= p /\ p <= Len(s)
  BY <1>0
<1>2. t \in Seq(Elem) /\ Len(t) = Len(s) - 1 /\ \A i \in 1 .. Len(s) - 1 : t[i] = IF i < p THEN s[i] ELSE s[i + 1]
  BY DEF Removal, Distinct
<1>3. t = <<>> <=> Len(s) = 1
  BY <1>1, <1>2, EmptySeq
<1>4. p > 1 => t # <<>> /\ t[1] = s[1]
  <2> SUFFICES ASSUME p > 1
               PROVE  t # <<>> /\ t[1] = s[1]
    OBVIOUS
  <2>1. Len(s) > 1 /\ 1 < p
    BY <1>1
  <2>2. 1 \in 1 .. Len(s) - 1 /\ Len(s) # 1
    BY <1>1, <2>1
  <2> QED
    BY <1>2, <1>3, <2>1, <2>2
<1>5. p = 1 /\ t # <<>> => 2 \in 1 .. Len(s) /\ t[1] = s[2] /\ 1 < Len(s)
  <2> SUFFICES ASSUME p = 1, t # <<>>
               PROVE  2 \in 1 .. Len(s) /\ t[1] = s[2] /\ 1 < Len(s)
    OBVIOUS
  <2>0. Len(s) # 1
    BY <1>3
  <2>1. Len(s) > 1
    BY <1>1, <2>0
  <2>2. 1 \in 1 .. Len(s) - 1 /\ 2 \in 1 .. Len(s) /\ 1 < Len(s)
    BY <1>1, <2>1
  <2>3. ~(1 < p) /\ 1 + 1 = 2
    OBVIOUS
  <2>4. t[1] = s[2]
    BY <1>2, <2>2, <2>3
  <2> QED
    BY <2>2, <2>4
<1>6. Len(s) > 1 => t[Len(s) - 1] = IF p = Len(s) THEN s[Len(s) - 1] ELSE s[Len(s)]
  <2>1. Len(s) > 1 => Len(s) - 1 \in 1 .. Len(s) - 1 /\ (Len(s) - 1 < p <=> p = Len(s)) /\ (Len(s) - 1) + 1 = Len(s)
    BY <1>1
  <2> QED
    BY <1>2, <2>1
<1> QED
  BY <1>3, <1>4, <1>5, <1>6

(* What LL_DELETE2 makes of the node at i; a node of no list changes nothing. *)
LEMMA SingleDeleteAt ==
  ASSUME NEW n \in Pointers, NEW h, NEW s, IsList(n, h, s, "single"), NEW i \in 1 .. Len(s)
  PROVE  /\ Makes(LL_DELETE2(n, h, s[i]), n, Range(s), Without(s, s[i]), "single")
         /\ LL_DELETE2_VS2008(n, h, s[i]) = LL_DELETE2(n, h, s[i])
<1> DEFINE L == Len(s)
           t == Without(s, s[i])
<1>1. /\ Distinct(s) /\ L \in Nat /\ (s = <<>> <=> L = 0)
      /\ (s # <<>> => h = s[1] /\ 1 \in 1 .. L /\ L \in 1 .. L)
      /\ \A j \in 1 .. L : s[j] \in Elem /\ s[j] # NULL /\ s[j] \in Range(s)
      /\ \A j, k \in 1 .. L : s[j] = s[k] => j = k
      /\ \A j \in 1 .. L : n.next[s[j]] = IF j < L THEN s[j + 1] ELSE EndOf(s, "single")
  BY ListFacts
<1>2. Removal(s, i, t)
  BY <1>1, WithoutIs
<1> HIDE DEF t
<1>3. /\ t = <<>> <=> L = 1
      /\ i > 1 => t # <<>> /\ t[1] = s[1]
      /\ i = 1 /\ t # <<>> => 2 \in 1 .. L /\ t[1] = s[2] /\ 1 < L
  BY <1>2, HeadOfRemoval
<1>4. n.next[s[i]] \in Link
  BY <1>1 DEF Pointers
<1>5. CASE i = 1
  <2>1. h = s[1] /\ s # <<>> /\ 1 \in 1 .. L
    BY <1>1, <1>5
  <2>2. LL_DELETE2(n, h, s[1]) = Result(n, n.next[s[1]]) /\ LL_DELETE2_VS2008(n, h, s[1]) = Result(n, n.next[s[1]])
    BY <2>1 DEF LL_DELETE2, LL_DELETE2_VS2008
  <2>3. n.next[s[1]] = IF t = <<>> THEN NULL ELSE t[1]
    <3>1. n.next[s[1]] = IF 1 < L THEN s[1 + 1] ELSE NULL
      BY <1>1, <2>1 DEF EndOf
    <3>2. 1 + 1 = 2 /\ (1 < L <=> L # 1)
      BY <1>1, <2>1
    <3> QED
      BY <1>3, <1>5, <3>1, <3>2
  <2>4. \A x \in Elem : n.next[x] = IF i > 1 /\ x = s[i - 1] THEN n.next[s[i]] ELSE n.next[x]
    BY <1>5
  <2>5. Makes(Result(n, n.next[s[1]]), n, Range(s), t, "single")
    BY <1>2, <2>3, <2>4, SingleRemoval
  <2> QED
    BY <1>5, <2>2, <2>5 DEF t
<1>6. CASE i # 1
  <2>1. i \in 2 .. L /\ i > 1
    BY <1>1, <1>6
  <2>2. Walked(n, h, s[i]) = s[i - 1] /\ i - 1 \in 1 .. L /\ n.next[s[i - 1]] = s[i]
    BY <2>1, WalkedBefore
  <2>3. h # s[i] /\ n.next[s[i - 1]] # NULL /\ s # <<>>
    BY <1>1, <1>6, <2>1, <2>2
  <2> DEFINE n1 == SetNext(n, s[i - 1], n.next[s[i]])
  <2>4. LL_DELETE2(n, h, s[i]) = Result(n1, h) /\ LL_DELETE2_VS2008(n, h, s[i]) = Result(n1, h)
    BY <2>2, <2>3 DEF LL_DELETE2, LL_DELETE2_VS2008
  <2>5. /\ n1 \in Pointers /\ n1.prev = n.prev
        /\ \A x \in Elem : n1.next[x] = IF x = s[i - 1] THEN n.next[s[i]] ELSE n.next[x]
    BY <1>1, <1>4, <2>2, SetNextIs
  <2> HIDE DEF n1
  <2>6. \A x \in Elem : n1.next[x] = IF i > 1 /\ x = s[i - 1] THEN n.next[s[i]] ELSE n.next[x]
    BY <2>1, <2>5
  <2>7. h = IF t = <<>> THEN NULL ELSE t[1]
    BY <1>1, <1>3, <2>1, <2>3
  <2>8. Makes(Result(n1, h), n, Range(s), t, "single")
    BY <1>2, <2>5, <2>6, <2>7, SingleRemoval
  <2> QED
    BY <2>4, <2>8 DEF t
<1> QED
  BY <1>5, <1>6

(* LL_DELETE2 and LL_DELETE2_VS2008 take a node out of the list that has it, *)
(* and leave a list that does not have it as it was.                        *)
LEMMA SingleDeletion ==
  ASSUME NEW n \in Pointers, NEW h, NEW s, IsList(n, h, s, "single"), s # <<>>, NEW e \in Elem
  PROVE  /\ Makes(LL_DELETE2(n, h, e), n, Range(s), Without(s, e), "single")
         /\ Makes(LL_DELETE2_VS2008(n, h, e), n, Range(s), Without(s, e), "single")
<1> DEFINE L == Len(s)
<1>1. /\ L \in Nat /\ h = s[1] /\ 1 \in 1 .. L /\ L \in 1 .. L /\ Range(s) = {s[j] : j \in 1 .. L}
      /\ \A j \in 1 .. L : s[j] \in Range(s)
      /\ n.next[s[L]] = IF L < L THEN s[L + 1] ELSE EndOf(s, "single")
  BY ListFacts
<1>2. CASE e \in Range(s)
  <2>1. PICK i \in 1 .. L : s[i] = e
    BY <1>1, <1>2
  <2>2. /\ Makes(LL_DELETE2(n, h, s[i]), n, Range(s), Without(s, s[i]), "single")
        /\ LL_DELETE2_VS2008(n, h, s[i]) = LL_DELETE2(n, h, s[i])
    BY SingleDeleteAt
  <2> QED
    BY <2>1, <2>2
<1>3. CASE e \notin Range(s)
  <2>1. "single" \in Kinds \ {"circular"}
    BY DEF Kinds
  <2>2. Walked(n, h, e) = s[L]
    BY <1>3, <2>1, WalkedAll
  <2>3. n.next[s[L]] = NULL /\ h # e
    <3>1. ~(L < L)
      BY <1>1
    <3> QED
      BY <1>1, <1>3, <3>1 DEF EndOf
  <2>4. LL_DELETE2(n, h, e) = Result(n, h) /\ LL_DELETE2_VS2008(n, h, e) = Result(n, h)
    BY <2>2, <2>3 DEF LL_DELETE2, LL_DELETE2_VS2008
  <2>5. Without(s, e) = s
    BY <1>3 DEF Without
  <2>6. SameOutside(n, n, Range(s))
    BY DEF SameOutside
  <2>7. Makes(Result(n, h), n, Range(s), s, "single")
    BY <2>6 DEF Makes, Result
  <2> QED
    BY <2>4, <2>5, <2>7
<1> QED
  BY <1>2, <1>3

-----------------------------------------------------------------------------
(* LL_REPLACE_ELEM puts a node in place of one of the list, LL_PREPEND_ELEM before it. *)
LEMMA SingleReplace ==
  ASSUME NEW n \in Pointers, NEW h, NEW s, IsList(n, h, s, "single"), NEW i \in 1 .. Len(s),
         NEW e \in Elem, e \notin Range(s)
  PROVE  Makes(LL_REPLACE_ELEM(n, h, s[i], e), n, Range(s) \cup {e}, InsteadOf(s, s[i], e), "single")
<1> DEFINE L == Len(s)
           t == InsteadOf(s, s[i], e)
           n1 == SetNext(n, e, n.next[s[i]])
<1>1. /\ Distinct(s) /\ L \in Nat /\ (s = <<>> <=> L = 0)
      /\ (s # <<>> => h = s[1] /\ 1 \in 1 .. L /\ L \in 1 .. L)
      /\ \A j \in 1 .. L : s[j] \in Elem /\ s[j] # NULL /\ s[j] \in Range(s) /\ s[j] # e
      /\ \A j, k \in 1 .. L : s[j] = s[k] => j = k
  BY ListFacts
<1>2. Replacement(s, i, e, t)
  BY <1>1, InsteadIs
<1>3. n.next[s[i]] \in Link /\ e \in Link
  BY <1>1 DEF Pointers, Link
<1>4. /\ n1 \in Pointers /\ n1.prev = n.prev
      /\ \A x \in Elem : n1.next[x] = IF x = e THEN n.next[s[i]] ELSE n.next[x]
  BY <1>3, SetNextIs
<1>5. s # <<>> /\ h = s[1] /\ 1 \in 1 .. L
  <2>1. L # 0
    BY <1>1
  <2> QED
    BY <1>1, <2>1
<1>6. CASE i = 1
  <2>1. LL_REPLACE_ELEM(n, h, s[i], e) = Result(n1, e)
    BY <1>5, <1>6 DEF LL_REPLACE_ELEM
  <2> HIDE DEF n1, t
  <2>2. \A x \in Elem : n1.next[x] = IF x = e THEN n.next[s[i]]
                                     ELSE IF i > 1 /\ x = s[i - 1] THEN e ELSE n.next[x]
    BY <1>4, <1>6
  <2>3. Makes(Result(n1, t[1]), n, Range(s) \cup {e}, t, "single")
    BY <1>2, <1>4, <2>2, SingleReplacement
  <2>4. t[1] = e
    BY <1>2, <1>6 DEF Replacement
  <2> QED
    BY <2>1, <2>3, <2>4 DEF t
<1>7. CASE i # 1
  <2>1. i \in 2 .. L /\ i > 1
    BY <1>1, <1>7
  <2>2. IsList(n1, h, s, "single")
    <3>1. SameOutside(n, n1, {e})
      BY <1>4 DEF SameOutside
    <3>2. Range(s) \cap {e} = {}
      OBVIOUS
    <3> HIDE DEF n1
    <3> QED
      BY <3>1, <3>2, ListFrame
  <2> DEFINE n2 == SetNext(n1, s[i - 1], e)
  <2>3. Walked(n1, h, s[i]) = s[i - 1] /\ i - 1 \in 1 .. L /\ n1.next[s[i - 1]] = s[i]
    <3> HIDE DEF n1
    <3> QED
      BY <2>1, <2>2, WalkedBefore
  <2>4. h # s[i] /\ n1.next[s[i - 1]] # NULL /\ s[i - 1] # e
    BY <1>1, <1>5, <1>7, <2>3
  <2>5. LL_REPLACE_ELEM(n, h, s[i], e) = Result(n2, h)
    BY <2>3, <2>4 DEF LL_REPLACE_ELEM
  <2>10. s[i - 1] \in Elem
    BY <1>1, <2>3
  <2> HIDE DEF n1, t
  <2>6. /\ n2 \in Pointers /\ n2.prev = n1.prev
        /\ \A x \in Elem : n2.next[x] = IF x = s[i - 1] THEN e ELSE n1.next[x]
    <3>1. n1 \in Pointers /\ e \in Link
      BY <1>3, <1>4
    <3> QED
      BY <2>10, <3>1, SetNextIs
  <2> HIDE DEF n2
  <2>7. /\ n2.prev = n.prev
        /\ \A x \in Elem : n2.next[x] = IF x = e THEN n.next[s[i]]
                                     ELSE IF i > 1 /\ x = s[i - 1] THEN e ELSE n.next[x]
    BY <1>4, <2>1, <2>4, <2>6
  <2>8. Makes(Result(n2, t[1]), n, Range(s) \cup {e}, t, "single")
    BY <1>2, <2>6, <2>7, SingleReplacement
  <2>9. t[1] = s[1]
    BY <1>2, <1>5, <1>7 DEF Replacement
  <2> QED
    BY <1>5, <2>5, <2>8, <2>9 DEF t
<1> QED
  BY <1>6, <1>7

\* LL_PREPEND_ELEM puts the node before the one it names.
LEMMA SinglePrependElem ==
  ASSUME NEW n \in Pointers, NEW h, NEW s, IsList(n, h, s, "single"), NEW i \in 1 .. Len(s),
         NEW e \in Elem, e \notin Range(s)
  PROVE  Makes(LL_PREPEND_ELEM(n, h, s[i], e), n, Range(s) \cup {e}, InsertBefore(s, s[i], e), "single")
<1> DEFINE L == Len(s)
           t == InsertBefore(s, s[i], e)
           n1 == SetNext(n, e, s[i])
<1>1. /\ Distinct(s) /\ L \in Nat /\ (s = <<>> <=> L = 0)
      /\ (s # <<>> => h = s[1] /\ 1 \in 1 .. L /\ L \in 1 .. L)
      /\ \A j \in 1 .. L : s[j] \in Elem /\ s[j] # NULL /\ s[j] \in Range(s) /\ s[j] # e
      /\ \A j, k \in 1 .. L : s[j] = s[k] => j = k
  BY ListFacts
<1>2. Insertion(s, i, e, t)
  BY <1>1, InsteadIs
<1>3. s[i] \in Link /\ e \in Link
  BY <1>1 DEF Link
<1>4. /\ n1 \in Pointers /\ n1.prev = n.prev
      /\ \A x \in Elem : n1.next[x] = IF x = e THEN s[i] ELSE n.next[x]
  BY <1>3, SetNextIs
<1>5. s # <<>> /\ h = s[1] /\ 1 \in 1 .. L /\ i \in 1 .. L + 1 /\ i <= L
  <2>1. L # 0 /\ i \in 1 .. L + 1 /\ i <= L
    BY <1>1
  <2> QED
    BY <1>1, <2>1
<1>6. CASE i = 1
  <2>1. LL_PREPEND_ELEM(n, h, s[i], e) = Result(n1, e)
    BY <1>5, <1>6 DEF LL_PREPEND_ELEM
  <2> HIDE DEF n1, t
  <2>2. \A x \in Elem : n1.next[x] = IF x = e THEN (IF i <= L THEN s[i] ELSE NULL)
                                     ELSE IF i > 1 /\ x = s[i - 1] THEN e ELSE n.next[x]
    BY <1>4, <1>5, <1>6
  <2>3. Makes(Result(n1, t[1]), n, Range(s) \cup {e}, t, "single")
    BY <1>2, <1>4, <1>5, <2>2, SingleInsertion
  <2>4. t[1] = e
    BY <1>2, <1>6 DEF Insertion
  <2> QED
    BY <2>1, <2>3, <2>4 DEF t
<1>7. CASE i # 1
  <2>1. i \in 2 .. L /\ i > 1
    BY <1>1, <1>7
  <2>2. IsList(n1, h, s, "single")
    <3>1. SameOutside(n, n1, {e})
      BY <1>4 DEF SameOutside
    <3>2. Range(s) \cap {e} = {}
      OBVIOUS
    <3> HIDE DEF n1
    <3> QED
      BY <3>1, <3>2, ListFrame
  <2> DEFINE n2 == SetNext(n1, s[i - 1], e)
  <2>3. Walked(n1, h, s[i]) = s[i - 1] /\ i - 1 \in 1 .. L /\ n1.next[s[i - 1]] = s[i]
    <3> HIDE DEF n1
    <3> QED
      BY <2>1, <2>2, WalkedBefore
  <2>4. h # s[i] /\ n1.next[s[i - 1]] # NULL /\ s[i - 1] # e
    BY <1>1, <1>5, <1>7, <2>3
  <2>5. LL_PREPEND_ELEM(n, h, s[i], e) = Result(n2, h)
    BY <2>3, <2>4 DEF LL_PREPEND_ELEM
  <2>10. s[i - 1] \in Elem
    BY <1>1, <2>3
  <2> HIDE DEF n1, t
  <2>6. /\ n2 \in Pointers /\ n2.prev = n1.prev
        /\ \A x \in Elem : n2.next[x] = IF x = s[i - 1] THEN e ELSE n1.next[x]
    <3>1. n1 \in Pointers /\ e \in Link
      BY <1>3, <1>4
    <3> QED
      BY <2>10, <3>1, SetNextIs
  <2> HIDE DEF n2
  <2>7. /\ n2.prev = n.prev
        /\ \A x \in Elem : n2.next[x] = IF x = e THEN (IF i <= L THEN s[i] ELSE NULL)
                                     ELSE IF i > 1 /\ x = s[i - 1] THEN e ELSE n.next[x]
    BY <1>4, <1>5, <2>1, <2>4, <2>6
  <2>8. Makes(Result(n2, t[1]), n, Range(s) \cup {e}, t, "single")
    BY <1>2, <1>5, <2>6, <2>7, SingleInsertion
  <2>9. t[1] = s[1]
    BY <1>2, <1>5, <2>1 DEF Insertion
  <2> QED
    BY <1>5, <2>5, <2>8, <2>9 DEF t
<1> QED
  BY <1>6, <1>7

(* The first macro that walks with add->next sets it to the nodes in turn. *)
LEMMA SetNextTwice ==
  ASSUME NEW n \in Pointers, NEW e \in Elem, NEW a \in Link, NEW b \in Link
  PROVE  SetNext(SetNext(n, e, a), e, b) = SetNext(n, e, b)
<1>1. SetNext(n, e, a) = [n EXCEPT !.next = [n.next EXCEPT ![e] = a]]
  BY DEF SetNext, Pointers
<1>2. SetNext(n, e, b) = [n EXCEPT !.next = [n.next EXCEPT ![e] = b]]
  BY DEF SetNext, Pointers
<1>3. SetNext(SetNext(n, e, a), e, b) = [[n EXCEPT !.next = [n.next EXCEPT ![e] = a]] EXCEPT !.next[e] = b]
  BY <1>1 DEF SetNext
<1>4. [[n EXCEPT !.next = [n.next EXCEPT ![e] = a]] EXCEPT !.next[e] = b]
      = [n EXCEPT !.next = [[n.next EXCEPT ![e] = a] EXCEPT ![e] = b]]
  BY DEF Pointers
<1>5. [[n.next EXCEPT ![e] = a] EXCEPT ![e] = b] = [n.next EXCEPT ![e] = b]
  BY DEF Pointers
<1> QED
  BY <1>2, <1>3, <1>4, <1>5

\* The variant for old compilers appends in the same way.
LEMMA SingleAppendVS2008 ==
  ASSUME NEW n \in Pointers, NEW h, NEW s, IsList(n, h, s, "single"), NEW e \in Elem, e \notin Range(s)
  PROVE  LL_APPEND2_VS2008(n, h, e) = LL_APPEND2(n, h, e)
<1> DEFINE L == Len(s)
           N == Cardinality(Elem)
           turn == [m \in Pointers |-> IF m.next[m.next[e]] = NULL THEN m
                                       ELSE SetNext(m, e, m.next[m.next[e]])]
           n0 == SetNext(n, e, NULL)
           at == [k \in 0 .. N |-> IF 1 + k < L THEN 1 + k ELSE L]
           f == [k \in 0 .. N |-> SetNext(n, e, s[at[k]])]
<1>1. /\ Distinct(s) /\ L \in Nat /\ (h = NULL <=> s = <<>>) /\ (s = <<>> <=> L = 0)
      /\ (s # <<>> => h = s[1] /\ 1 \in 1 .. L /\ L \in 1 .. L)
      /\ \A j \in 1 .. L : s[j] \in Elem /\ s[j] # NULL /\ s[j] \in Range(s) /\ s[j] # e
      /\ \A i \in 1 .. L : n.next[s[i]] = IF i < L THEN s[i + 1] ELSE NULL
  <2>1. \A i \in 1 .. L : n.next[s[i]] = IF i < L THEN s[i + 1] ELSE EndOf(s, "single")
    BY ListFacts
  <2>2. EndOf(s, "single") = NULL
    BY DEF EndOf
  <2> QED
    BY <2>1, <2>2, ListFacts
<1>2. N \in Nat /\ L <= N
  BY DistinctLength, <1>1
<1>3. CASE s = <<>>
  BY <1>1, <1>3 DEF LL_APPEND2_VS2008, LL_APPEND2
<1>4. CASE s # <<>>
  <2>1. L > 0 /\ L \in 1 .. L /\ h = s[1] /\ h # NULL
    BY <1>1, <1>4
  <2>2. /\ \A k \in 0 .. N : at[k] \in 1 .. L
        /\ \A k \in 1 .. N : k - 1 \in 0 .. N
                             /\ at[k] = IF at[k - 1] < L THEN at[k - 1] + 1 ELSE at[k - 1]
        /\ at[0] = 1 /\ at[N] = L
    BY <1>2, <2>1
  <2>3. \A a \in 1 .. L : /\ SetNext(n, e, s[a]) \in Pointers /\ SetNext(n, e, s[a]).next[e] = s[a]
                          /\ SetNext(n, e, s[a]).next[s[a]] = n.next[s[a]]
    <3> SUFFICES ASSUME NEW a \in 1 .. L
                 PROVE  /\ SetNext(n, e, s[a]) \in Pointers /\ SetNext(n, e, s[a]).next[e] = s[a]
                        /\ SetNext(n, e, s[a]).next[s[a]] = n.next[s[a]]
      OBVIOUS
    <3>1. s[a] \in Link /\ s[a] \in Elem /\ s[a] # e
      BY <1>1 DEF Link
    <3>2. /\ SetNext(n, e, s[a]) \in Pointers
          /\ \A x \in Elem : SetNext(n, e, s[a]).next[x] = IF x = e THEN s[a] ELSE n.next[x]
      BY <3>1, SetNextIs
    <3> QED
      BY <3>1, <3>2
  <2>4. \A a \in 1 .. L : turn[SetNext(n, e, s[a])] = IF a < L THEN SetNext(n, e, s[a + 1]) ELSE SetNext(n, e, s[a])
    <3> SUFFICES ASSUME NEW a \in 1 .. L
                 PROVE  turn[SetNext(n, e, s[a])] = IF a < L THEN SetNext(n, e, s[a + 1]) ELSE SetNext(n, e, s[a])
      OBVIOUS
    <3> DEFINE m == SetNext(n, e, s[a])
    <3>1. m \in Pointers /\ m.next[e] = s[a] /\ m.next[s[a]] = IF a < L THEN s[a + 1] ELSE NULL
      BY <1>1, <2>3
    <3>2. a < L => s[a] \in Link /\ s[a + 1] \in Link /\ s[a + 1] # NULL
      <4>1. a < L => a + 1 \in 1 .. L
        BY <1>1
      <4> QED
        BY <1>1, <4>1 DEF Link
    <3>3. a < L => SetNext(m, e, s[a + 1]) = SetNext(n, e, s[a + 1])
      BY <3>2, SetNextTwice
    <3> HIDE DEF m
    <3>4. turn[m] = IF a < L THEN SetNext(n, e, s[a + 1]) ELSE m
      BY <3>1, <3>2, <3>3
    <3> QED
      BY <3>4 DEF m
  <2> HIDE DEF turn, at
  <2>5. f[0] = SetNext(n, e, h) /\ f[N] = SetNext(n, e, s[L])
    BY <1>2, <2>1, <2>2
  <2>6. \A k \in 1 .. N : f[k] = turn[f[k - 1]]
    <3> SUFFICES ASSUME NEW k \in 1 .. N
                 PROVE  f[k] = turn[f[k - 1]]
      OBVIOUS
    <3>1. k \in 0 .. N /\ k - 1 \in 0 .. N /\ at[k - 1] \in 1 .. L /\ at[k] = IF at[k - 1] < L THEN at[k - 1] + 1 ELSE at[k - 1]
      BY <1>2, <2>2
    <3>2. f[k] = SetNext(n, e, s[at[k]]) /\ f[k - 1] = SetNext(n, e, s[at[k - 1]])
      BY <3>1
    <3>3. turn[SetNext(n, e, s[at[k - 1]])]
          = IF at[k - 1] < L THEN SetNext(n, e, s[at[k - 1] + 1]) ELSE SetNext(n, e, s[at[k - 1]])
      BY <2>4, <3>1
    <3> QED
      BY <3>1, <3>2, <3>3
  <2> HIDE DEF f, N
  <2>7. Repeat(turn, SetNext(n, e, h), N) = SetNext(n, e, s[L])
    BY <1>2, <2>5, <2>6, RepeatIs
  <2> DEFINE n1 == SetNext(n, e, s[L])
             n2 == SetNext(n0, s[L], e)
  <2>8. n1.next[e] = s[L]
    BY <2>1, <2>3
  <2>9. LL_APPEND2_VS2008(n, h, e) = Result(SetNext(SetNext(n1, s[L], e), e, NULL), h)
    BY <2>1, <2>7, <2>8 DEF LL_APPEND2_VS2008, turn, N
  <2>10. LL_APPEND2(n, h, e) = Result(n2, h)
    <3>1. /\ n0 \in Pointers
          /\ \A x \in Elem : n0.next[x] = IF x = e THEN NULL ELSE n.next[x]
          /\ n0.prev = n.prev
      BY SetNextIs DEF Link
    <3>2. SameOutside(n, n0, {e})
      BY <3>1 DEF SameOutside
    <3>3. Range(s) \cap {e} = {} /\ NULL \notin Range(s) /\ "single" \in Kinds \ {"circular"}
      <4>1. Range(s) \subseteq Elem
        BY ListFacts
      <4> QED
        BY <4>1, MergeSortAssumption DEF Kinds
    <3>4. IsList(n0, h, s, "single")
      <4> HIDE DEF n0
      <4> QED
        BY <3>2, <3>3, ListFrame
    <3>5. Walked(n0, h, NULL) = s[L]
      <4> HIDE DEF n0
      <4> QED
        BY <1>4, <3>3, <3>4, WalkedAll
    <3> QED
      BY <2>1, <3>5 DEF LL_APPEND2
  <2>11. SetNext(SetNext(n1, s[L], e), e, NULL) = n2
    <3>1. n.next \in [Elem -> Link] /\ s[L] \in Elem /\ s[L] # e
      BY <1>1, <2>1 DEF Pointers
    <3>2. /\ n1 = [n EXCEPT !.next = [n.next EXCEPT ![e] = s[L]]]
          /\ n0 = [n EXCEPT !.next = [n.next EXCEPT ![e] = NULL]]
      BY <3>1 DEF SetNext, Pointers
    <3>3. SetNext(SetNext(n1, s[L], e), e, NULL)
          = [n EXCEPT !.next = [[[n.next EXCEPT ![e] = s[L]] EXCEPT ![s[L]] = e] EXCEPT ![e] = NULL]]
      BY <3>2 DEF SetNext, Pointers
    <3>4. n2 = [n EXCEPT !.next = [[n.next EXCEPT ![e] = NULL] EXCEPT ![s[L]] = e]]
      BY <3>2 DEF SetNext, Pointers
    <3>5. [[[n.next EXCEPT ![e] = s[L]] EXCEPT ![s[L]] = e] EXCEPT ![e] = NULL]
          = [[n.next EXCEPT ![e] = NULL] EXCEPT ![s[L]] = e]
      BY <3>1
    <3> QED
      BY <3>3, <3>4, <3>5
  <2> QED
    BY <2>9, <2>10, <2>11
<1> QED
  BY <1>3, <1>4

-----------------------------------------------------------------------------
(* One list after another. *)
Joined(s1, s2, t) ==
  /\ Distinct(t) /\ Len(t) = Len(s1) + Len(s2)
  /\ \A i \in 1 .. Len(s1) : t[i] = s1[i]
  /\ \A i \in 1 .. Len(s2) : t[Len(s1) + i] = s2[i]
  /\ Range(t) = Range(s1) \cup Range(s2)

\* Two sequences of distinct nodes with none in common, joined.
LEMMA JoinIs ==
  ASSUME NEW s1, Distinct(s1), NEW s2, Distinct(s2), Range(s1) \cap Range(s2) = {}
  PROVE  Joined(s1, s2, s1 \o s2)
<1> DEFINE a == Len(s1)
           b == Len(s2)
           t == s1 \o s2
<1>1. /\ s1 \in Seq(Elem) /\ s2 \in Seq(Elem) /\ a \in Nat /\ b \in Nat
      /\ Range(s1) = {s1[i] : i \in 1 .. a} /\ Range(s2) = {s2[i] : i \in 1 .. b}
  BY LenProperties, DistinctRange DEF Distinct
<1>2. /\ t \in Seq(Elem) /\ Len(t) = a + b
      /\ \A i \in 1 .. a + b : t[i] = IF i <= a THEN s1[i] ELSE s2[i - a]
  BY <1>1, ConcatProperties
<1> HIDE DEF t
<1>3. \A i \in 1 .. a : t[i] = s1[i] /\ i \in 1 .. a + b
  BY <1>1, <1>2
<1>4. \A i \in 1 .. b : t[a + i] = s2[i] /\ a + i \in 1 .. a + b
  <2> SUFFICES ASSUME NEW i \in 1 .. b
               PROVE  t[a + i] = s2[i] /\ a + i \in 1 .. a + b
    OBVIOUS
  <2>1. a + i \in 1 .. a + b /\ ~(a + i <= a) /\ (a + i) - a = i
    BY <1>1
  <2> QED
    BY <1>2, <2>1
<1>5. \A i \in 1 .. a + b : i \in 1 .. a \/ (i - a \in 1 .. b /\ i = a + (i - a) /\ a < i)
  BY <1>1
<1>6. Range(t) = {t[i] : i \in 1 .. a + b}
  BY <1>2, RangeEquality
<1>7. Range(t) = Range(s1) \cup Range(s2)
  <2>1. ASSUME NEW i \in 1 .. a + b PROVE t[i] \in Range(s1) \cup Range(s2)
    <3>1. CASE i \in 1 .. a
      BY <1>1, <1>3, <3>1
    <3>2. CASE i - a \in 1 .. b /\ i = a + (i - a)
      <4>1. t[a + (i - a)] = s2[i - a]
        BY <1>4, <3>2
      <4> QED
        BY <1>1, <3>2, <4>1
    <3> QED
      BY <1>5, <3>1, <3>2
  <2>2. ASSUME NEW i \in 1 .. a PROVE s1[i] \in Range(t)
    BY <1>3, <1>6
  <2>3. ASSUME NEW i \in 1 .. b PROVE s2[i] \in Range(t)
    BY <1>4, <1>6
  <2> QED
    BY <1>1, <1>6, <2>1, <2>2, <2>3
<1>8. Distinct(t)
  <2> SUFFICES ASSUME NEW i \in 1 .. a + b, NEW j \in 1 .. a + b, t[i] = t[j], i < j
               PROVE  FALSE
    BY <1>1, <1>2 DEF Distinct
  <2>1. CASE j \in 1 .. a
    <3>1. i \in 1 .. a /\ i # j
      BY <1>1, <2>1
    <3>2. s1[i] = s1[j]
      BY <1>3, <2>1, <3>1
    <3> QED
      BY <2>1, <3>1, <3>2 DEF Distinct
  <2>2. CASE j - a \in 1 .. b /\ j = a + (j - a) /\ a < j
    <3>1. t[j] = s2[j - a]
      <4>1. t[a + (j - a)] = s2[j - a]
        BY <1>4, <2>2
      <4> QED
        BY <2>2, <4>1
    <3>2. CASE i \in 1 .. a
      <4>1. s1[i] = s2[j - a] /\ s1[i] \in Range(s1) /\ s2[j - a] \in Range(s2)
        BY <1>1, <1>3, <2>2, <3>1, <3>2
      <4> QED
        BY <4>1
    <3>3. CASE i - a \in 1 .. b /\ i = a + (i - a) /\ a < i
      <4>1. t[a + (i - a)] = s2[i - a]
        BY <1>4, <3>3
      <4>2. s2[i - a] = s2[j - a] /\ i - a # j - a
        BY <1>1, <3>1, <3>3, <4>1
      <4> QED
        BY <2>2, <3>3, <4>2 DEF Distinct
    <3> QED
      BY <1>5, <3>2, <3>3
  <2> QED
    BY <1>5, <2>1, <2>2
<1>9. Joined(s1, s2, t)
  BY <1>2, <1>3, <1>4, <1>7, <1>8 DEF Joined
<1> QED
  BY <1>9 DEF t

JoinedNext(n1, n, s1, h2) == \A x \in Elem : n1.next[x] = IF x = s1[Len(s1)] THEN h2 ELSE n.next[x]
JoinedPrev(n1, n, s1, s2) ==
  \A x \in Elem : n1.prev[x] = IF x = s1[1] THEN s2[Len(s2)] ELSE IF x = s2[1] THEN s1[Len(s1)] ELSE n.prev[x]

\* Pointers that join two lists make a list of the joined sequence.
LEMMA JoinLinks ==
  ASSUME NEW kind \in {"single", "double"}, NEW n, NEW h1, NEW s1, IsList(n, h1, s1, kind), s1 # <<>>,
         NEW h2, NEW s2, IsList(n, h2, s2, kind), Range(s1) \cap Range(s2) = {},
         NEW n1, JoinedNext(n1, n, s1, h2), kind = "double" => s2 # <<>> /\ JoinedPrev(n1, n, s1, s2)
  PROVE  IsList(n1, h1, s1 \o s2, kind)
<1> DEFINE a == Len(s1)
           b == Len(s2)
           t == s1 \o s2
<1>1. /\ Distinct(s1) /\ a \in Nat /\ (s1 # <<>> => h1 = s1[1] /\ 1 \in 1 .. a /\ a \in 1 .. a)
      /\ \A i \in 1 .. a : s1[i] \in Elem /\ s1[i] \in Range(s1)
      /\ \A i, j \in 1 .. a : s1[i] = s1[j] => i = j
      /\ \A i \in 1 .. a : n.next[s1[i]] = IF i < a THEN s1[i + 1] ELSE EndOf(s1, kind)
  BY ListFacts
<1>2. /\ Distinct(s2) /\ b \in Nat /\ (s2 = <<>> <=> b = 0) /\ (h2 = NULL <=> s2 = <<>>)
      /\ (s2 # <<>> => h2 = s2[1] /\ 1 \in 1 .. b /\ b \in 1 .. b)
      /\ \A i \in 1 .. b : s2[i] \in Elem /\ s2[i] \in Range(s2)
      /\ \A i, j \in 1 .. b : s2[i] = s2[j] => i = j
      /\ \A i \in 1 .. b : n.next[s2[i]] = IF i < b THEN s2[i + 1] ELSE EndOf(s2, kind)
  BY ListFacts
<1>3. EndOf(s1, kind) = NULL /\ EndOf(s2, kind) = NULL /\ EndOf(t, kind) = NULL
  BY DEF EndOf
<1>4. Joined(s1, s2, t)
  BY <1>1, <1>2, JoinIs
<1> HIDE DEF t
<1>5. /\ Distinct(t) /\ Len(t) = a + b /\ \A i \in 1 .. a : t[i] = s1[i]
      /\ \A i \in 1 .. b : t[a + i] = s2[i]
  BY <1>4 DEF Joined
<1>6. \A i \in 1 .. a, j \in 1 .. b : s1[i] # s2[j]
  BY <1>1, <1>2
<1>7. \A i \in 1 .. a + b : i \in 1 .. a \/ \E j \in 1 .. b : i = a + j
  <2> SUFFICES ASSUME NEW i \in 1 .. a + b, i \notin 1 .. a
               PROVE  \E j \in 1 .. b : i = a + j
    OBVIOUS
  <2>1. i - a \in 1 .. b /\ i = a + (i - a)
    BY <1>1, <1>2
  <2> QED
    BY <2>1
<1>8. ASSUME NEW i \in 1 .. a + b
      PROVE  n1.next[t[i]] = IF i < a + b THEN t[i + 1] ELSE NULL
  <2>1. CASE i \in 1 .. a
    <3>1. n1.next[t[i]] = IF i = a THEN h2 ELSE n.next[s1[i]]
      BY <1>1, <1>5, <2>1 DEF JoinedNext
    <3>2. CASE i = a
      <4>1. b # 0 => t[a + 1] = s2[1] /\ h2 = s2[1] /\ i < a + b
        BY <1>1, <1>2, <1>5, <3>2
      <4>2. b = 0 => h2 = NULL /\ ~(i < a + b)
        BY <1>1, <1>2, <3>2
      <4> QED
        BY <3>1, <3>2, <4>1, <4>2
    <3>3. CASE i # a
      <4>1. i < a /\ i < a + b /\ i + 1 \in 1 .. a
        BY <1>1, <1>2, <2>1, <3>3
      <4>2. t[i + 1] = s1[i + 1] /\ n.next[s1[i]] = s1[i + 1]
        BY <1>1, <1>5, <2>1, <4>1
      <4> QED
        BY <3>1, <3>3, <4>1, <4>2
    <3> QED
      BY <3>2, <3>3
  <2>2. ASSUME NEW j \in 1 .. b, i = a + j PROVE n1.next[t[i]] = IF i < a + b THEN t[i + 1] ELSE NULL
    <3>1. t[i] = s2[j] /\ s2[j] # s1[a]
      BY <1>1, <1>5, <1>6, <2>2
    <3>2. n1.next[t[i]] = IF j < b THEN s2[j + 1] ELSE NULL
      BY <1>2, <1>3, <3>1 DEF JoinedNext
    <3>3. (j < b <=> i < a + b) /\ i + 1 = a + (j + 1) /\ (j < b => j + 1 \in 1 .. b)
      BY <1>1, <1>2, <2>2
    <3>4. j < b => t[i + 1] = s2[j + 1]
      BY <1>5, <3>3
    <3> QED
      BY <3>2, <3>3, <3>4
  <2> QED
    BY <1>7, <2>1, <2>2
<1>9. ASSUME kind = "double", NEW i \in 1 .. a + b
      PROVE  n1.prev[t[i]] = IF i = 1 THEN t[a + b] ELSE t[i - 1]
  <2>0. /\ s2 # <<>> /\ b \in 1 .. b /\ 1 \in 1 .. b /\ t[a + b] = s2[b]
        /\ \A x \in Elem : n1.prev[x] = IF x = s1[1] THEN s2[b] ELSE IF x = s2[1] THEN s1[a] ELSE n.prev[x]
        /\ \A k \in 1 .. a : n.prev[s1[k]] = IF k = 1 THEN PrevOfHead(s1, kind) ELSE s1[k - 1]
        /\ \A k \in 1 .. b : n.prev[s2[k]] = IF k = 1 THEN PrevOfHead(s2, kind) ELSE s2[k - 1]
    <3>1. s2 # <<>> /\ b \in 1 .. b /\ 1 \in 1 .. b
      BY <1>2, <1>9
    <3>2. t[a + b] = s2[b]
      BY <1>5, <3>1
    <3> QED
      BY <1>9, <3>1, <3>2 DEF JoinedPrev, IsList
  <2>1. CASE i \in 1 .. a
    <3>1. t[i] = s1[i] /\ s1[i] # s2[1] /\ s1[i] \in Elem /\ (s1[i] = s1[1] <=> i = 1)
      BY <1>1, <1>5, <1>6, <2>0, <2>1
    <3>2. CASE i = 1
      BY <2>0, <3>1, <3>2
    <3>3. CASE i # 1
      <4>1. i - 1 \in 1 .. a
        BY <1>1, <2>1, <3>3
      <4>2. t[i - 1] = s1[i - 1]
        BY <1>5, <4>1
      <4> QED
        BY <2>0, <2>1, <3>1, <3>3, <4>2
    <3> QED
      BY <3>2, <3>3
  <2>2. ASSUME NEW j \in 1 .. b, i = a + j PROVE n1.prev[t[i]] = IF i = 1 THEN t[a + b] ELSE t[i - 1]
    <3>1. t[i] = s2[j] /\ s2[j] # s1[1] /\ s2[j] \in Elem /\ (s2[j] = s2[1] <=> j = 1)
      BY <1>1, <1>2, <1>5, <1>6, <2>0, <2>2
    <3>2. i # 1
      BY <1>1, <1>2, <2>2
    <3>3. CASE j = 1
      <4>1. i - 1 = a /\ a \in 1 .. a
        BY <1>1, <2>2, <3>3
      <4> QED
        BY <1>5, <2>0, <3>1, <3>2, <3>3, <4>1
    <3>4. CASE j # 1
      <4>1. j - 1 \in 1 .. b /\ i - 1 = a + (j - 1)
        BY <1>1, <1>2, <2>2, <3>4
      <4>2. t[i - 1] = s2[j - 1]
        BY <1>5, <4>1
      <4> QED
        BY <2>0, <3>1, <3>2, <3>4, <4>2
    <3> QED
      BY <3>3, <3>4
  <2> QED
    BY <1>7, <2>1, <2>2
<1>10. t # <<>> /\ h1 = t[1]
  <2>1. a + b > 0
    BY <1>1, <1>2
  <2>2. t # <<>>
    BY <1>5, <2>1, EmptySeq
  <2> QED
    BY <1>1, <1>5, <2>2
<1>11. kind = "double" \/ kind = "single"
  OBVIOUS
<1>12. PrevOfHead(t, "double") = t[a + b]
  BY <1>5 DEF PrevOfHead
<1>13. IsList(n1, h1, t, kind)
  BY <1>3, <1>5, <1>8, <1>9, <1>10, <1>11, <1>12 DEF IsList, Follows
<1> QED
  BY <1>13 DEF t

-----------------------------------------------------------------------------
(* A sort makes the sorted list of its kind. *)
LEMMA SortMakes ==
  ASSUME NEW n \in Pointers, NEW h, NEW s, s # <<>>, NEW kind \in Kinds, IsList(n, h, s, kind)
  PROVE  Makes(SortFrom(n, h, kind), n, Range(s), Sorted(s), kind) /\ Range(Sorted(s)) = Range(s)
<1>1. LET r == SortFrom(n, h, kind)
      IN /\ r.n \in Pointers
         /\ IsList(r.n, r.head, Sorted(s), kind)
         /\ SameOutside(n, r.n, Range(s))
         /\ Range(Sorted(s)) = Range(s)
  BY MergeSortCorrect
<1> QED
  BY <1>1 DEF Makes

(* LL_CONCAT2 and DL_CONCAT2 put the second list after the first. *)
LEMMA SingleConcatMakes ==
  ASSUME NEW n \in Pointers, NEW h1, NEW s1, IsList(n, h1, s1, "single"),
         NEW h2, NEW s2, IsList(n, h2, s2, "single"), Range(s1) \cap Range(s2) = {}
  PROVE  Makes(LL_CONCAT2(n, h1, h2), n, Range(s1) \cup Range(s2), s1 \o s2, "single")
<1> DEFINE a == Len(s1)
           n1 == SetNext(n, s1[a], h2)
<1>1. /\ s1 \in Seq(Elem) /\ a \in Nat /\ (h1 = NULL <=> s1 = <<>>)
      /\ (s1 # <<>> => h1 = s1[1] /\ 1 \in 1 .. a /\ a \in 1 .. a) /\ Range(s1) \subseteq Elem
      /\ \A i \in 1 .. a : s1[i] \in Elem /\ s1[i] \in Range(s1)
  BY ListFacts
<1>2. s2 \in Seq(Elem) /\ h2 \in Link
  BY ListFacts
<1>3. CASE s1 = <<>>
  <2>1. LL_CONCAT2(n, h1, h2) = Result(n, h2)
    BY <1>1, <1>3 DEF LL_CONCAT2
  <2>2. s1 \o s2 = s2
    BY <1>2, <1>3, ConcatEmptySeq
  <2>3. SameOutside(n, n, Range(s1) \cup Range(s2))
    BY DEF SameOutside
  <2>4. Makes(Result(n, h2), n, Range(s1) \cup Range(s2), s2, "single")
    BY <2>3 DEF Makes, Result
  <2> QED
    BY <2>1, <2>2, <2>4
<1>4. CASE s1 # <<>>
  <2>1. NULL \notin Range(s1) /\ "single" \in Kinds \ {"circular"}
    BY <1>1, MergeSortAssumption DEF Kinds
  <2>2. Walked(n, h1, NULL) = s1[a]
    BY <1>4, <2>1, WalkedAll
  <2>3. LL_CONCAT2(n, h1, h2) = Result(n1, h1)
    BY <1>1, <1>4, <2>2 DEF LL_CONCAT2
  <2>4. s1[a] \in Elem /\ s1[a] \in Range(s1)
    BY <1>1, <1>4
  <2>5. /\ n1 \in Pointers /\ n1.prev = n.prev
        /\ \A x \in Elem : n1.next[x] = IF x = s1[a] THEN h2 ELSE n.next[x]
    BY <1>2, <2>4, SetNextIs
  <2> HIDE DEF n1
  <2>6. JoinedNext(n1, n, s1, h2)
    BY <2>5 DEF JoinedNext
  <2>7. IsList(n1, h1, s1 \o s2, "single")
    BY <1>4, <2>6, JoinLinks
  <2>8. SameOutside(n, n1, Range(s1) \cup Range(s2))
    BY <2>4, <2>5 DEF SameOutside
  <2>9. Makes(Result(n1, h1), n, Range(s1) \cup Range(s2), s1 \o s2, "single")
    BY <2>5, <2>7, <2>8 DEF Makes, Result
  <2> QED
    BY <2>3, <2>9
<1> QED
  BY <1>3, <1>4

\* The prev pointers of a list whose head points back to its tail.
LEMMA DoublePrevs ==
  ASSUME NEW n, NEW h, NEW s, NEW kind \in {"double", "circular"}, IsList(n, h, s, kind)
  PROVE  \A i \in 1 .. Len(s) : n.prev[s[i]] = IF i = 1 THEN s[Len(s)] ELSE s[i - 1]
<1>1. PrevOfHead(s, kind) = s[Len(s)] /\ kind # "single"
  BY DEF PrevOfHead
<1> QED
  BY <1>1 DEF IsList

\* DL_CONCAT joins the two lists.
LEMMA DoubleConcatMakes ==
  ASSUME NEW n \in Pointers, NEW h1, NEW s1, IsList(n, h1, s1, "double"),
         NEW h2, NEW s2, IsList(n, h2, s2, "double"), Range(s1) \cap Range(s2) = {}
  PROVE  Makes(DL_CONCAT2(n, h1, h2), n, Range(s1) \cup Range(s2), s1 \o s2, "double")
<1> DEFINE a == Len(s1)
           b == Len(s2)
           first1 == s1[1]
           last1 == s1[a]
           first2 == s2[1]
           last2 == s2[b]
           m1 == SetPrev(n, first2, last1)
           m2 == SetNext(m1, last1, first2)
           n1 == SetPrev(m2, first1, last2)
<1>1. /\ s1 \in Seq(Elem) /\ a \in Nat /\ (h1 = NULL <=> s1 = <<>>)
      /\ (s1 # <<>> => h1 = s1[1] /\ 1 \in 1 .. a /\ a \in 1 .. a)
      /\ \A i \in 1 .. a : s1[i] \in Elem /\ s1[i] \in Range(s1)
  BY ListFacts
<1>2. /\ s2 \in Seq(Elem) /\ b \in Nat /\ (h2 = NULL <=> s2 = <<>>)
      /\ (s2 # <<>> => h2 = s2[1] /\ 1 \in 1 .. b /\ b \in 1 .. b)
      /\ \A i \in 1 .. b : s2[i] \in Elem /\ s2[i] \in Range(s2)
  BY ListFacts
<1>3. SameOutside(n, n, Range(s1) \cup Range(s2))
  BY DEF SameOutside
<1>4. CASE s2 = <<>>
  <2>1. DL_CONCAT2(n, h1, h2) = Result(n, h1)
    BY <1>2, <1>4 DEF DL_CONCAT2
  <2>2. s1 \o s2 = s1
    BY <1>1, <1>4, ConcatEmptySeq
  <2>3. Makes(Result(n, h1), n, Range(s1) \cup Range(s2), s1, "double")
    BY <1>3 DEF Makes, Result
  <2> QED
    BY <2>1, <2>2, <2>3
<1>5. CASE s2 # <<>> /\ s1 = <<>>
  <2>1. DL_CONCAT2(n, h1, h2) = Result(n, h2)
    BY <1>1, <1>2, <1>5 DEF DL_CONCAT2
  <2>2. s1 \o s2 = s2
    BY <1>2, <1>5, ConcatEmptySeq
  <2>3. Makes(Result(n, h2), n, Range(s1) \cup Range(s2), s2, "double")
    BY <1>3 DEF Makes, Result
  <2> QED
    BY <2>1, <2>2, <2>3
<1>6. CASE s2 # <<>> /\ s1 # <<>>
  <2>1. /\ first1 \in Elem /\ last1 \in Elem /\ first2 \in Elem /\ last2 \in Elem
        /\ first1 \in Range(s1) /\ last1 \in Range(s1) /\ first2 \in Range(s2) /\ last2 \in Range(s2)
    BY <1>1, <1>2, <1>6
  <2>2. first1 \in Link /\ last1 \in Link /\ first2 \in Link /\ last2 \in Link
    BY <2>1 DEF Link
  <2>3. n.prev[h1] = last1 /\ n.prev[h2] = last2 /\ h1 = first1 /\ h2 = first2 /\ h1 # NULL /\ h2 # NULL
    BY <1>1, <1>2, <1>6, DoublePrevs
  <2>4. DL_CONCAT2(n, h1, h2) = Result(n1, h1)
    BY <2>3 DEF DL_CONCAT2
  <2> HIDE DEF first1, last1, first2, last2
  <2>5. /\ m1 \in Pointers /\ m1.next = n.next
        /\ \A x \in Elem : m1.prev[x] = IF x = first2 THEN last1 ELSE n.prev[x]
    BY <2>1, <2>2, SetPrevIs
  <2> HIDE DEF m1
  <2>6. /\ m2 \in Pointers /\ m2.prev = m1.prev
        /\ \A x \in Elem : m2.next[x] = IF x = last1 THEN first2 ELSE m1.next[x]
    <3>1. m1 \in Pointers
      BY <2>5
    <3> QED
      BY <2>1, <2>2, <3>1, SetNextIs
  <2> HIDE DEF m2
  <2>7. /\ n1 \in Pointers /\ n1.next = m2.next
        /\ \A x \in Elem : n1.prev[x] = IF x = first1 THEN last2 ELSE m2.prev[x]
    <3>1. m2 \in Pointers
      BY <2>6
    <3> QED
      BY <2>1, <2>2, <3>1, SetPrevIs
  <2> HIDE DEF n1
  <2>8. JoinedNext(n1, n, s1, h2)
    BY <2>3, <2>5, <2>6, <2>7 DEF JoinedNext, last1
  <2>9. JoinedPrev(n1, n, s1, s2)
    BY <2>5, <2>6, <2>7 DEF JoinedPrev, first1, last1, first2, last2
  <2>10. IsList(n1, h1, s1 \o s2, "double")
    BY <1>6, <2>8, <2>9, JoinLinks
  <2>11. SameOutside(n, n1, Range(s1) \cup Range(s2))
    BY <2>1, <2>5, <2>6, <2>7 DEF SameOutside
  <2>12. Makes(Result(n1, h1), n, Range(s1) \cup Range(s2), s1 \o s2, "double")
    BY <2>7, <2>10, <2>11 DEF Makes, Result
  <2> QED
    BY <2>4, <2>12
<1> QED
  BY <1>4, <1>5, <1>6

-----------------------------------------------------------------------------
(* A node put into a doubly linked list, from the pointers alone. *)
LEMMA DoubleInsertion ==
  ASSUME NEW n \in Pointers, NEW h, NEW s, IsList(n, h, s, "double"), NEW e \in Elem, e \notin Range(s),
         NEW p \in 1 .. Len(s) + 1, NEW t, Insertion(s, p, e, t), NEW n1 \in Pointers,
         \A x \in Elem : n1.next[x] = IF x = e THEN (IF p <= Len(s) THEN s[p] ELSE NULL)
                                      ELSE IF p > 1 /\ x = s[p - 1] THEN e ELSE n.next[x],
         \A x \in Elem : n1.prev[x] = IF x = e THEN (IF Len(s) = 0 THEN e ELSE IF p = 1 THEN s[Len(s)] ELSE s[p - 1])
                                      ELSE IF p <= Len(s) /\ x = s[p] THEN e
                                      ELSE IF p = Len(s) + 1 /\ Len(s) > 0 /\ x = s[1] THEN e ELSE n.prev[x]
  PROVE  Makes(Result(n1, t[1]), n, Range(s) \cup {e}, t, "double")
<1> DEFINE L == Len(s)
<1>1. /\ L \in Nat /\ \A i \in 1 .. L : s[i] \in Elem /\ s[i] \in Range(s) /\ s[i] # e
      /\ \A i, j \in 1 .. L : s[i] = s[j] => i = j
  BY ListFacts
<1>2. \A i \in 1 .. L : n.prev[s[i]] = IF i = 1 THEN s[L] ELSE s[i - 1]
  BY DoublePrevs
<1>3. /\ InsertedNext(n1, s, p, e, t, "double")
      /\ \A x \in Elem : x \notin Range(s) \cup {e} => n1.next[x] = n.next[x]
  BY InsertedNextBy
<1>4. t[L + 1] = IF p = L + 1 THEN e ELSE s[L]
  <2>1. t[p] = e /\ \A i \in 1 .. L : p <= i => t[i + 1] = s[i]
    BY DEF Insertion
  <2>2. p # L + 1 => L \in 1 .. L /\ p <= L
    BY <1>1
  <2> QED
    BY <2>1, <2>2
<1>5. n1.prev[e] = IF p = 1 THEN t[L + 1] ELSE s[p - 1]
  <2>1. L = 0 => p = 1 /\ p = L + 1
    BY <1>1
  <2>2. L # 0 /\ p = 1 => p # L + 1
    BY <1>1
  <2> QED
    BY <1>4, <2>1, <2>2
<1>6. ASSUME NEW i \in 1 .. L
      PROVE  n1.prev[s[i]] = IF i = p THEN e ELSE IF i = 1 THEN t[L + 1] ELSE s[i - 1]
  <2>1. n1.prev[s[i]] = IF p <= L /\ s[i] = s[p] THEN e
                        ELSE IF p = L + 1 /\ L > 0 /\ s[i] = s[1] THEN e ELSE n.prev[s[i]]
    BY <1>1
  <2>2. (p <= L /\ s[i] = s[p]) <=> i = p
    <3>1. p <= L => p \in 1 .. L
      BY <1>1
    <3>2. i = p => p <= L
      BY <1>1
    <3> QED
      BY <1>1, <3>1, <3>2
  <2>3. L > 0 /\ (s[i] = s[1] <=> i = 1)
    <3>1. L > 0 /\ 1 \in 1 .. L
      BY <1>1
    <3> QED
      BY <1>1, <3>1
  <2> QED
    BY <1>2, <1>4, <2>1, <2>2, <2>3
<1>7. InsertedPrev(n1, s, p, e, t)
  BY <1>5, <1>6 DEF InsertedPrev
<1>8. "double" \in Kinds \ {"app"}
  BY DEF Kinds
<1>9. IsList(n1, t[1], t, "double")
  BY <1>3, <1>7, <1>8, InsertLinks
<1>10. ASSUME NEW x \in Elem, x \notin Range(s) \cup {e} PROVE n1.prev[x] = n.prev[x]
  <2>1. (p <= L => p \in 1 .. L) /\ (L > 0 => 1 \in 1 .. L)
    BY <1>1
  <2>2. ~(p <= L /\ x = s[p]) /\ ~(L > 0 /\ x = s[1])
    BY <1>1, <1>10, <2>1
  <2> QED
    BY <1>10, <2>2
<1>11. SameOutside(n, n1, Range(s) \cup {e})
  BY <1>3, <1>10 DEF SameOutside
<1> QED
  BY <1>9, <1>11 DEF Makes, Result

(* DL_PREPEND2, DL_APPEND2 and DL_PREPEND_ELEM put a node before the first, *)
(* after the last, and before the one that they name.                       *)
LEMMA DoublePrepend ==
  ASSUME NEW n \in Pointers, NEW h, NEW s, IsList(n, h, s, "double"), NEW e \in Elem, e \notin Range(s)
  PROVE  Makes(DL_PREPEND2(n, h, e), n, Range(s) \cup {e}, <<e>> \o s, "double")
<1> DEFINE L == Len(s)
           t == <<e>> \o s
           tail == n.prev[h]
           m1 == SetNext(n, e, h)
           m2 == SetPrev(m1, e, tail)
           n1 == IF h = NULL THEN SetPrev(m1, e, e) ELSE SetPrev(m2, h, e)
<1>1. /\ Distinct(s) /\ L \in Nat /\ h \in Link /\ (h = NULL <=> s = <<>>) /\ (s = <<>> <=> L = 0)
      /\ (s # <<>> => h = s[1] /\ 1 \in 1 .. L /\ L \in 1 .. L)
      /\ \A i \in 1 .. L : s[i] \in Elem /\ s[i] # e
  BY ListFacts
<1>2. Insertion(s, 1, e, t)
  BY <1>1, ConsIs
<1>3. DL_PREPEND2(n, h, e) = Result(n1, e)
  BY DEF DL_PREPEND2
<1>4. m1 \in Pointers /\ m1.prev = n.prev /\ \A x \in Elem : m1.next[x] = IF x = e THEN h ELSE n.next[x]
  BY <1>1, SetNextIs
<1>5. e \in Link
  BY DEF Link
<1>6. h # NULL => tail = s[L] /\ tail \in Link /\ h = s[1] /\ h \in Elem /\ h # e
  BY <1>1, DoublePrevs DEF Link
<1> HIDE DEF t, m1, tail
<1>7. /\ n1 \in Pointers /\ n1.next = m1.next
      /\ \A x \in Elem : n1.prev[x] = IF x = e THEN (IF L = 0 THEN e ELSE s[L])
                                      ELSE IF 1 <= L /\ x = s[1] THEN e ELSE n.prev[x]
  <2>0. m1 \in Pointers
    BY <1>4
  <2>1. CASE h = NULL
    <3>1. /\ n1 \in Pointers /\ n1.next = m1.next
          /\ \A x \in Elem : n1.prev[x] = IF x = e THEN e ELSE m1.prev[x]
      BY <1>5, <2>0, <2>1, SetPrevIs
    <3>2. L = 0 /\ ~(1 <= L)
      BY <1>1, <2>1
    <3> QED
      BY <1>4, <3>1, <3>2
  <2>2. CASE h # NULL
    <3>1. m2 \in Pointers /\ m2.next = m1.next /\ \A x \in Elem : m2.prev[x] = IF x = e THEN tail ELSE m1.prev[x]
      BY <1>6, <2>0, <2>2, SetPrevIs
    <3> HIDE DEF m2
    <3>2. m2 \in Pointers
      BY <3>1
    <3>3. /\ SetPrev(m2, h, e) \in Pointers /\ SetPrev(m2, h, e).next = m2.next
          /\ \A x \in Elem : SetPrev(m2, h, e).prev[x] = IF x = h THEN e ELSE m2.prev[x]
      BY <1>5, <1>6, <2>2, <3>2, SetPrevIs
    <3>4. L # 0 /\ 1 <= L
      BY <1>1, <2>2
    <3> QED
      BY <1>4, <1>6, <2>2, <3>1, <3>3, <3>4
  <2> QED
    BY <2>1, <2>2
<1> HIDE DEF n1
<1>8. 1 \in 1 .. L + 1 /\ h = (IF 1 <= L THEN s[1] ELSE NULL) /\ (1 = L + 1 <=> L = 0)
  BY <1>1
<1>9. t[1] = e
  BY <1>2 DEF Insertion
<1>10. \A x \in Elem : n1.next[x] = IF x = e THEN (IF 1 <= L THEN s[1] ELSE NULL)
                                    ELSE IF 1 > 1 /\ x = s[1 - 1] THEN e ELSE n.next[x]
  BY <1>4, <1>7, <1>8
<1>11. \A x \in Elem : n1.prev[x] = IF x = e THEN (IF L = 0 THEN e ELSE IF 1 = 1 THEN s[L] ELSE s[1 - 1])
                                    ELSE IF 1 <= L /\ x = s[1] THEN e
                                    ELSE IF 1 = L + 1 /\ L > 0 /\ x = s[1] THEN e ELSE n.prev[x]
  BY <1>7, <1>8
<1>12. n1 \in Pointers
  BY <1>7
<1>13. Makes(Result(n1, t[1]), n, Range(s) \cup {e}, t, "double")
  BY <1>2, <1>8, <1>10, <1>11, <1>12, DoubleInsertion
<1> QED
  BY <1>3, <1>9, <1>13 DEF t

\* DL_APPEND appends.
LEMMA DoubleAppend ==
  ASSUME NEW n \in Pointers, NEW h, NEW s, IsList(n, h, s, "double"), NEW e \in Elem, e \notin Range(s)
  PROVE  Makes(DL_APPEND2(n, h, e), n, Range(s) \cup {e}, Append(s, e), "double")
<1> DEFINE L == Len(s)
           t == Append(s, e)
           last == s[L]
<1>1. /\ Distinct(s) /\ L \in Nat /\ h \in Link /\ (h = NULL <=> s = <<>>) /\ (s = <<>> <=> L = 0)
      /\ (s # <<>> => h = s[1] /\ 1 \in 1 .. L /\ L \in 1 .. L)
      /\ \A i \in 1 .. L : s[i] \in Elem /\ s[i] # e
  BY ListFacts
<1>2. Insertion(s, L + 1, e, t)
  BY <1>1, AppendIs
<1>3. e \in Link /\ NULL \in Link
  BY DEF Link
<1>4. L + 1 \in 1 .. L + 1 /\ ~(L + 1 <= L) /\ (L + 1) - 1 = L
  BY <1>1
<1> HIDE DEF t
<1>5. CASE s = <<>>
  <2> DEFINE m1 == SetPrev(n, e, e)
             n1 == SetNext(m1, e, NULL)
  <2>1. DL_APPEND2(n, h, e) = Result(n1, e)
    BY <1>1, <1>5 DEF DL_APPEND2
  <2>2. m1 \in Pointers /\ m1.next = n.next /\ \A x \in Elem : m1.prev[x] = IF x = e THEN e ELSE n.prev[x]
    BY <1>3, SetPrevIs
  <2> HIDE DEF m1
  <2>3. n1 \in Pointers /\ n1.prev = m1.prev /\ \A x \in Elem : n1.next[x] = IF x = e THEN NULL ELSE m1.next[x]
    <3>1. m1 \in Pointers
      BY <2>2
    <3> QED
      BY <1>3, <3>1, SetNextIs
  <2> HIDE DEF n1
  <2>4. L = 0 /\ ~(L + 1 > 1) /\ ~(L > 0)
    BY <1>1, <1>5
  <2>5. \A x \in Elem : n1.next[x] = IF x = e THEN (IF L + 1 <= L THEN s[L + 1] ELSE NULL)
                                     ELSE IF L + 1 > 1 /\ x = s[(L + 1) - 1] THEN e ELSE n.next[x]
    BY <1>4, <2>2, <2>3, <2>4
  <2>6. \A x \in Elem : n1.prev[x] = IF x = e THEN (IF L = 0 THEN e ELSE IF L + 1 = 1 THEN s[L] ELSE s[(L + 1) - 1])
                                     ELSE IF L + 1 <= L /\ x = s[L + 1] THEN e
                                     ELSE IF L + 1 = L + 1 /\ L > 0 /\ x = s[1] THEN e ELSE n.prev[x]
    BY <1>4, <2>2, <2>3, <2>4
  <2>7. n1 \in Pointers
    BY <2>3
  <2>8. Makes(Result(n1, t[1]), n, Range(s) \cup {e}, t, "double")
    BY <1>2, <1>4, <2>5, <2>6, <2>7, DoubleInsertion
  <2>9. t[1] = e
    BY <1>2, <2>4 DEF Insertion
  <2> QED
    BY <2>1, <2>8, <2>9 DEF t
<1>6. CASE s # <<>>
  <2> DEFINE m1 == SetPrev(n, e, last)
             m2 == SetNext(m1, last, e)
             m3 == SetPrev(m2, h, e)
             n1 == SetNext(m3, e, NULL)
  <2>1. h = s[1] /\ h # NULL /\ h \in Elem /\ last \in Elem /\ last \in Link /\ last # e /\ n.prev[h] = last /\ h # e
    BY <1>1, <1>6, DoublePrevs DEF Link
  <2>2. DL_APPEND2(n, h, e) = Result(n1, h)
    BY <2>1 DEF DL_APPEND2
  <2> HIDE DEF last
  <2>3. m1 \in Pointers /\ m1.next = n.next /\ \A x \in Elem : m1.prev[x] = IF x = e THEN last ELSE n.prev[x]
    BY <2>1, SetPrevIs
  <2> HIDE DEF m1
  <2>4. m2 \in Pointers /\ m2.prev = m1.prev /\ \A x \in Elem : m2.next[x] = IF x = last THEN e ELSE m1.next[x]
    <3>1. m1 \in Pointers
      BY <2>3
    <3> QED
      BY <1>3, <2>1, <3>1, SetNextIs
  <2> HIDE DEF m2
  <2>5. m3 \in Pointers /\ m3.next = m2.next /\ \A x \in Elem : m3.prev[x] = IF x = h THEN e ELSE m2.prev[x]
    <3>1. m2 \in Pointers /\ h \in Elem /\ e \in Link
      BY <1>3, <2>1, <2>4
    <3> QED
      BY <3>1, SetPrevIs
  <2> HIDE DEF m3
  <2>6. n1 \in Pointers /\ n1.prev = m3.prev /\ \A x \in Elem : n1.next[x] = IF x = e THEN NULL ELSE m3.next[x]
    <3>1. m3 \in Pointers
      BY <2>5
    <3> QED
      BY <1>3, <3>1, SetNextIs
  <2> HIDE DEF n1
  <2>7. L # 0 /\ L > 0 /\ L + 1 > 1 /\ L + 1 # 1 /\ last = s[(L + 1) - 1]
    BY <1>1, <1>4, <1>6 DEF last
  <2>8. \A x \in Elem : n1.next[x] = IF x = e THEN (IF L + 1 <= L THEN s[L + 1] ELSE NULL)
                                     ELSE IF L + 1 > 1 /\ x = s[(L + 1) - 1] THEN e ELSE n.next[x]
    BY <1>4, <2>1, <2>3, <2>4, <2>5, <2>6, <2>7
  <2>9. \A x \in Elem : n1.prev[x] = IF x = e THEN (IF L = 0 THEN e ELSE IF L + 1 = 1 THEN s[L] ELSE s[(L + 1) - 1])
                                     ELSE IF L + 1 <= L /\ x = s[L + 1] THEN e
                                     ELSE IF L + 1 = L + 1 /\ L > 0 /\ x = s[1] THEN e ELSE n.prev[x]
    BY <1>4, <2>1, <2>3, <2>4, <2>5, <2>6, <2>7
  <2>10. n1 \in Pointers
    BY <2>6
  <2>11. Makes(Result(n1, t[1]), n, Range(s) \cup {e}, t, "double")
    BY <1>2, <1>4, <2>8, <2>9, <2>10, DoubleInsertion
  <2>12. t[1] = h
    <3>1. 1 \in 1 .. L /\ 1 < L + 1
      BY <1>1, <1>6
    <3>2. t[1] = s[1]
      BY <1>2, <3>1 DEF Insertion
    <3> QED
      BY <2>1, <3>2
  <2> QED
    BY <2>2, <2>11, <2>12 DEF t
<1> QED
  BY <1>5, <1>6

-----------------------------------------------------------------------------
\* DL_PREPEND_ELEM puts the node before the one it names.
LEMMA DoublePrependElem ==
  ASSUME NEW n \in Pointers, NEW h, NEW s, IsList(n, h, s, "double"), NEW i \in 1 .. Len(s),
         NEW e \in Elem, e \notin Range(s)
  PROVE  Makes(DL_PREPEND_ELEM(n, h, s[i], e), n, Range(s) \cup {e}, InsertBefore(s, s[i], e), "double")
<1> DEFINE L == Len(s)
           t == InsertBefore(s, s[i], e)
           el == s[i]
           before == n.prev[el]
           m1 == SetNext(n, e, el)
           m2 == SetPrev(m1, e, before)
           m3 == SetPrev(m2, el, e)
           n1 == IF h = el THEN m3 ELSE SetNext(m3, before, e)
<1>1. /\ Distinct(s) /\ L \in Nat /\ (s = <<>> <=> L = 0)
      /\ (s # <<>> => h = s[1] /\ 1 \in 1 .. L /\ L \in 1 .. L)
      /\ \A j \in 1 .. L : s[j] \in Elem /\ s[j] \in Range(s) /\ s[j] # e
      /\ \A j, k \in 1 .. L : s[j] = s[k] => j = k
  BY ListFacts
<1>2. Insertion(s, i, e, t)
  BY <1>1, InsteadIs
<1>3. h = s[1] /\ L > 0 /\ 1 \in 1 .. L /\ L \in 1 .. L /\ i \in 1 .. L + 1 /\ i <= L
  <2>1. L > 0 /\ i \in 1 .. L + 1 /\ i <= L
    BY <1>1
  <2> QED
    BY <1>1, <2>1
<1>4. /\ el \in Elem /\ el \in Link /\ el # e /\ e \in Link /\ (h = el <=> i = 1)
      /\ before = (IF i = 1 THEN s[L] ELSE s[i - 1]) /\ before \in Elem /\ before \in Link /\ before # e
  <2>1. el \in Elem /\ el # e /\ (h = el <=> i = 1)
    BY <1>1, <1>3
  <2>2. before = IF i = 1 THEN s[L] ELSE s[i - 1]
    BY DoublePrevs
  <2>3. i # 1 => i - 1 \in 1 .. L
    BY <1>1
  <2>4. before \in Elem /\ before # e
    BY <1>1, <1>3, <2>2, <2>3
  <2> QED
    BY <2>1, <2>2, <2>4 DEF Link
<1> HIDE DEF before, el, t
<1>5. m1 \in Pointers /\ m1.prev = n.prev /\ \A x \in Elem : m1.next[x] = IF x = e THEN el ELSE n.next[x]
  BY <1>4, SetNextIs
<1> HIDE DEF m1
<1>6. m2 \in Pointers /\ m2.next = m1.next /\ \A x \in Elem : m2.prev[x] = IF x = e THEN before ELSE m1.prev[x]
  <2>1. m1 \in Pointers /\ before \in Link
    BY <1>4, <1>5
  <2> QED
    BY <2>1, SetPrevIs
<1> HIDE DEF m2
<1>7. m3 \in Pointers /\ m3.next = m2.next /\ \A x \in Elem : m3.prev[x] = IF x = el THEN e ELSE m2.prev[x]
  <2>1. m2 \in Pointers /\ el \in Elem /\ e \in Link
    BY <1>4, <1>6
  <2> QED
    BY <2>1, SetPrevIs
<1>8. m3.prev[e] = before
  BY <1>4, <1>6, <1>7
<1>9. DL_PREPEND_ELEM(n, h, s[i], e) = Result(n1, IF h = el THEN e ELSE h)
  BY <1>8 DEF DL_PREPEND_ELEM, el, before, m1, m2
<1> HIDE DEF m3
<1>10. /\ n1 \in Pointers /\ n1.prev = m3.prev
       /\ \A x \in Elem : n1.next[x] = IF h # el /\ x = before THEN e ELSE m3.next[x]
  <2>1. m3 \in Pointers /\ before \in Elem /\ e \in Link
    BY <1>4, <1>7
  <2>2. /\ SetNext(m3, before, e) \in Pointers /\ SetNext(m3, before, e).prev = m3.prev
        /\ \A x \in Elem : SetNext(m3, before, e).next[x] = IF x = before THEN e ELSE m3.next[x]
    BY <2>1, SetNextIs
  <2> QED
    BY <2>1, <2>2
<1> HIDE DEF n1
<1>11. (i > 1 <=> i # 1) /\ (i > 1 => before = s[i - 1]) /\ ~(i = L + 1)
  BY <1>1, <1>4
<1>12. \A x \in Elem : n1.next[x] = IF x = e THEN (IF i <= L THEN s[i] ELSE NULL)
                                    ELSE IF i > 1 /\ x = s[i - 1] THEN e ELSE n.next[x]
  BY <1>3, <1>4, <1>5, <1>6, <1>7, <1>10, <1>11 DEF el
<1>13. \A x \in Elem : n1.prev[x] = IF x = e THEN (IF L = 0 THEN e ELSE IF i = 1 THEN s[L] ELSE s[i - 1])
                                    ELSE IF i <= L /\ x = s[i] THEN e
                                    ELSE IF i = L + 1 /\ L > 0 /\ x = s[1] THEN e ELSE n.prev[x]
  <2>1. L # 0
    BY <1>3
  <2> QED
    BY <1>3, <1>4, <1>5, <1>6, <1>7, <1>10, <1>11, <2>1 DEF el
<1>14. n1 \in Pointers
  BY <1>10
<1>15. Makes(Result(n1, t[1]), n, Range(s) \cup {e}, t, "double")
  BY <1>2, <1>3, <1>12, <1>13, <1>14, DoubleInsertion
<1>16. t[1] = IF h = el THEN e ELSE h
  <2>1. t[i] = e /\ (1 < i => t[1] = s[1])
    BY <1>2, <1>3 DEF Insertion
  <2> QED
    BY <1>3, <1>4, <1>11, <2>1
<1> QED
  BY <1>9, <1>15, <1>16 DEF t, el

(* A node taken out of a list with prev pointers, from the pointers alone: *)
(* the one before it leads to the one after it, and back.                  *)
LEMMA DoubleRemoval ==
  ASSUME NEW n \in Pointers, NEW h, NEW s, NEW kind \in {"double", "circular"}, IsList(n, h, s, kind),
         NEW p \in 1 .. Len(s), NEW t, Removal(s, p, t), NEW n1 \in Pointers,
         Len(s) > 1 =>
           /\ \A x \in Elem : n1.next[x] =
                IF p > 1 /\ x = s[p - 1] THEN n.next[s[p]]
                ELSE IF kind = "circular" /\ p = 1 /\ x = s[Len(s)] THEN s[2] ELSE n.next[x]
           /\ \A x \in Elem : n1.prev[x] =
                IF p < Len(s) /\ x = s[p + 1] THEN (IF p = 1 THEN s[Len(s)] ELSE s[p - 1])
                ELSE IF p = Len(s) /\ x = s[1] THEN s[p - 1] ELSE n.prev[x],
         NEW h1, h1 = IF t = <<>> THEN NULL ELSE t[1],
         Len(s) = 1 => SameOutside(n, n1, Range(s))
  PROVE  Makes(Result(n1, h1), n, Range(s), t, kind)
<1> DEFINE L == Len(s)
<1>1. /\ L \in Nat /\ \A i \in 1 .. L : s[i] \in Elem /\ s[i] \in Range(s)
      /\ \A i, j \in 1 .. L : s[i] = s[j] => i = j
      /\ \A i \in 1 .. L : n.next[s[i]] = IF i < L THEN s[i + 1] ELSE EndOf(s, kind)
  BY ListFacts
<1>2. \A i \in 1 .. L : n.prev[s[i]] = IF i = 1 THEN s[L] ELSE s[i - 1]
  BY DoublePrevs
<1>3. kind \in Kinds \ {"app"} /\ kind # "single"
  BY DEF Kinds
<1>4. CASE L = 1
  <2>1. \A i \in 1 .. L : i = p
    BY <1>1, <1>4
  <2>2. RemovedNext(n1, s, p, t, kind) /\ RemovedPrev(n1, s, p, t)
    BY <2>1 DEF RemovedNext, RemovedPrev
  <2>3. IsList(n1, h1, t, kind)
    BY <1>3, <2>2, RemoveLinks
  <2>4. SameOutside(n, n1, Range(s))
    BY <1>4
  <2> QED
    BY <2>3, <2>4 DEF Makes, Result
<1>5. CASE L # 1
  <2>1. /\ L > 1 /\ 1 \in 1 .. L /\ L \in 1 .. L /\ 2 \in 1 .. L
        /\ (p > 1 => p - 1 \in 1 .. L) /\ (p < L => p + 1 \in 1 .. L) /\ (p # L <=> p < L) /\ (p # 1 <=> p > 1)
    <3>1. L \in Nat /\ p \in Nat /\ 1 <= p /\ p <= L
      BY <1>1
    <3> HIDE DEF L
    <3>2. L > 1
      BY <1>5, <3>1
    <3>3. 1 \in 1 .. L /\ L \in 1 .. L /\ 2 \in 1 .. L
      BY <3>1, <3>2
    <3> QED
      BY <3>1, <3>2, <3>3
  <2>2. /\ t = <<>> <=> L = 1
        /\ p > 1 => t # <<>> /\ t[1] = s[1]
        /\ p = 1 /\ t # <<>> => 2 \in 1 .. L /\ t[1] = s[2] /\ 1 < L
        /\ L > 1 => t[L - 1] = IF p = L THEN s[L - 1] ELSE s[L]
    BY HeadOfRemoval
  <2>3. EndOf(t, kind) = IF kind = "circular" THEN (IF p = 1 THEN s[2] ELSE s[1]) ELSE NULL
    BY <2>1, <2>2, <1>5 DEF EndOf
  <2>4. EndOf(s, kind) = IF kind = "circular" THEN s[1] ELSE NULL
    BY DEF EndOf
  <2>5. /\ \A x \in Elem : n1.next[x] =
             IF p > 1 /\ x = s[p - 1] THEN n.next[s[p]]
             ELSE IF kind = "circular" /\ p = 1 /\ x = s[L] THEN s[2] ELSE n.next[x]
        /\ \A x \in Elem : n1.prev[x] =
             IF p < L /\ x = s[p + 1] THEN (IF p = 1 THEN s[L] ELSE s[p - 1])
             ELSE IF p = L /\ x = s[1] THEN s[p - 1] ELSE n.prev[x]
    BY <2>1
  <2>6. ASSUME NEW i \in 1 .. L, i # p
        PROVE  n1.next[s[i]] = IF i = p - 1 THEN (IF p = L THEN EndOf(t, kind) ELSE s[p + 1])
                               ELSE IF i = L THEN EndOf(t, kind) ELSE s[i + 1]
    <3>1. n1.next[s[i]] = IF p > 1 /\ s[i] = s[p - 1] THEN n.next[s[p]]
                          ELSE IF kind = "circular" /\ p = 1 /\ s[i] = s[L] THEN s[2] ELSE n.next[s[i]]
      BY <1>1, <2>5
    <3>2. ((p > 1 /\ s[i] = s[p - 1]) <=> i = p - 1) /\ (s[i] = s[L] <=> i = L)
      <4>1. i = p - 1 => p > 1
        BY <1>1
      <4> QED
        BY <1>1, <2>1, <4>1
    <3>3. i < L <=> i # L
      BY <1>1
    <3>4. CASE i = p - 1
      <4>1. n1.next[s[i]] = n.next[s[p]] /\ p > 1
        BY <3>1, <3>2, <3>4
      <4>2. n.next[s[p]] = IF p < L THEN s[p + 1] ELSE EndOf(s, kind)
        BY <1>1
      <4> QED
        BY <2>1, <2>3, <2>4, <3>4, <4>1, <4>2
    <3>5. CASE i # p - 1
      <4>1. n1.next[s[i]] = IF kind = "circular" /\ p = 1 /\ i = L THEN s[2]
                            ELSE IF i < L THEN s[i + 1] ELSE EndOf(s, kind)
        BY <1>1, <3>1, <3>2, <3>5
      <4> QED
        BY <2>3, <2>4, <3>3, <3>5, <4>1
    <3> QED
      BY <3>4, <3>5
  <2>7. ASSUME NEW i \in 1 .. L, i # p
        PROVE  n1.prev[s[i]] = IF i = 1 \/ (i = 2 /\ p = 1) THEN t[L - 1]
                               ELSE IF i = p + 1 THEN s[p - 1] ELSE s[i - 1]
    <3>1. n1.prev[s[i]] = IF p < L /\ s[i] = s[p + 1] THEN (IF p = 1 THEN s[L] ELSE s[p - 1])
                          ELSE IF p = L /\ s[i] = s[1] THEN s[p - 1] ELSE n.prev[s[i]]
      BY <1>1, <2>5
    <3>2. ((p < L /\ s[i] = s[p + 1]) <=> i = p + 1) /\ (s[i] = s[1] <=> i = 1)
      <4>1. i = p + 1 => p < L
        BY <1>1
      <4> QED
        BY <1>1, <2>1, <4>1
    <3>3. (i = 2 /\ p = 1) <=> (i = p + 1 /\ p = 1)
      BY <1>1
    <3>4. CASE i = p + 1
      <4>1. n1.prev[s[i]] = (IF p = 1 THEN s[L] ELSE s[p - 1]) /\ i # 1 /\ p < L
        BY <1>1, <3>1, <3>2, <3>4
      <4> QED
        BY <2>1, <2>2, <3>3, <3>4, <4>1
    <3>5. CASE i # p + 1
      <4>1. n1.prev[s[i]] = IF p = L /\ i = 1 THEN s[p - 1] ELSE IF i = 1 THEN s[L] ELSE s[i - 1]
        BY <1>2, <3>1, <3>2, <3>5
      <4> QED
        BY <2>1, <2>2, <3>3, <3>5, <4>1
    <3> QED
      BY <3>4, <3>5
  <2>8. RemovedNext(n1, s, p, t, kind)
    BY <2>6 DEF RemovedNext
  <2>9. RemovedPrev(n1, s, p, t)
    BY <2>7 DEF RemovedPrev
  <2>10. IsList(n1, h1, t, kind)
    BY <1>3, <2>8, <2>9, RemoveLinks
  <2>11. SameOutside(n, n1, Range(s))
    <3> SUFFICES ASSUME NEW x \in Elem, x \notin Range(s)
                 PROVE  n1.next[x] = n.next[x] /\ n1.prev[x] = n.prev[x]
      BY DEF SameOutside
    <3>1. x # s[L] /\ x # s[1] /\ (p > 1 => x # s[p - 1]) /\ (p < L => x # s[p + 1])
      BY <1>1, <2>1
    <3> QED
      BY <2>5, <3>1
  <2> QED
    BY <2>10, <2>11 DEF Makes, Result
<1> QED
  BY <1>4, <1>5

-----------------------------------------------------------------------------
(* DL_DELETE2 takes a node out of its list. *)
LEMMA DoubleDeletion ==
  ASSUME NEW n \in Pointers, NEW h, NEW s, IsList(n, h, s, "double"), NEW e \in Range(s)
  PROVE  Makes(DL_DELETE2(n, h, e), n, Range(s), Without(s, e), "double")
<1> DEFINE L == Len(s)
           t == Without(s, e)
           before == n.prev[e]
           after == n.next[e]
<1>1. /\ Distinct(s) /\ L \in Nat /\ (s = <<>> <=> L = 0)
      /\ (s # <<>> => h = s[1] /\ 1 \in 1 .. L /\ L \in 1 .. L) /\ Range(s) = {s[j] : j \in 1 .. L}
      /\ \A j \in 1 .. L : s[j] \in Elem /\ s[j] \in Range(s) /\ s[j] # NULL
      /\ \A j, k \in 1 .. L : s[j] = s[k] => j = k
      /\ \A j \in 1 .. L : n.next[s[j]] = IF j < L THEN s[j + 1] ELSE EndOf(s, "double")
  BY ListFacts
<1>2. PICK i \in 1 .. L : s[i] = e
  BY <1>1
<1>3. Removal(s, i, t)
  BY <1>1, <1>2, WithoutIs
<1>4. h = s[1] /\ L > 0 /\ 1 \in 1 .. L /\ L \in 1 .. L /\ i <= L /\ i >= 1 /\ i \in Nat
  <2>1. L > 0 /\ i <= L /\ i >= 1 /\ i \in Nat
    BY <1>1
  <2> QED
    BY <1>1, <2>1
<1>5. /\ t = <<>> <=> L = 1
      /\ i > 1 => t # <<>> /\ t[1] = s[1]
      /\ i = 1 /\ t # <<>> => 2 \in 1 .. L /\ t[1] = s[2] /\ 1 < L
  BY <1>3, HeadOfRemoval
<1>6. before = IF i = 1 THEN s[L] ELSE s[i - 1]
  BY <1>2, DoublePrevs
<1>7. after = IF i < L THEN s[i + 1] ELSE NULL
  BY <1>1, <1>2 DEF EndOf
<1>8. (i < L => i + 1 \in 1 .. L) /\ (i # 1 => i - 1 \in 1 .. L) /\ (i > 1 <=> i # 1) /\ (i < L <=> i # L)
  BY <1>1, <1>4
<1>9. /\ before \in Elem /\ before \in Link /\ before \in Range(s) /\ e \in Elem /\ after \in Link
      /\ (after = NULL <=> i = L) /\ (after # NULL => after \in Elem /\ after \in Range(s)) /\ h \in Elem
  BY <1>1, <1>2, <1>4, <1>6, <1>7, <1>8 DEF Link
<1>10. before = e <=> L = 1
  <2>1. i = 1 => (s[L] = s[1] <=> L = 1)
    BY <1>1, <1>4
  <2>2. i # 1 => s[i - 1] # s[i] /\ L # 1
    <3>1. i # 1 => i - 1 # i
      BY <1>4
    <3>2. i # 1 => L # 1
      <4> HIDE DEF L
      <4> QED
        BY <1>4
    <3> QED
      BY <1>1, <1>8, <3>1, <3>2
  <2> QED
    BY <1>2, <1>6, <2>1, <2>2
<1>11. e = h <=> i = 1
  BY <1>1, <1>2, <1>4
<1> HIDE DEF before, after, t
<1>12. CASE L = 1
  <2>1. DL_DELETE2(n, h, e) = Result(n, NULL)
    BY <1>10, <1>12 DEF DL_DELETE2, before
  <2>2. SameOutside(n, n, Range(s)) /\ t = <<>> /\ ~(L > 1)
    BY <1>5, <1>12 DEF SameOutside
  <2>3. "double" \in {"double", "circular"} /\ NULL = IF t = <<>> THEN NULL ELSE t[1]
    BY <2>2
  <2>4. Makes(Result(n, NULL), n, Range(s), t, "double")
    BY <1>3, <2>2, <2>3, DoubleRemoval
  <2> QED
    BY <2>1, <2>4 DEF t
<1>13. CASE L # 1 /\ i = 1
  <2> DEFINE n1 == SetPrev(n, after, before)
  <2>1. after = s[2] /\ after \in Elem /\ L > 1 /\ 1 + 1 = 2
    BY <1>4, <1>7, <1>9, <1>13
  <2>2. DL_DELETE2(n, h, e) = Result(n1, after)
    <3>1. n.prev[e] # e /\ e = h
      BY <1>10, <1>11, <1>13 DEF before
    <3>2. DL_DELETE2(n, h, e) = Result(SetPrev(n, n.next[e], n.prev[e]), n.next[e])
      BY <3>1 DEF DL_DELETE2
    <3> QED
      BY <3>2 DEF n1, before, after
  <2>3. n1 \in Pointers /\ n1.next = n.next /\ \A x \in Elem : n1.prev[x] = IF x = after THEN before ELSE n.prev[x]
    <3>1. after \in Elem /\ before \in Link
      BY <1>9, <2>1
    <3> QED
      BY <3>1, SetPrevIs
  <2> HIDE DEF n1
  <2>4. \A x \in Elem : n1.next[x] = IF i > 1 /\ x = s[i - 1] THEN n.next[s[i]]
                                     ELSE IF "double" = "circular" /\ i = 1 /\ x = s[L] THEN s[2] ELSE n.next[x]
    BY <1>13, <2>3
  <2>5. \A x \in Elem : n1.prev[x] = IF i < L /\ x = s[i + 1] THEN (IF i = 1 THEN s[L] ELSE s[i - 1])
                                     ELSE IF i = L /\ x = s[1] THEN s[i - 1] ELSE n.prev[x]
    BY <1>6, <1>8, <1>13, <2>1, <2>3
  <2>6. after = IF t = <<>> THEN NULL ELSE t[1]
    BY <1>5, <1>13, <2>1
  <2>7. "double" \in {"double", "circular"} /\ n1 \in Pointers
    BY <2>3
  <2>8. Makes(Result(n1, after), n, Range(s), t, "double")
    BY <1>3, <1>13, <2>4, <2>5, <2>6, <2>7, DoubleRemoval
  <2> QED
    BY <2>2, <2>8 DEF t
<1>14. CASE L # 1 /\ i # 1
  <2> DEFINE m1 == SetNext(n, before, after)
             back == IF after = NULL THEN h ELSE after
             n1 == SetPrev(m1, back, before)
  <2>1. back \in Elem
    BY <1>9
  <2>2. DL_DELETE2(n, h, e) = Result(n1, h)
    BY <1>10, <1>11, <1>14 DEF DL_DELETE2, before, after
  <2>3. m1 \in Pointers /\ m1.prev = n.prev /\ \A x \in Elem : m1.next[x] = IF x = before THEN after ELSE n.next[x]
    BY <1>9, SetNextIs
  <2> HIDE DEF m1
  <2>4. back = IF i = L THEN s[1] ELSE s[i + 1]
    BY <1>4, <1>7, <1>8, <1>9
  <2> HIDE DEF back
  <2>5. n1 \in Pointers /\ n1.next = m1.next /\ \A x \in Elem : n1.prev[x] = IF x = back THEN before ELSE m1.prev[x]
    <3>1. m1 \in Pointers /\ before \in Link
      BY <1>9, <2>3
    <3> QED
      BY <2>1, <3>1, SetPrevIs
  <2> HIDE DEF n1
  <2>6. \A x \in Elem : n1.next[x] = IF i > 1 /\ x = s[i - 1] THEN n.next[s[i]]
                                     ELSE IF "double" = "circular" /\ i = 1 /\ x = s[L] THEN s[2] ELSE n.next[x]
    BY <1>2, <1>6, <1>8, <1>14, <2>3, <2>5 DEF after
  <2>7. \A x \in Elem : n1.prev[x] = IF i < L /\ x = s[i + 1] THEN (IF i = 1 THEN s[L] ELSE s[i - 1])
                                     ELSE IF i = L /\ x = s[1] THEN s[i - 1] ELSE n.prev[x]
    BY <1>6, <1>8, <1>14, <2>3, <2>4, <2>5
  <2>8. h = IF t = <<>> THEN NULL ELSE t[1]
    BY <1>4, <1>5, <1>8, <1>14
  <2>9. "double" \in {"double", "circular"} /\ n1 \in Pointers
    BY <2>5
  <2>10. Makes(Result(n1, h), n, Range(s), t, "double")
    BY <1>3, <1>14, <2>6, <2>7, <2>8, <2>9, DoubleRemoval
  <2> QED
    BY <2>2, <2>10 DEF t
<1> QED
  BY <1>12, <1>13, <1>14

(* A node put in place of one of a list with prev pointers, from the pointers alone. *)
LEMMA DoubleReplacement ==
  ASSUME NEW n \in Pointers, NEW h, NEW s, NEW kind \in {"double", "circular"}, IsList(n, h, s, kind),
         NEW e \in Elem, e \notin Range(s), NEW p \in 1 .. Len(s), NEW t, Replacement(s, p, e, t),
         NEW n1 \in Pointers,
         \A x \in Elem : n1.next[x] =
           IF x = e THEN (IF Len(s) = 1 THEN EndOf(t, kind) ELSE n.next[s[p]])
           ELSE IF p > 1 /\ x = s[p - 1] THEN e
           ELSE IF kind = "circular" /\ p = 1 /\ Len(s) > 1 /\ x = s[Len(s)] THEN e ELSE n.next[x],
         \A x \in Elem : n1.prev[x] =
           IF x = e THEN (IF Len(s) = 1 THEN e ELSE n.prev[s[p]])
           ELSE IF p < Len(s) /\ x = s[p + 1] THEN e
           ELSE IF p = Len(s) /\ Len(s) > 1 /\ x = s[1] THEN e ELSE n.prev[x]
  PROVE  Makes(Result(n1, t[1]), n, Range(s) \cup {e}, t, kind)
<1> DEFINE L == Len(s)
<1>0. /\ L \in Nat /\ \A i \in 1 .. L : s[i] \in Elem /\ s[i] \in Range(s) /\ s[i] # e
      /\ \A i, j \in 1 .. L : s[i] = s[j] => i = j
      /\ \A i \in 1 .. L : n.next[s[i]] = IF i < L THEN s[i + 1] ELSE EndOf(s, kind)
  BY ListFacts
<1>1. /\ L \in Nat /\ p \in Nat /\ 1 <= p /\ p <= L /\ 1 \in 1 .. L /\ L \in 1 .. L
      /\ (p > 1 => p - 1 \in 1 .. L) /\ (p < L => p + 1 \in 1 .. L) /\ (p # L <=> p < L) /\ (p # 1 <=> p > 1)
      /\ (L = 1 => p = 1 /\ p = L) /\ (L # 1 /\ p = L => p # 1) /\ (L # 1 => L > 1)
  <2>1. L \in Nat /\ p \in Nat /\ 1 <= p /\ p <= L
    BY <1>0
  <2> HIDE DEF L
  <2> QED
    BY <2>1
<1>2. \A i \in 1 .. L : n.prev[s[i]] = IF i = 1 THEN s[L] ELSE s[i - 1]
  BY DoublePrevs
<1>3. kind \in Kinds \ {"app"} /\ kind # "single"
  BY DEF Kinds
<1>4. Len(t) = L /\ t[1] = (IF 1 = p THEN e ELSE s[1]) /\ t[L] = (IF L = p THEN e ELSE s[L])
  BY <1>1 DEF Replacement
<1>5. /\ EndOf(s, kind) = IF kind = "circular" THEN s[1] ELSE NULL
      /\ EndOf(t, kind) = IF kind = "circular" THEN (IF p = 1 THEN e ELSE s[1]) ELSE NULL
  BY <1>4 DEF EndOf
<1>6. n1.next[e] = IF p = L THEN EndOf(t, kind) ELSE s[p + 1]
  <2>1. n.next[s[p]] = IF p < L THEN s[p + 1] ELSE EndOf(s, kind)
    BY <1>0
  <2>2. n1.next[e] = IF L = 1 THEN EndOf(t, kind) ELSE n.next[s[p]]
    OBVIOUS
  <2>3. (L = 1 => p = L) /\ (L # 1 /\ p = L => p # 1)
    BY <1>1
  <2> QED
    BY <1>1, <1>5, <2>1, <2>2, <2>3
<1>7. ASSUME NEW i \in 1 .. L, i # p
      PROVE  n1.next[s[i]] = IF i = p - 1 THEN e ELSE IF i = L THEN EndOf(t, kind) ELSE s[i + 1]
  <2>1. n1.next[s[i]] = IF p > 1 /\ s[i] = s[p - 1] THEN e
                        ELSE IF kind = "circular" /\ p = 1 /\ L > 1 /\ s[i] = s[L] THEN e ELSE n.next[s[i]]
    BY <1>0
  <2>2. ((p > 1 /\ s[i] = s[p - 1]) <=> i = p - 1) /\ (s[i] = s[L] <=> i = L)
    <3>1. i = p - 1 => p > 1
      BY <1>1
    <3> QED
      BY <1>0, <1>1, <3>1
  <2>3. (i < L <=> i # L) /\ L > 1
    BY <1>1, <1>7
  <2>4. n.next[s[i]] = IF i < L THEN s[i + 1] ELSE EndOf(s, kind)
    BY <1>0
  <2> QED
    BY <1>5, <2>1, <2>2, <2>3, <2>4
<1>8. ReplacedNext(n1, s, p, e, t, kind)
  BY <1>6, <1>7 DEF ReplacedNext
<1>9. n1.prev[e] = IF p = 1 THEN t[L] ELSE s[p - 1]
  <2>1. n.prev[s[p]] = IF p = 1 THEN s[L] ELSE s[p - 1]
    BY <1>2
  <2>2. n1.prev[e] = IF L = 1 THEN e ELSE n.prev[s[p]]
    OBVIOUS
  <2>3. (L = 1 => p = 1 /\ L = p) /\ (L # 1 /\ p = 1 => L # p)
    BY <1>1
  <2> QED
    BY <1>4, <2>1, <2>2, <2>3
<1>10. ASSUME NEW i \in 1 .. L, i # p
       PROVE  n1.prev[s[i]] = IF i = p + 1 THEN e ELSE IF i = 1 THEN t[L] ELSE s[i - 1]
  <2>1. n1.prev[s[i]] = IF p < L /\ s[i] = s[p + 1] THEN e
                        ELSE IF p = L /\ L > 1 /\ s[i] = s[1] THEN e ELSE n.prev[s[i]]
    BY <1>0
  <2>2. ((p < L /\ s[i] = s[p + 1]) <=> i = p + 1) /\ (s[i] = s[1] <=> i = 1)
    <3>1. i = p + 1 => p < L
      BY <1>1
    <3> QED
      BY <1>0, <1>1, <3>1
  <2>3. L > 1
    BY <1>1, <1>10
  <2>4. n.prev[s[i]] = IF i = 1 THEN s[L] ELSE s[i - 1]
    BY <1>2
  <2> QED
    BY <1>4, <2>1, <2>2, <2>3, <2>4
<1>11. ReplacedPrev(n1, s, p, e, t)
  BY <1>9, <1>10 DEF ReplacedPrev
<1>12. IsList(n1, t[1], t, kind)
  BY <1>3, <1>8, <1>11, ReplaceLinks
<1>13. SameOutside(n, n1, Range(s) \cup {e})
  <2> SUFFICES ASSUME NEW x \in Elem, x \notin Range(s), x # e
               PROVE  n1.next[x] = n.next[x] /\ n1.prev[x] = n.prev[x]
    BY DEF SameOutside
  <2>1. x # s[L] /\ x # s[1] /\ (p > 1 => x # s[p - 1]) /\ (p < L => x # s[p + 1])
    BY <1>0, <1>1
  <2> QED
    BY <2>1
<1> QED
  BY <1>12, <1>13 DEF Makes, Result

-----------------------------------------------------------------------------
(* DL_REPLACE_ELEM puts a node in place of one of the list. *)
LEMMA DoubleReplace ==
  ASSUME NEW n \in Pointers, NEW h, NEW s, IsList(n, h, s, "double"), NEW i \in 1 .. Len(s),
         NEW e \in Elem, e \notin Range(s)
  PROVE  Makes(DL_REPLACE_ELEM(n, h, s[i], e), n, Range(s) \cup {e}, InsteadOf(s, s[i], e), "double")
<1> DEFINE L == Len(s)
           t == InsteadOf(s, s[i], e)
           el == s[i]
           before == n.prev[el]
           after == n.next[el]
           m1 == SetNext(n, e, after)
           m2 == SetPrev(m1, e, before)
           m3 == SetNext(m2, before, e)
           back == IF after = NULL THEN h ELSE after
           n1 == IF L = 1 THEN SetPrev(m1, e, e) ELSE IF i = 1 THEN SetPrev(m2, after, e) ELSE SetPrev(m3, back, e)
<1>1. /\ Distinct(s) /\ L \in Nat /\ (s = <<>> <=> L = 0)
      /\ (s # <<>> => h = s[1])
      /\ \A j \in 1 .. L : s[j] \in Elem /\ s[j] \in Range(s) /\ s[j] # e /\ s[j] # NULL
      /\ \A j, k \in 1 .. L : s[j] = s[k] => j = k
      /\ \A j \in 1 .. L : n.next[s[j]] = IF j < L THEN s[j + 1] ELSE EndOf(s, "double")
  BY ListFacts
<1>2. Replacement(s, i, e, t)
  BY <1>1, InsteadIs
<1>3. /\ L \in Nat /\ i \in Nat /\ 1 <= i /\ i <= L /\ 1 \in 1 .. L /\ L \in 1 .. L
      /\ (i > 1 => i - 1 \in 1 .. L) /\ (i < L => i + 1 \in 1 .. L) /\ (i # L <=> i < L) /\ (i # 1 <=> i > 1)
      /\ (L = 1 => i = 1 /\ i = L) /\ (L # 1 <=> L > 1) /\ L # 0
  <2>1. L \in Nat /\ i \in Nat /\ 1 <= i /\ i <= L
    BY <1>1
  <2> HIDE DEF L
  <2> QED
    BY <2>1
<1>4. before = (IF i = 1 THEN s[L] ELSE s[i - 1]) /\ after = (IF i < L THEN s[i + 1] ELSE NULL) /\ h = s[1]
  BY <1>1, <1>3, DoublePrevs DEF EndOf
<1>5. /\ el \in Elem /\ el # e /\ e \in Link /\ before \in Elem /\ before \in Link /\ before # e /\ after \in Link
      /\ (after = NULL <=> i = L) /\ (after # NULL => after \in Elem /\ after # e) /\ h \in Elem /\ h # e
      /\ (h = el <=> i = 1) /\ back \in Elem /\ back # e
  <2>1. el \in Elem /\ el # e /\ h \in Elem /\ h # e /\ (h = el <=> i = 1)
    BY <1>1, <1>3, <1>4
  <2>2. before \in Elem /\ before # e
    BY <1>1, <1>3, <1>4
  <2>3. (after = NULL <=> i = L) /\ (after # NULL => after \in Elem /\ after # e)
    BY <1>1, <1>3, <1>4
  <2> HIDE DEF before, after, el
  <2> QED
    BY <2>1, <2>2, <2>3 DEF Link
<1>6. back = IF i < L THEN s[i + 1] ELSE s[1]
  BY <1>3, <1>4, <1>5
<1>7. L = 1 <=> (i = 1 /\ after = NULL)
  BY <1>3, <1>5
<1>8. after \in Link /\ before \in Link /\ e \in Link /\ before \in Elem
  BY <1>5
<1> HIDE DEF el, before, after, back, t, L
<1>9. m1 \in Pointers /\ m1.prev = n.prev /\ \A x \in Elem : m1.next[x] = IF x = e THEN after ELSE n.next[x]
  BY <1>8, SetNextIs
<1> HIDE DEF m1
<1>10. m1 \in Pointers
  BY <1>9
<1>11. m2 \in Pointers /\ m2.next = m1.next /\ \A x \in Elem : m2.prev[x] = IF x = e THEN before ELSE m1.prev[x]
  BY <1>8, <1>10, SetPrevIs
<1> HIDE DEF m2
<1>12. m2 \in Pointers
  BY <1>11
<1>13. m3 \in Pointers /\ m3.prev = m2.prev /\ \A x \in Elem : m3.next[x] = IF x = before THEN e ELSE m2.next[x]
  BY <1>8, <1>12, SetNextIs
<1> HIDE DEF m3
<1>14. m3 \in Pointers
  BY <1>13
<1>15. m2.prev[e] = before /\ m2.next[e] = after /\ m3.next[e] = after
  BY <1>5, <1>9, <1>11, <1>13
<1>16. DL_REPLACE_ELEM(n, h, s[i], e) = Result(n1, IF i = 1 THEN e ELSE h)
  <2>1. m1 = SetNext(n, e, n.next[el]) /\ m2 = SetPrev(m1, e, n.prev[el]) /\ m3 = SetNext(m2, m2.prev[e], e)
        /\ n.next[el] = after
    BY <1>15 DEF m1, m2, m3, after, before
  <2>2. DL_REPLACE_ELEM(n, h, el, e)
        = IF h = el THEN Result(IF after = NULL THEN SetPrev(m1, e, e) ELSE SetPrev(m2, m2.next[e], e), e)
          ELSE Result(SetPrev(m3, IF after = NULL THEN h ELSE m3.next[e], e), h)
    BY <2>1 DEF DL_REPLACE_ELEM
  <2> QED
    BY <1>3, <1>5, <1>7, <1>15, <2>2 DEF back, el
<1>17. /\ n1 \in Pointers
       /\ n1.next = (IF L = 1 \/ i = 1 THEN m1.next ELSE m3.next)
       /\ \A x \in Elem : n1.prev[x] = IF L = 1 THEN (IF x = e THEN e ELSE m1.prev[x])
                                       ELSE IF x = back THEN e ELSE m2.prev[x]
  <2>1. CASE L = 1
    <3>1. /\ SetPrev(m1, e, e) \in Pointers /\ SetPrev(m1, e, e).next = m1.next
          /\ \A x \in Elem : SetPrev(m1, e, e).prev[x] = IF x = e THEN e ELSE m1.prev[x]
      BY <1>8, <1>10, SetPrevIs
    <3> QED
      BY <2>1, <3>1
  <2>2. CASE L # 1 /\ i = 1
    <3>1. after \in Elem /\ back = after
      BY <1>5, <1>7, <2>2 DEF back
    <3>2. /\ SetPrev(m2, after, e) \in Pointers /\ SetPrev(m2, after, e).next = m2.next
          /\ \A x \in Elem : SetPrev(m2, after, e).prev[x] = IF x = after THEN e ELSE m2.prev[x]
      <4>1. after \in Elem /\ e \in Link /\ m2 \in Pointers
        BY <1>8, <1>12, <3>1
      <4> QED
        BY <4>1, SetPrevIs
    <3> QED
      BY <1>11, <2>2, <3>1, <3>2
  <2>3. CASE L # 1 /\ i # 1
    <3>1. back \in Elem
      BY <1>5
    <3>2. /\ SetPrev(m3, back, e) \in Pointers /\ SetPrev(m3, back, e).next = m3.next
          /\ \A x \in Elem : SetPrev(m3, back, e).prev[x] = IF x = back THEN e ELSE m3.prev[x]
      BY <1>8, <1>14, <3>1, SetPrevIs
    <3> QED
      BY <1>13, <2>3, <3>2
  <2> QED
    BY <2>1, <2>2, <2>3
<1> HIDE DEF n1
<1>18. \A x \in Elem : n1.next[x] =
         IF x = e THEN (IF L = 1 THEN EndOf(t, "double") ELSE n.next[s[i]])
         ELSE IF i > 1 /\ x = s[i - 1] THEN e
         ELSE IF "double" = "circular" /\ i = 1 /\ L > 1 /\ x = s[L] THEN e ELSE n.next[x]
  <2>1. EndOf(t, "double") = NULL /\ (L = 1 => after = NULL) /\ n.next[s[i]] = after
    BY <1>7 DEF EndOf, after, el
  <2>2. i > 1 => before = s[i - 1] /\ L # 1 /\ i # 1
    BY <1>3, <1>4
  <2>3. \A x \in Elem : m1.next[x] = IF x = e THEN after ELSE n.next[x]
    BY <1>9
  <2>4. \A x \in Elem : m3.next[x] = IF x = before THEN e ELSE m1.next[x]
    BY <1>11, <1>13
  <2>5. ASSUME i = 1, NEW x \in Elem PROVE n1.next[x] = IF x = e THEN after ELSE n.next[x]
    BY <1>17, <2>3, <2>5
  <2>6. ASSUME i # 1, NEW x \in Elem PROVE n1.next[x] = IF x = before THEN e ELSE IF x = e THEN after ELSE n.next[x]
    BY <1>3, <1>17, <2>3, <2>4, <2>6
  <2> QED
    BY <1>3, <1>5, <2>1, <2>2, <2>5, <2>6
<1>19. \A x \in Elem : n1.prev[x] =
         IF x = e THEN (IF L = 1 THEN e ELSE n.prev[s[i]])
         ELSE IF i < L /\ x = s[i + 1] THEN e
         ELSE IF i = L /\ L > 1 /\ x = s[1] THEN e ELSE n.prev[x]
  <2>1. n.prev[s[i]] = before
    BY DEF before, el
  <2>2. \A x \in Elem : m2.prev[x] = IF x = e THEN before ELSE n.prev[x]
    BY <1>9, <1>11
  <2>3. ASSUME L = 1, NEW x \in Elem PROVE n1.prev[x] = IF x = e THEN e ELSE n.prev[x]
    BY <1>9, <1>17, <2>3
  <2>4. ASSUME L # 1, NEW x \in Elem PROVE n1.prev[x] = IF x = back THEN e ELSE IF x = e THEN before ELSE n.prev[x]
    BY <1>17, <2>2, <2>4
  <2> QED
    BY <1>3, <1>5, <1>6, <2>1, <2>3, <2>4
<1>20. n1 \in Pointers /\ "double" \in {"double", "circular"}
  BY <1>17
<1>21. Makes(Result(n1, t[1]), n, Range(s) \cup {e}, t, "double")
  BY <1>2, <1>18, <1>19, <1>20, DoubleReplacement DEF L
<1>22. t[1] = IF i = 1 THEN e ELSE h
  BY <1>2, <1>3, <1>4 DEF Replacement, L
<1> QED
  BY <1>16, <1>21, <1>22 DEF t

-----------------------------------------------------------------------------
(* A node put into a circular list before the one at p, from the pointers alone. *)
CircularlyPut(n, n1, s, p, e, before) ==
  /\ Len(s) > 0 => before = IF p = 1 THEN s[Len(s)] ELSE s[p - 1]
  /\ \A x \in Elem : n1.next[x] = IF x = e THEN (IF Len(s) = 0 THEN e ELSE s[p])
                                  ELSE IF Len(s) > 0 /\ x = before THEN e ELSE n.next[x]
  /\ \A x \in Elem : n1.prev[x] = IF x = e THEN (IF Len(s) = 0 THEN e ELSE before)
                                  ELSE IF Len(s) > 0 /\ x = s[p] THEN e ELSE n.prev[x]

\* An insertion into a circular list, whatever macro makes it.
LEMMA CircularInsertion ==
  ASSUME NEW n \in Pointers, NEW h, NEW s, IsList(n, h, s, "circular"), NEW e \in Elem, e \notin Range(s),
         NEW p \in 1 .. Len(s) + 1, p <= Len(s) \/ p = 1, NEW t, Insertion(s, p, e, t), NEW n1 \in Pointers,
         NEW before, CircularlyPut(n, n1, s, p, e, before)
  PROVE  Makes(Result(n1, t[1]), n, Range(s) \cup {e}, t, "circular")
<1>0. /\ Len(s) > 0 => before = IF p = 1 THEN s[Len(s)] ELSE s[p - 1]
      /\ \A x \in Elem : n1.next[x] = IF x = e THEN (IF Len(s) = 0 THEN e ELSE s[p])
                                      ELSE IF Len(s) > 0 /\ x = before THEN e ELSE n.next[x]
      /\ \A x \in Elem : n1.prev[x] = IF x = e THEN (IF Len(s) = 0 THEN e ELSE before)
                                      ELSE IF Len(s) > 0 /\ x = s[p] THEN e ELSE n.prev[x]
  BY DEF CircularlyPut
<1> USE <1>0
<1> DEFINE L == Len(s)
<1>1. /\ L \in Nat /\ \A i \in 1 .. L : s[i] \in Elem /\ s[i] \in Range(s) /\ s[i] # e
      /\ \A i, j \in 1 .. L : s[i] = s[j] => i = j
      /\ \A i \in 1 .. L : n.next[s[i]] = IF i < L THEN s[i + 1] ELSE EndOf(s, "circular")
  BY ListFacts
<1>2. \A i \in 1 .. L : n.prev[s[i]] = IF i = 1 THEN s[L] ELSE s[i - 1]
  BY DoublePrevs
<1>3. EndOf(s, "circular") = s[1] /\ EndOf(t, "circular") = t[1] /\ "circular" \in Kinds \ {"app"}
  BY DEF EndOf, Kinds
<1>4. /\ L \in Nat /\ p \in Nat /\ 1 <= p /\ (L = 0 => p = 1) /\ (L > 0 => p \in 1 .. L /\ 1 \in 1 .. L /\ L \in 1 .. L)
      /\ (L > 0 <=> L # 0) /\ (p # 1 => p - 1 \in 1 .. L /\ L > 0) /\ (p # 1 <=> p > 1)
  <2>1. L \in Nat /\ p \in Nat /\ 1 <= p /\ (p <= L \/ p = 1)
    BY <1>1
  <2> HIDE DEF L
  <2> QED
    BY <2>1
<1>5. t[1] = (IF p = 1 THEN e ELSE s[1]) /\ (L > 0 => t[L + 1] = s[L])
  BY <1>4 DEF Insertion
<1>6. n1.next[e] = IF p <= L THEN s[p] ELSE EndOf(t, "circular")
  <2>1. L > 0 <=> p <= L
    BY <1>4
  <2>2. L = 0 => EndOf(t, "circular") = e
    BY <1>3, <1>4, <1>5
  <2> QED
    BY <1>4, <2>1, <2>2
<1>7. ASSUME NEW i \in 1 .. L
      PROVE  n1.next[s[i]] = IF i = p - 1 THEN e ELSE IF i = L THEN EndOf(t, "circular") ELSE s[i + 1]
  <2>1. L > 0 /\ (i # L <=> i < L)
    BY <1>1
  <2>2. n1.next[s[i]] = IF s[i] = before THEN e ELSE n.next[s[i]]
    BY <1>1, <2>1
  <2>3. s[i] = before <=> i = (IF p = 1 THEN L ELSE p - 1)
    BY <1>1, <1>4, <2>1
  <2>4. n.next[s[i]] = IF i < L THEN s[i + 1] ELSE s[1]
    BY <1>1, <1>3
  <2>5. p = 1 => i # p - 1
    BY <1>1
  <2> QED
    BY <1>3, <1>5, <2>1, <2>2, <2>3, <2>4, <2>5
<1>8. InsertedNext(n1, s, p, e, t, "circular")
  BY <1>6, <1>7 DEF InsertedNext
<1>9. n1.prev[e] = IF p = 1 THEN t[L + 1] ELSE s[p - 1]
  <2>1. L = 0 => t[L + 1] = e /\ p = 1
    <3>1. L = 0 => L + 1 = 1
      OBVIOUS
    <3> QED
      BY <1>4, <1>5, <3>1
  <2> QED
    BY <1>4, <1>5, <2>1
<1>10. ASSUME NEW i \in 1 .. L
       PROVE  n1.prev[s[i]] = IF i = p THEN e ELSE IF i = 1 THEN t[L + 1] ELSE s[i - 1]
  <2>1. L > 0
    BY <1>1
  <2>2. n1.prev[s[i]] = IF s[i] = s[p] THEN e ELSE n.prev[s[i]]
    BY <1>1, <2>1
  <2>3. s[i] = s[p] <=> i = p
    BY <1>1, <1>4, <2>1
  <2> QED
    BY <1>2, <1>5, <2>1, <2>2, <2>3
<1>11. InsertedPrev(n1, s, p, e, t)
  BY <1>9, <1>10 DEF InsertedPrev
<1>12. IsList(n1, t[1], t, "circular")
  BY <1>3, <1>8, <1>11, InsertLinks
<1>13. SameOutside(n, n1, Range(s) \cup {e})
  <2> SUFFICES ASSUME NEW x \in Elem, x \notin Range(s), x # e
               PROVE  n1.next[x] = n.next[x] /\ n1.prev[x] = n.prev[x]
    BY DEF SameOutside
  <2>1. L > 0 => x # before /\ x # s[p]
    BY <1>1, <1>4
  <2> QED
    BY <2>1
<1> QED
  BY <1>12, <1>13 DEF Makes, Result

(* CDL_PREPEND2 puts a node before the head, CDL_PREPEND_ELEM before the one that it names. *)
LEMMA CircularPrepend ==
  ASSUME NEW n \in Pointers, NEW h, NEW s, IsList(n, h, s, "circular"), NEW e \in Elem, e \notin Range(s)
  PROVE  Makes(CDL_PREPEND2(n, h, e), n, Range(s) \cup {e}, <<e>> \o s, "circular")
<1> DEFINE L == Len(s)
           t == <<e>> \o s
           before == n.prev[h]
<1>1. /\ Distinct(s) /\ L \in Nat /\ (h = NULL <=> s = <<>>) /\ (s = <<>> <=> L = 0)
      /\ (s # <<>> => h = s[1] /\ 1 \in 1 .. L /\ L \in 1 .. L)
      /\ \A i \in 1 .. L : s[i] \in Elem /\ s[i] # e
  BY ListFacts
<1>2. Insertion(s, 1, e, t)
  BY <1>1, ConsIs
<1>3. e \in Link /\ 1 \in 1 .. L + 1 /\ (L = 0 <=> ~(L > 0))
  BY <1>1 DEF Link
<1>4. t[1] = e
  BY <1>2 DEF Insertion
<1> HIDE DEF t
<1>5. CASE s = <<>>
  <2> DEFINE m1 == SetPrev(n, e, e)
             n1 == SetNext(m1, e, e)
  <2>1. CDL_PREPEND2(n, h, e) = Result(n1, e)
    BY <1>1, <1>5 DEF CDL_PREPEND2
  <2>2. m1 \in Pointers /\ m1.next = n.next /\ \A x \in Elem : m1.prev[x] = IF x = e THEN e ELSE n.prev[x]
    BY <1>3, SetPrevIs
  <2> HIDE DEF m1
  <2>3. n1 \in Pointers /\ n1.prev = m1.prev /\ \A x \in Elem : n1.next[x] = IF x = e THEN e ELSE m1.next[x]
    <3>1. m1 \in Pointers
      BY <2>2
    <3> QED
      BY <1>3, <3>1, SetNextIs
  <2> HIDE DEF n1
  <2>4. L = 0 /\ ~(L > 0)
    BY <1>1, <1>3, <1>5
  <2>5. \A x \in Elem : n1.next[x] = IF x = e THEN (IF L = 0 THEN e ELSE s[1])
                                     ELSE IF L > 0 /\ x = NULL THEN e ELSE n.next[x]
    BY <2>2, <2>3, <2>4
  <2>6. \A x \in Elem : n1.prev[x] = IF x = e THEN (IF L = 0 THEN e ELSE NULL)
                                     ELSE IF L > 0 /\ x = s[1] THEN e ELSE n.prev[x]
    BY <2>2, <2>3, <2>4
  <2>7. n1 \in Pointers /\ (L > 0 => NULL = IF 1 = 1 THEN s[L] ELSE s[1 - 1])
    BY <2>3, <2>4
  <2>8. Makes(Result(n1, t[1]), n, Range(s) \cup {e}, t, "circular")
    <3>1. CircularlyPut(n, n1, s, 1, e, NULL)
      BY <2>5, <2>6, <2>7 DEF CircularlyPut
    <3>2. n1 \in Pointers /\ 1 \in 1 .. Len(s) + 1
      BY <1>3, <2>7
    <3> QED
      BY <1>2, <3>1, <3>2, CircularInsertion
  <2> QED
    BY <1>4, <2>1, <2>8 DEF t
<1>6. CASE s # <<>>
  <2> DEFINE m1 == SetPrev(n, e, before)
             m2 == SetNext(m1, e, h)
             m3 == SetPrev(m2, h, e)
             n1 == SetNext(m3, before, e)
  <2>1. /\ h = s[1] /\ h # NULL /\ h \in Elem /\ h \in Link /\ h # e
        /\ before = s[L] /\ before \in Elem /\ before \in Link /\ before # e
    BY <1>1, <1>6, DoublePrevs DEF Link
  <2>2. e \in Link /\ h \in Elem /\ h \in Link /\ before \in Elem /\ before \in Link
    BY <1>3, <2>1
  <2> HIDE DEF before
  <2>3. m1 \in Pointers /\ m1.next = n.next /\ \A x \in Elem : m1.prev[x] = IF x = e THEN before ELSE n.prev[x]
    BY <2>2, SetPrevIs
  <2> HIDE DEF m1
  <2>4. m2 \in Pointers /\ m2.prev = m1.prev /\ \A x \in Elem : m2.next[x] = IF x = e THEN h ELSE m1.next[x]
    <3>1. m1 \in Pointers
      BY <2>3
    <3> QED
      BY <2>2, <3>1, SetNextIs
  <2> HIDE DEF m2
  <2>5. m3 \in Pointers /\ m3.next = m2.next /\ \A x \in Elem : m3.prev[x] = IF x = h THEN e ELSE m2.prev[x]
    <3>1. m2 \in Pointers
      BY <2>4
    <3> QED
      BY <2>2, <3>1, SetPrevIs
  <2>6. m3.prev[e] = before
    BY <2>1, <2>3, <2>4, <2>5
  <2>7. CDL_PREPEND2(n, h, e) = Result(n1, e)
    BY <2>1, <2>6 DEF CDL_PREPEND2, m1, m2, m3, before
  <2> HIDE DEF m3
  <2>8. n1 \in Pointers /\ n1.prev = m3.prev /\ \A x \in Elem : n1.next[x] = IF x = before THEN e ELSE m3.next[x]
    <3>1. m3 \in Pointers
      BY <2>5
    <3> QED
      BY <2>2, <3>1, SetNextIs
  <2> HIDE DEF n1
  <2>9. L > 0 /\ L # 0
    BY <1>1, <1>3, <1>6
  <2>10. \A x \in Elem : n1.next[x] = IF x = e THEN (IF L = 0 THEN e ELSE s[1])
                                      ELSE IF L > 0 /\ x = before THEN e ELSE n.next[x]
    BY <2>1, <2>3, <2>4, <2>5, <2>8, <2>9
  <2>11. \A x \in Elem : n1.prev[x] = IF x = e THEN (IF L = 0 THEN e ELSE before)
                                      ELSE IF L > 0 /\ x = s[1] THEN e ELSE n.prev[x]
    BY <2>1, <2>3, <2>4, <2>5, <2>8, <2>9
  <2>12. n1 \in Pointers /\ (L > 0 => before = IF 1 = 1 THEN s[L] ELSE s[1 - 1])
    BY <2>1, <2>8
  <2>13. Makes(Result(n1, t[1]), n, Range(s) \cup {e}, t, "circular")
    <3>1. CircularlyPut(n, n1, s, 1, e, before)
      BY <2>10, <2>11, <2>12 DEF CircularlyPut
    <3>2. n1 \in Pointers /\ 1 \in 1 .. Len(s) + 1
      BY <1>3, <2>12
    <3> QED
      BY <1>2, <3>1, <3>2, CircularInsertion
  <2> QED
    BY <1>4, <2>7, <2>13 DEF t
<1> QED
  BY <1>5, <1>6

\* CDL_PREPEND_ELEM puts the node before the one it names.
LEMMA CircularPrependElem ==
  ASSUME NEW n \in Pointers, NEW h, NEW s, IsList(n, h, s, "circular"), NEW i \in 1 .. Len(s),
         NEW e \in Elem, e \notin Range(s)
  PROVE  Makes(CDL_PREPEND_ELEM(n, h, s[i], e), n, Range(s) \cup {e}, InsertBefore(s, s[i], e), "circular")
<1> DEFINE L == Len(s)
           t == InsertBefore(s, s[i], e)
           el == s[i]
           before == n.prev[el]
           m1 == SetNext(n, e, el)
           m2 == SetPrev(m1, e, before)
           m3 == SetPrev(m2, el, e)
           n1 == SetNext(m3, before, e)
<1>1. /\ Distinct(s) /\ L \in Nat /\ (s = <<>> <=> L = 0) /\ (s # <<>> => h = s[1])
      /\ \A j \in 1 .. L : s[j] \in Elem /\ s[j] \in Range(s) /\ s[j] # e
      /\ \A j, k \in 1 .. L : s[j] = s[k] => j = k
  BY ListFacts
<1>2. Insertion(s, i, e, t)
  BY <1>1, InsteadIs
<1>3. /\ L \in Nat /\ i \in Nat /\ 1 <= i /\ i <= L /\ 1 \in 1 .. L /\ L \in 1 .. L /\ L > 0 /\ L # 0
      /\ (i # 1 => i - 1 \in 1 .. L) /\ (i # 1 => 1 < i) /\ i \in 1 .. L + 1
  <2>1. L \in Nat /\ i \in Nat /\ 1 <= i /\ i <= L
    BY <1>1
  <2> HIDE DEF L
  <2> QED
    BY <2>1
<1>4. before = (IF i = 1 THEN s[L] ELSE s[i - 1]) /\ h = s[1]
  BY <1>1, <1>3, DoublePrevs
<1>5. /\ el \in Elem /\ el # e /\ el \in Link /\ e \in Link /\ (h = el <=> i = 1)
      /\ before \in Elem /\ before # e /\ before \in Link
  <2>1. el \in Elem /\ el # e /\ (h = el <=> i = 1)
    BY <1>1, <1>3, <1>4
  <2>2. before \in Elem /\ before # e
    BY <1>1, <1>3, <1>4
  <2> QED
    BY <2>1, <2>2 DEF Link
<1>6. e \in Link /\ el \in Link /\ el \in Elem /\ before \in Link /\ before \in Elem
  BY <1>5
<1> HIDE DEF el, before, t, L
<1>7. m1 \in Pointers /\ m1.prev = n.prev /\ \A x \in Elem : m1.next[x] = IF x = e THEN el ELSE n.next[x]
  BY <1>6, SetNextIs
<1> HIDE DEF m1
<1>8. m2 \in Pointers /\ m2.next = m1.next /\ \A x \in Elem : m2.prev[x] = IF x = e THEN before ELSE m1.prev[x]
  <2>1. m1 \in Pointers
    BY <1>7
  <2> QED
    BY <1>6, <2>1, SetPrevIs
<1> HIDE DEF m2
<1>9. m3 \in Pointers /\ m3.next = m2.next /\ \A x \in Elem : m3.prev[x] = IF x = el THEN e ELSE m2.prev[x]
  <2>1. m2 \in Pointers
    BY <1>8
  <2> QED
    BY <1>6, <2>1, SetPrevIs
<1>10. m3.prev[e] = before
  BY <1>5, <1>8, <1>9
<1>11. CDL_PREPEND_ELEM(n, h, s[i], e) = Result(n1, IF h = el THEN e ELSE h)
  BY <1>10 DEF CDL_PREPEND_ELEM, m1, m2, m3, before, el
<1> HIDE DEF m3
<1>12. n1 \in Pointers /\ n1.prev = m3.prev /\ \A x \in Elem : n1.next[x] = IF x = before THEN e ELSE m3.next[x]
  <2>1. m3 \in Pointers
    BY <1>9
  <2> QED
    BY <1>6, <2>1, SetNextIs
<1> HIDE DEF n1
<1>13. \A x \in Elem : n1.next[x] = IF x = e THEN (IF L = 0 THEN e ELSE s[i])
                                    ELSE IF L > 0 /\ x = before THEN e ELSE n.next[x]
  BY <1>3, <1>5, <1>7, <1>8, <1>9, <1>12 DEF el
<1>14. \A x \in Elem : n1.prev[x] = IF x = e THEN (IF L = 0 THEN e ELSE before)
                                    ELSE IF L > 0 /\ x = s[i] THEN e ELSE n.prev[x]
  BY <1>3, <1>5, <1>7, <1>8, <1>9, <1>12 DEF el
<1>15. n1 \in Pointers /\ (L > 0 => before = IF i = 1 THEN s[L] ELSE s[i - 1]) /\ (i <= L \/ i = 1)
  BY <1>3, <1>4, <1>12
<1>16. Makes(Result(n1, t[1]), n, Range(s) \cup {e}, t, "circular")
  <2>1. CircularlyPut(n, n1, s, i, e, before)
    BY <1>13, <1>14, <1>15 DEF CircularlyPut, L
  <2>2. n1 \in Pointers /\ i \in 1 .. Len(s) + 1 /\ (i <= Len(s) \/ i = 1)
    BY <1>3, <1>15 DEF L
  <2> QED
    BY <1>2, <2>1, <2>2, CircularInsertion
<1>17. t[1] = IF h = el THEN e ELSE h
  BY <1>2, <1>3, <1>4, <1>5 DEF Insertion, L
<1> QED
  BY <1>11, <1>16, <1>17 DEF t

-----------------------------------------------------------------------------
(* CDL_DELETE2 takes a node out of its list. *)
LEMMA CircularDeletion ==
  ASSUME NEW n \in Pointers, NEW h, NEW s, IsList(n, h, s, "circular"), NEW e \in Range(s)
  PROVE  Makes(CDL_DELETE2(n, h, e), n, Range(s), Without(s, e), "circular")
<1> DEFINE L == Len(s)
           t == Without(s, e)
           before == n.prev[e]
           after == n.next[e]
           m1 == SetPrev(n, after, before)
           n1 == SetNext(m1, before, after)
<1>1. /\ Distinct(s) /\ L \in Nat /\ (s = <<>> <=> L = 0)
      /\ (s # <<>> => h = s[1] /\ 1 \in 1 .. L /\ L \in 1 .. L) /\ Range(s) = {s[j] : j \in 1 .. L}
      /\ \A j \in 1 .. L : s[j] \in Elem /\ s[j] \in Range(s) /\ s[j] # NULL
      /\ \A j, k \in 1 .. L : s[j] = s[k] => j = k
      /\ \A j \in 1 .. L : n.next[s[j]] = IF j < L THEN s[j + 1] ELSE EndOf(s, "circular")
  BY ListFacts
<1>2. PICK i \in 1 .. L : s[i] = e
  BY <1>1
<1>3. Removal(s, i, t)
  BY <1>1, <1>2, WithoutIs
<1>4. /\ L \in Nat /\ i \in Nat /\ 1 <= i /\ i <= L /\ 1 \in 1 .. L /\ L \in 1 .. L /\ L # 0
      /\ (i > 1 => i - 1 \in 1 .. L /\ i - 1 # i) /\ (i < L => i + 1 \in 1 .. L /\ i + 1 # i)
      /\ (i # L <=> i < L) /\ (i # 1 <=> i > 1)
      /\ (L = 1 => i = 1 /\ i = L) /\ (L # 1 <=> L > 1) /\ (L > 1 /\ i = 1 => i < L /\ i + 1 = 2)
  <2>1. L \in Nat /\ i \in Nat /\ 1 <= i /\ i <= L
    BY <1>1
  <2> HIDE DEF L
  <2> QED
    BY <2>1
<1>5. h = s[1]
  BY <1>1, <1>4
<1>6. /\ t = <<>> <=> L = 1
      /\ i > 1 => t # <<>> /\ t[1] = s[1]
      /\ i = 1 /\ t # <<>> => 2 \in 1 .. L /\ t[1] = s[2] /\ 1 < L
  BY <1>3, HeadOfRemoval
<1>7. before = IF i = 1 THEN s[L] ELSE s[i - 1]
  BY <1>2, DoublePrevs
<1>8. after = IF i < L THEN s[i + 1] ELSE s[1]
  BY <1>1, <1>2 DEF EndOf
<1>9. /\ before \in Elem /\ before \in Link /\ before \in Range(s) /\ e \in Elem
      /\ after \in Elem /\ after \in Link /\ after \in Range(s)
  <2>1. before \in Elem /\ before \in Range(s) /\ after \in Elem /\ after \in Range(s) /\ e \in Elem
    BY <1>1, <1>2, <1>4, <1>7, <1>8
  <2> QED
    BY <2>1 DEF Link
<1>10. (after = e <=> L = 1) /\ (e = h <=> i = 1)
  <2>1. i < L => s[i + 1] # s[i] /\ L # 1
    BY <1>1, <1>4
  <2>2. i = L => (s[1] = s[i] <=> L = 1)
    BY <1>1, <1>4
  <2> QED
    BY <1>1, <1>2, <1>4, <1>5, <1>8, <2>1, <2>2
<1>11. h # e => L # 1
  BY <1>4, <1>10
<1> HIDE DEF before, after, t
<1>12. CASE L = 1
  <2>1. CDL_DELETE2(n, h, e) = Result(n, NULL)
    BY <1>10, <1>11, <1>12 DEF CDL_DELETE2, after
  <2>2. SameOutside(n, n, Range(s)) /\ t = <<>> /\ ~(L > 1)
    BY <1>6, <1>12 DEF SameOutside
  <2>3. "circular" \in {"double", "circular"} /\ NULL = IF t = <<>> THEN NULL ELSE t[1]
    BY <2>2
  <2>4. Makes(Result(n, NULL), n, Range(s), t, "circular")
    BY <1>3, <2>2, <2>3, DoubleRemoval
  <2> QED
    BY <2>1, <2>4 DEF t
<1>13. CASE L # 1
  <2>1. after # e /\ L > 1
    BY <1>4, <1>10, <1>13
  <2>2. m1 \in Pointers /\ m1.next = n.next /\ \A x \in Elem : m1.prev[x] = IF x = after THEN before ELSE n.prev[x]
    BY <1>9, SetPrevIs
  <2>3. m1.prev[e] = before /\ m1.next[e] = after
    BY <1>9, <2>1, <2>2 DEF before, after
  <2>4. ~(h = e /\ n.next[h] = h)
    BY <2>1 DEF after
  <2>5. CDL_DELETE2(n, h, e) = Result(SetNext(m1, m1.prev[e], m1.next[e]), IF h = e THEN after ELSE h)
    BY <2>4 DEF CDL_DELETE2, before, after
  <2> HIDE DEF m1
  <2>6. CDL_DELETE2(n, h, e) = Result(n1, IF h = e THEN after ELSE h)
    BY <2>3, <2>5
  <2>7. n1 \in Pointers /\ n1.prev = m1.prev /\ \A x \in Elem : n1.next[x] = IF x = before THEN after ELSE m1.next[x]
    <3>1. m1 \in Pointers /\ before \in Elem /\ after \in Link
      BY <1>9, <2>2
    <3> QED
      BY <3>1, SetNextIs
  <2> HIDE DEF n1
  <2>8. \A x \in Elem : n1.next[x] = IF i > 1 /\ x = s[i - 1] THEN n.next[s[i]]
                                     ELSE IF "circular" = "circular" /\ i = 1 /\ x = s[L] THEN s[2] ELSE n.next[x]
    <3>1. \A x \in Elem : n1.next[x] = IF x = before THEN after ELSE n.next[x]
      BY <2>2, <2>7
    <3>2. n.next[s[i]] = after /\ (i = 1 => after = s[2])
      BY <1>2, <1>4, <1>8, <2>1 DEF after
    <3> QED
      BY <1>4, <1>7, <3>1, <3>2
  <2>9. \A x \in Elem : n1.prev[x] = IF i < L /\ x = s[i + 1] THEN (IF i = 1 THEN s[L] ELSE s[i - 1])
                                     ELSE IF i = L /\ x = s[1] THEN s[i - 1] ELSE n.prev[x]
    <3>1. i = L => i # 1
      BY <1>13
    <3> QED
      BY <1>4, <1>7, <1>8, <2>2, <2>7, <3>1
  <2>10. (IF h = e THEN after ELSE h) = IF t = <<>> THEN NULL ELSE t[1]
    BY <1>4, <1>5, <1>6, <1>8, <1>10, <2>1
  <2>11. "circular" \in {"double", "circular"} /\ n1 \in Pointers /\ ~(L = 1)
    BY <1>13, <2>7
  <2>12. Makes(Result(n1, IF h = e THEN after ELSE h), n, Range(s), t, "circular")
    BY <1>3, <2>8, <2>9, <2>10, <2>11, DoubleRemoval
  <2> QED
    BY <2>6, <2>12 DEF t
<1> QED
  BY <1>12, <1>13

(* CDL_REPLACE_ELEM puts a node in place of one of the list. *)
LEMMA CircularReplace ==
  ASSUME NEW n \in Pointers, NEW h, NEW s, IsList(n, h, s, "circular"), NEW i \in 1 .. Len(s),
         NEW e \in Elem, e \notin Range(s)
  PROVE  Makes(CDL_REPLACE_ELEM(n, h, s[i], e), n, Range(s) \cup {e}, InsteadOf(s, s[i], e), "circular")
<1> DEFINE L == Len(s)
           t == InsteadOf(s, s[i], e)
           el == s[i]
           before == n.prev[el]
           after == n.next[el]
<1>1. /\ Distinct(s) /\ L \in Nat /\ (s = <<>> <=> L = 0)
      /\ (s # <<>> => h = s[1])
      /\ \A j \in 1 .. L : s[j] \in Elem /\ s[j] \in Range(s) /\ s[j] # e /\ s[j] # NULL
      /\ \A j, k \in 1 .. L : s[j] = s[k] => j = k
      /\ \A j \in 1 .. L : n.next[s[j]] = IF j < L THEN s[j + 1] ELSE EndOf(s, "circular")
  BY ListFacts
<1>2. Replacement(s, i, e, t)
  BY <1>1, InsteadIs
<1>3. /\ L \in Nat /\ i \in Nat /\ 1 <= i /\ i <= L /\ 1 \in 1 .. L /\ L \in 1 .. L /\ L # 0
      /\ (i > 1 => i - 1 \in 1 .. L) /\ (i < L => i + 1 \in 1 .. L /\ i + 1 # i) /\ (i # L <=> i < L) /\ (i # 1 <=> i > 1)
      /\ (L = 1 => i = 1 /\ i = L) /\ (L # 1 <=> L > 1)
  <2>1. L \in Nat /\ i \in Nat /\ 1 <= i /\ i <= L
    BY <1>1
  <2> HIDE DEF L
  <2> QED
    BY <2>1
<1>4. before = (IF i = 1 THEN s[L] ELSE s[i - 1]) /\ after = (IF i < L THEN s[i + 1] ELSE s[1]) /\ h = s[1]
  BY <1>1, <1>3, DoublePrevs DEF EndOf
<1>5. /\ el \in Elem /\ el # e /\ e \in Link /\ before \in Elem /\ before \in Link /\ before # e
      /\ after \in Elem /\ after \in Link /\ after # e
  <2>1. el \in Elem /\ el # e /\ before \in Elem /\ before # e /\ after \in Elem /\ after # e
    BY <1>1, <1>3, <1>4
  <2> HIDE DEF before, after, el
  <2> QED
    BY <2>1 DEF Link
<1>6. (after = el <=> L = 1) /\ (h = el <=> i = 1)
  <2>1. i < L => s[i + 1] # s[i] /\ L # 1
    BY <1>1, <1>3
  <2>2. i = L => (s[1] = s[i] <=> L = 1)
    BY <1>1, <1>3
  <2> QED
    BY <1>1, <1>3, <1>4, <2>1, <2>2
<1>7. t[1] = (IF i = 1 THEN e ELSE h) /\ EndOf(t, "circular") = t[1]
  BY <1>2, <1>3, <1>4 DEF Replacement, EndOf
<1> HIDE DEF el, before, after, t
<1>8. "circular" \in {"double", "circular"}
  OBVIOUS
<1>9. CASE L = 1
  <2> DEFINE m1 == SetNext(n, e, e)
             n1 == SetPrev(m1, e, e)
  <2>1. CDL_REPLACE_ELEM(n, h, el, e) = Result(n1, e)
    BY <1>6, <1>9 DEF CDL_REPLACE_ELEM, after
  <2>2. m1 \in Pointers /\ m1.prev = n.prev /\ \A x \in Elem : m1.next[x] = IF x = e THEN e ELSE n.next[x]
    BY <1>5, SetNextIs
  <2> HIDE DEF m1
  <2>3. n1 \in Pointers /\ n1.next = m1.next /\ \A x \in Elem : n1.prev[x] = IF x = e THEN e ELSE m1.prev[x]
    <3>1. m1 \in Pointers /\ e \in Elem /\ e \in Link
      BY <1>5, <2>2
    <3> QED
      BY <3>1, SetPrevIs
  <2> HIDE DEF n1
  <2>4. i = 1 /\ i = L /\ ~(i > 1) /\ ~(i < L) /\ ~(L > 1) /\ t[1] = e
    BY <1>3, <1>7, <1>9
  <2>5. \A x \in Elem : n1.next[x] =
          IF x = e THEN (IF L = 1 THEN EndOf(t, "circular") ELSE n.next[s[i]])
          ELSE IF i > 1 /\ x = s[i - 1] THEN e
          ELSE IF "circular" = "circular" /\ i = 1 /\ L > 1 /\ x = s[L] THEN e ELSE n.next[x]
    BY <1>7, <1>9, <2>2, <2>3, <2>4
  <2>6. \A x \in Elem : n1.prev[x] =
          IF x = e THEN (IF L = 1 THEN e ELSE n.prev[s[i]])
          ELSE IF i < L /\ x = s[i + 1] THEN e
          ELSE IF i = L /\ L > 1 /\ x = s[1] THEN e ELSE n.prev[x]
    BY <1>9, <2>2, <2>3, <2>4
  <2>7. n1 \in Pointers
    BY <2>3
  <2>8. Makes(Result(n1, t[1]), n, Range(s) \cup {e}, t, "circular")
    BY <1>2, <1>8, <2>5, <2>6, <2>7, DoubleReplacement
  <2> QED
    BY <2>1, <2>4, <2>8 DEF t, el
<1>10. CASE L # 1
  <2> DEFINE m1 == SetNext(n, e, after)
             m2 == SetPrev(m1, e, before)
             m3 == SetPrev(m2, after, e)
             n1 == SetNext(m3, before, e)
  <2>1. m1 \in Pointers /\ m1.prev = n.prev /\ \A x \in Elem : m1.next[x] = IF x = e THEN after ELSE n.next[x]
    BY <1>5, SetNextIs
  <2> HIDE DEF m1
  <2>2. m2 \in Pointers /\ m2.next = m1.next /\ \A x \in Elem : m2.prev[x] = IF x = e THEN before ELSE m1.prev[x]
    <3>1. m1 \in Pointers /\ e \in Elem /\ before \in Link
      BY <1>5, <2>1
    <3> QED
      BY <3>1, SetPrevIs
  <2> HIDE DEF m2
  <2>3. m3 \in Pointers /\ m3.next = m2.next /\ \A x \in Elem : m3.prev[x] = IF x = after THEN e ELSE m2.prev[x]
    <3>1. m2 \in Pointers /\ after \in Elem /\ e \in Link
      BY <1>5, <2>2
    <3> QED
      BY <3>1, SetPrevIs
  <2> HIDE DEF m3
  <2>4. n1 \in Pointers /\ n1.prev = m3.prev /\ \A x \in Elem : n1.next[x] = IF x = before THEN e ELSE m3.next[x]
    <3>1. m3 \in Pointers /\ before \in Elem /\ e \in Link
      BY <1>5, <2>3
    <3> QED
      BY <3>1, SetNextIs
  <2> HIDE DEF n1
  <2>5. m2.next[e] = after /\ m3.prev[e] = before
    BY <1>5, <2>1, <2>2, <2>3
  <2>6. CDL_REPLACE_ELEM(n, h, el, e) = Result(n1, IF h = el THEN e ELSE h)
    <3>1. n.next[el] # el
      BY <1>6, <1>10 DEF after
    <3>2. m2 = SetPrev(SetNext(n, e, n.next[el]), e, n.prev[el])
      BY DEF m2, m1, after, before
    <3>3. m3 = SetPrev(m2, m2.next[e], e) /\ n1 = SetNext(m3, m3.prev[e], e)
      BY <2>5 DEF m3, n1
    <3> QED
      BY <3>1, <3>2, <3>3 DEF CDL_REPLACE_ELEM
  <2>7. \A x \in Elem : n1.next[x] =
          IF x = e THEN (IF L = 1 THEN EndOf(t, "circular") ELSE n.next[s[i]])
          ELSE IF i > 1 /\ x = s[i - 1] THEN e
          ELSE IF "circular" = "circular" /\ i = 1 /\ L > 1 /\ x = s[L] THEN e ELSE n.next[x]
    <3>1. n.next[s[i]] = after
      BY DEF after, el
    <3>2. \A x \in Elem : n1.next[x] = IF x = before THEN e ELSE IF x = e THEN after ELSE n.next[x]
      BY <2>1, <2>2, <2>3, <2>4
    <3> QED
      BY <1>3, <1>4, <1>5, <1>10, <3>1, <3>2
  <2>8. \A x \in Elem : n1.prev[x] =
          IF x = e THEN (IF L = 1 THEN e ELSE n.prev[s[i]])
          ELSE IF i < L /\ x = s[i + 1] THEN e
          ELSE IF i = L /\ L > 1 /\ x = s[1] THEN e ELSE n.prev[x]
    <3>1. n.prev[s[i]] = before
      BY DEF before, el
    <3>2. \A x \in Elem : n1.prev[x] = IF x = after THEN e ELSE IF x = e THEN before ELSE n.prev[x]
      BY <2>1, <2>2, <2>3, <2>4
    <3> QED
      BY <1>3, <1>4, <1>5, <1>10, <3>1, <3>2
  <2>9. n1 \in Pointers
    BY <2>4
  <2>10. Makes(Result(n1, t[1]), n, Range(s) \cup {e}, t, "circular")
    BY <1>2, <1>8, <2>7, <2>8, <2>9, DoubleReplacement
  <2> QED
    BY <1>6, <1>7, <2>6, <2>10 DEF t, el
<1> QED
  BY <1>9, <1>10

-----------------------------------------------------------------------------
(* The nodes of the sequences that the macros leave. *)
LEMMA RangesAre ==
  ASSUME NEW s, Distinct(s)
  PROVE  /\ \A e \in Elem : e \notin Range(s) => Range(<<e>> \o s) = Range(s) \cup {e}
         /\ \A e \in Elem : e \notin Range(s) => Range(Append(s, e)) = Range(s) \cup {e}
         /\ \A x \in Range(s) : Range(Without(s, x)) = Range(s) \ {x}
         /\ \A x : x \notin Range(s) => Without(s, x) = s
         /\ \A x \in Range(s), e \in Elem : e \notin Range(s) =>
              Range(InsteadOf(s, x, e)) = (Range(s) \ {x}) \cup {e} /\ Range(InsertBefore(s, x, e)) = Range(s) \cup {e}
<1>1. Range(s) = {s[i] : i \in 1 .. Len(s)}
  BY DistinctRange
<1>2. ASSUME NEW e \in Elem, e \notin Range(s) PROVE Range(<<e>> \o s) = Range(s) \cup {e}
  <2>1. Insertion(s, 1, e, <<e>> \o s)
    BY <1>2, ConsIs
  <2> QED
    BY <2>1 DEF Insertion
<1>3. ASSUME NEW e \in Elem, e \notin Range(s) PROVE Range(Append(s, e)) = Range(s) \cup {e}
  <2>1. Insertion(s, Len(s) + 1, e, Append(s, e))
    BY <1>3, AppendIs
  <2> QED
    BY <2>1 DEF Insertion
<1>4. ASSUME NEW x \in Range(s) PROVE Range(Without(s, x)) = Range(s) \ {x}
  <2>1. PICK i \in 1 .. Len(s) : s[i] = x
    BY <1>1
  <2>2. Removal(s, i, Without(s, s[i]))
    BY <2>1, WithoutIs
  <2> QED
    BY <2>1, <2>2 DEF Removal
<1>5. ASSUME NEW x, x \notin Range(s) PROVE Without(s, x) = s
  BY <1>5 DEF Without
<1>6. ASSUME NEW x \in Range(s), NEW e \in Elem, e \notin Range(s)
      PROVE  Range(InsteadOf(s, x, e)) = (Range(s) \ {x}) \cup {e} /\ Range(InsertBefore(s, x, e)) = Range(s) \cup {e}
  <2>1. PICK i \in 1 .. Len(s) : s[i] = x
    BY <1>1
  <2>2. Replacement(s, i, e, InsteadOf(s, s[i], e)) /\ Insertion(s, i, e, InsertBefore(s, s[i], e))
    BY <1>6, InsteadIs
  <2> QED
    BY <2>1, <2>2 DEF Replacement, Insertion
<1> QED
  BY <1>2, <1>3, <1>4, <1>5, <1>6

-----------------------------------------------------------------------------
(***************************************************************************)
(* The two lists of a program that uses one kind of list: the pointers     *)
(* make each of them, and no node is in both.                              *)
(***************************************************************************)
ListsInv(kind) ==
  /\ nodes \in Pointers
  /\ head \in [List -> Link]
  /\ list \in [List -> Seq(Elem)]
  /\ \A l \in List : IsList(nodes, head[l], list[l], kind)
  /\ Range(list[1]) \cap Range(list[2]) = {}

\* A macro on list l that touches no node of another list keeps the lists.
LEMMA LeavesKeeps ==
  ASSUME NEW kind, ListsInv(kind), NEW l \in List, NEW S, NEW r, NEW t,
         Makes(r, nodes, S, t, kind), Range(t) \subseteq S,
         \A m \in List : m # l => S \cap Range(list[m]) = {},
         Leaves(l, r, t)
  PROVE  ListsInv(kind)'
<1>1. IsList(r.n, r.head, t, kind) /\ SameOutside(nodes, r.n, S) /\ r.n \in Pointers
  BY DEF Makes
<1>2. r.head \in Link /\ t \in Seq(Elem)
  BY <1>1, ListFacts
<1>3. nodes' \in Pointers /\ head' \in [List -> Link] /\ list' \in [List -> Seq(Elem)]
  BY <1>1, <1>2 DEF Leaves, ListsInv
<1>4. nodes' = r.n /\ \A m \in List : head'[m] = (IF m = l THEN r.head ELSE head[m])
                                       /\ list'[m] = (IF m = l THEN t ELSE list[m])
  BY DEF Leaves, ListsInv
<1>5. ASSUME NEW m \in List PROVE IsList(nodes', head'[m], list'[m], kind)
  <2>1. m # l => IsList(r.n, head[m], list[m], kind)
    <3> SUFFICES ASSUME m # l PROVE IsList(r.n, head[m], list[m], kind)
      OBVIOUS
    <3>1. IsList(nodes, head[m], list[m], kind) /\ Range(list[m]) \cap S = {}
      BY DEF ListsInv
    <3> QED
      BY <1>1, <3>1, ListFrame
  <2> QED
    BY <1>1, <1>4, <2>1
<1>6. Range(list'[1]) \cap Range(list'[2]) = {}
  BY <1>4 DEF List
<1> QED
  BY <1>3, <1>5, <1>6 DEF ListsInv

(* A node that goes from list 1 to the front of list 2. *)
LEMMA MovedKeeps ==
  ASSUME NEW kind, ListsInv(kind), loop.el \in Range(list[1]), NEW removed, NEW added,
         Makes(removed, nodes, Range(list[1]), Without(list[1], loop.el), kind),
         IsList(removed.n, head[2], list[2], kind) =>
           Makes(added, removed.n, Range(list[2]) \cup {loop.el}, <<loop.el>> \o list[2], kind),
         Moved(removed, added)
  PROVE  ListsInv(kind)'
<1>1. /\ IsList(nodes, head[1], list[1], kind) /\ IsList(nodes, head[2], list[2], kind)
      /\ Range(list[2]) \cap Range(list[1]) = {} /\ loop.el \notin Range(list[2])
  BY DEF ListsInv, List
<1>2. Distinct(list[1]) /\ Distinct(list[2]) /\ loop.el \in Elem
  BY <1>1, ListFacts
<1>3. SameOutside(nodes, removed.n, Range(list[1])) /\ IsList(removed.n, removed.head, Without(list[1], loop.el), kind)
  BY DEF Makes
<1>4. IsList(removed.n, head[2], list[2], kind)
  BY <1>1, <1>3, ListFrame
<1>5. /\ added.n \in Pointers /\ IsList(added.n, added.head, <<loop.el>> \o list[2], kind)
      /\ SameOutside(removed.n, added.n, Range(list[2]) \cup {loop.el})
  BY <1>4 DEF Makes
<1>6. /\ Range(Without(list[1], loop.el)) = Range(list[1]) \ {loop.el}
      /\ Range(<<loop.el>> \o list[2]) = Range(list[2]) \cup {loop.el}
  BY <1>1, <1>2, RangesAre
<1>7. Range(Without(list[1], loop.el)) \cap (Range(list[2]) \cup {loop.el}) = {}
  BY <1>1, <1>6
<1>8. IsList(added.n, removed.head, Without(list[1], loop.el), kind)
  <2> DEFINE t == Without(list[1], loop.el)
             S == Range(list[2]) \cup {loop.el}
  <2>1. IsList(removed.n, removed.head, t, kind) /\ SameOutside(removed.n, added.n, S) /\ Range(t) \cap S = {}
    BY <1>3, <1>5, <1>7
  <2> HIDE DEF t, S
  <2>2. IsList(added.n, removed.head, t, kind)
    BY <2>1, ListFrame
  <2> QED
    BY <2>2 DEF t
<1>9. /\ removed.head \in Link /\ added.head \in Link
      /\ Without(list[1], loop.el) \in Seq(Elem) /\ <<loop.el>> \o list[2] \in Seq(Elem)
  <2> DEFINE t == Without(list[1], loop.el)
             u == <<loop.el>> \o list[2]
  <2>1. IsList(added.n, removed.head, t, kind) /\ IsList(added.n, added.head, u, kind)
    BY <1>5, <1>8
  <2> HIDE DEF t, u
  <2>2. removed.head \in Link /\ t \in Seq(Elem)
    BY <2>1, ListFacts
  <2>3. added.head \in Link /\ u \in Seq(Elem)
    BY <2>1, ListFacts
  <2> QED
    BY <2>2, <2>3 DEF t, u
<1>10. nodes' \in Pointers /\ head' \in [List -> Link] /\ list' \in [List -> Seq(Elem)]
  BY <1>5, <1>9 DEF Moved, ListsInv
<1>11. /\ nodes' = added.n /\ head'[1] = removed.head /\ head'[2] = added.head
       /\ list'[1] = Without(list[1], loop.el) /\ list'[2] = <<loop.el>> \o list[2]
  BY DEF Moved, ListsInv, List
<1>12. \A m \in List : IsList(nodes', head'[m], list'[m], kind)
  BY <1>5, <1>8, <1>11 DEF List
<1>13. Range(list'[1]) \cap Range(list'[2]) = {}
  BY <1>6, <1>7, <1>11
<1> QED
  BY <1>10, <1>12, <1>13 DEF ListsInv

-----------------------------------------------------------------------------
(* Two lists that become one. *)
ConcatLeaves(r) ==
  /\ nodes' = r.n
  /\ head' = [head EXCEPT ![1] = r.head, ![2] = NULL]
  /\ list' = [list EXCEPT ![1] = @ \o list[2], ![2] = <<>>]

\* Joining list 2 to list 1 keeps the lists.
LEMMA ConcatKeeps ==
  ASSUME NEW kind \in Kinds \ {"app"}, ListsInv(kind), NEW r,
         Makes(r, nodes, Range(list[1]) \cup Range(list[2]), list[1] \o list[2], kind),
         ConcatLeaves(r)
  PROVE  ListsInv(kind)'
<1> DEFINE t == list[1] \o list[2]
           u == <<>>
<1>1. /\ nodes' = r.n /\ head'[1] = r.head /\ head'[2] = NULL /\ list'[1] = t /\ list'[2] = u
  BY DEF ConcatLeaves, ListsInv, List
<1>2. r.n \in Pointers /\ IsList(r.n, r.head, t, kind)
  BY DEF Makes
<1>3. IsList(r.n, NULL, u, kind)
  <2>1. Distinct(<<>>) /\ Len(<<>>) = 0 /\ 1 .. 0 = {}
    BY DEF Distinct
  <2>2. Follows(r.n.next, <<>>, EndOf(<<>>, kind))
    BY <2>1 DEF Follows
  <2> QED
    BY <2>1, <2>2 DEF IsList
<1> HIDE DEF t
<1>4. r.head \in Link /\ t \in Seq(Elem)
  BY <1>2, ListFacts
<1>5. NULL \in Link /\ u \in Seq(Elem) /\ Range(u) = {}
  <2>1. Range(u) = {}
    BY DEF Range
  <2> QED
    BY <2>1 DEF Link
<1> HIDE DEF u
<1>6. nodes' \in Pointers /\ head' \in [List -> Link] /\ list' \in [List -> Seq(Elem)]
  <2>1. list' = [list EXCEPT ![1] = t, ![2] = u]
    BY DEF ConcatLeaves, ListsInv, List, t, u
  <2> QED
    BY <1>2, <1>4, <1>5, <2>1 DEF ConcatLeaves, ListsInv
<1>7. \A m \in List : IsList(nodes', head'[m], list'[m], kind)
  BY <1>1, <1>2, <1>3 DEF List
<1>8. Range(list'[1]) \cap Range(list'[2]) = {}
  BY <1>1, <1>5
<1> QED
  BY <1>6, <1>7, <1>8 DEF ListsInv

-----------------------------------------------------------------------------
(***************************************************************************)
(* Lists that the pointers make are met by their users: these are the      *)
(* properties of the three kinds.                                          *)
(***************************************************************************)
LEMMA SingleIsFaithful ==
  ASSUME ListsInv("single")
  PROVE  LL_Faithful
<1>1. ASSUME NEW l \in List PROVE WalkTo(nodes, head[l], NULL) = list[l]
  <2>1. IsList(nodes, head[l], list[l], "single") /\ "single" \in Kinds /\ "single" # "circular"
    BY DEF ListsInv, Kinds
  <2> QED
    BY <2>1, WalksList
<1> QED
  BY <1>1 DEF LL_Faithful, LL_FOREACH2, LL_COUNT2, LL_SEARCH2

\* The two lists being well linked, the pointers of doubly-linked lists say what was put in.
LEMMA DoubleIsFaithful ==
  ASSUME ListsInv("double")
  PROVE  DL_Faithful
<1> SUFFICES ASSUME NEW l \in List
             PROVE  /\ WalkTo(nodes, head[l], NULL) = list[l]
                    /\ \A i \in DOMAIN list[l] :
                         nodes.prev[list[l][i]] = IF i = 1 THEN Last(list[l]) ELSE list[l][i - 1]
  BY DEF DL_Faithful, DL_FOREACH2, DL_COUNT2
<1> DEFINE s == list[l]
           h == head[l]
<1>1. IsList(nodes, h, s, "double")
  BY DEF ListsInv
<1> HIDE DEF s, h
<1>2. "double" \in Kinds /\ "double" # "circular" /\ "double" \in {"double", "circular"}
  BY DEF Kinds
<1>3. WalkTo(nodes, h, NULL) = s
  BY <1>1, <1>2, WalksList
<1>4. DOMAIN s = 1 .. Len(s)
  BY <1>1, ListFacts, LenProperties
<1>5. \A i \in 1 .. Len(s) : nodes.prev[s[i]] = IF i = 1 THEN s[Len(s)] ELSE s[i - 1]
  BY <1>1, <1>2, DoublePrevs
<1> QED
  BY <1>3, <1>4, <1>5 DEF s, h, Last

\* The index after i, going around.
LEMMA NextRound ==
  ASSUME NEW L \in Nat, NEW i \in 1 .. L
  PROVE  i % L = IF i < L THEN i ELSE 0
<1>1. L > 0 /\ i \in Nat /\ i >= 1 /\ i <= L
  OBVIOUS
<1>2. CASE i < L
  BY <1>1, <1>2
<1>3. CASE i = L
  BY <1>1, <1>3
<1> QED
  BY <1>1, <1>2, <1>3

\* The two lists being well linked, the pointers of circular lists say what was put in.
LEMMA CircularIsFaithful ==
  ASSUME ListsInv("circular")
  PROVE  CDL_Faithful
<1> SUFFICES ASSUME NEW l \in List
             PROVE  /\ WalkTo(nodes, head[l], head[l]) = list[l]
                    /\ \A i \in DOMAIN list[l] :
                         /\ nodes.next[list[l][i]] = list[l][(i % Len(list[l])) + 1]
                         /\ nodes.prev[list[l][(i % Len(list[l])) + 1]] = list[l][i]
  BY DEF CDL_Faithful, CDL_FOREACH2, CDL_COUNT2, CDL_SEARCH2
<1> DEFINE s == list[l]
           h == head[l]
           L == Len(s)
<1>1. IsList(nodes, h, s, "circular")
  BY DEF ListsInv
<1> HIDE DEF s, h
<1>2. "circular" \in Kinds /\ "circular" \in {"double", "circular"}
  BY DEF Kinds
<1>3. WalkTo(nodes, h, h) = s
  BY <1>1, <1>2, WalksList
<1>4. DOMAIN s = 1 .. L
  BY <1>1, ListFacts, LenProperties
<1>5. \A i \in 1 .. L : nodes.prev[s[i]] = IF i = 1 THEN s[L] ELSE s[i - 1]
  BY <1>1, <1>2, DoublePrevs
<1>6. L \in Nat /\ \A i \in 1 .. L : nodes.next[s[i]] = IF i < L THEN s[i + 1] ELSE s[1]
  BY <1>1, ListFacts DEF EndOf
<1>7. ASSUME NEW i \in 1 .. L
      PROVE  nodes.next[s[i]] = s[(i % L) + 1] /\ nodes.prev[s[(i % L) + 1]] = s[i]
  <2>1. i % L = IF i < L THEN i ELSE 0
    BY <1>6, NextRound
  <2> HIDE DEF L
  <2>2. CASE i < L
    <3>1. (i % L) + 1 = i + 1 /\ i + 1 \in 1 .. L /\ i + 1 # 1 /\ (i + 1) - 1 = i
      BY <1>6, <2>1, <2>2
    <3> QED
      BY <1>5, <1>6, <2>2, <3>1
  <2>3. CASE i = L
    <3>1. (i % L) + 1 = 1 /\ 1 \in 1 .. L /\ ~(i < L)
      BY <1>6, <2>1, <2>3
    <3> QED
      BY <1>5, <1>6, <2>3, <3>1
  <2>4. i < L \/ i = L
    BY <1>6
  <2> QED
    BY <2>2, <2>3, <2>4
<1> QED
  BY <1>3, <1>4, <1>7 DEF s, h

-----------------------------------------------------------------------------
(***************************************************************************)
(* A loop that began over the nodes over and is at the j-th of them: these *)
(* and the ones after it are the last nodes of the list s, whatever        *)
(* the body did to the ones before.                                        *)
(***************************************************************************)
Ahead(s, over, j) ==
  \E c \in Int :
    /\ j + c >= 1
    /\ Len(s) = Len(over) + c
    /\ \A i \in j .. Len(over) : s[i + c] = over[i]

\* What is ahead of a loop is in the list, linked as it was at the loop's beginning.
LEMMA AheadIs ==
  ASSUME NEW n, NEW h, NEW s, NEW kind, IsList(n, h, s, kind), NEW over, Distinct(over),
         NEW j \in 1 .. Len(over), Ahead(s, over, j)
  PROVE  /\ over[j] \in Range(s)
         /\ n.next[over[j]] = IF j < Len(over) THEN over[j + 1] ELSE EndOf(s, kind)
<1> DEFINE L == Len(over)
<1>1. PICK c \in Int : j + c >= 1 /\ Len(s) = L + c /\ \A i \in j .. L : s[i + c] = over[i]
  BY DEF Ahead
<1>2. L \in Nat /\ Len(s) \in Nat
  BY LenProperties, ListFacts DEF Distinct
<1>3. /\ j + c \in 1 .. Len(s) /\ j \in j .. L /\ (j < L => j + 1 \in j .. L /\ (j + 1) + c = (j + c) + 1)
      /\ (j < L <=> j + c < Len(s))
  <2>1. j \in Nat /\ j >= 1 /\ j <= L /\ L \in Nat /\ c \in Int /\ j + c >= 1 /\ Len(s) = L + c
    BY <1>1, <1>2
  <2> HIDE DEF L
  <2> QED
    BY <2>1
<1>4. s[j + c] = over[j] /\ (j < L => s[(j + c) + 1] = over[j + 1])
  BY <1>1, <1>3
<1>5. s[j + c] \in Range(s) /\ n.next[s[j + c]] = IF j + c < Len(s) THEN s[(j + c) + 1] ELSE EndOf(s, kind)
  BY <1>3, ListFacts
<1> QED
  BY <1>3, <1>4, <1>5

\* Going on keeps what is ahead.
LEMMA AheadStays ==
  ASSUME NEW s, NEW over, Distinct(over), NEW j \in 1 .. Len(over), Ahead(s, over, j)
  PROVE  Ahead(s, over, j + 1)
<1> DEFINE L == Len(over)
<1>1. PICK c \in Int : j + c >= 1 /\ Len(s) = L + c /\ \A i \in j .. L : s[i + c] = over[i]
  BY DEF Ahead
<1>2. L \in Nat
  BY LenProperties DEF Distinct
<1>3. (j + 1) + c >= 1 /\ \A i \in j + 1 .. L : i \in j .. L
  <2> HIDE DEF L
  <2> QED
    BY <1>1, <1>2
<1> QED
  BY <1>1, <1>3 DEF Ahead

\* Removing the node of this turn keeps what is ahead.
LEMMA AheadRemoves ==
  ASSUME NEW s, Distinct(s), NEW over, Distinct(over), NEW j \in 1 .. Len(over), Ahead(s, over, j)
  PROVE  Ahead(Without(s, over[j]), over, j + 1)
<1> DEFINE L == Len(over)
           t == Without(s, over[j])
<1>1. PICK c \in Int : j + c >= 1 /\ Len(s) = L + c /\ \A i \in j .. L : s[i + c] = over[i]
  BY DEF Ahead
<1>2. L \in Nat /\ Len(s) \in Nat /\ Range(s) = {s[i] : i \in 1 .. Len(s)}
  BY LenProperties, DistinctRange DEF Distinct
<1>3. /\ j \in Nat /\ j >= 1 /\ j <= L /\ j + c \in 1 .. Len(s) /\ j \in j .. L
      /\ \A i \in j + 1 .. L : i \in j .. L /\ i + (c - 1) \in 1 .. Len(s) - 1 /\ ~(i + (c - 1) < j + c)
                               /\ (i + (c - 1)) + 1 = i + c
      /\ c - 1 \in Int /\ (j + 1) + (c - 1) >= 1 /\ Len(s) - 1 = L + (c - 1)
  <2>1. j \in Nat /\ j >= 1 /\ j <= L /\ L \in Nat /\ c \in Int /\ j + c >= 1 /\ Len(s) = L + c
    BY <1>1, <1>2
  <2> HIDE DEF L
  <2> QED
    BY <2>1
<1>4. s[j + c] = over[j]
  BY <1>1, <1>3
<1>5. Removal(s, j + c, t)
  <2>1. s[j + c] \in Range(s)
    BY <1>2, <1>3
  <2>2. Removal(s, j + c, Without(s, s[j + c]))
    BY <1>3, <2>1, WithoutIs
  <2> QED
    BY <1>4, <2>2
<1> HIDE DEF t
<1>6. /\ Len(t) = Len(s) - 1
      /\ \A i \in 1 .. Len(s) - 1 : t[i] = IF i < j + c THEN s[i] ELSE s[i + 1]
  BY <1>5 DEF Removal
<1>7. ASSUME NEW i \in j + 1 .. L PROVE t[i + (c - 1)] = over[i]
  <2>1. t[i + (c - 1)] = s[(i + (c - 1)) + 1]
    BY <1>3, <1>6
  <2> QED
    BY <1>1, <1>3, <2>1
<1>8. Ahead(t, over, j + 1)
  BY <1>3, <1>6, <1>7 DEF Ahead
<1> QED
  BY <1>8 DEF t

-----------------------------------------------------------------------------
(***************************************************************************)
(* The loop that runs over list 1, at the j-th node of those it began with. *)
(***************************************************************************)
LoopAt(kind, j) ==
  /\ loop \in [el : Elem, tmp : Link, last : Link, visited : Seq(Elem), over : Seq(Elem)]
  /\ Distinct(loop.over)
  /\ j \in 1 .. Len(loop.over)
  /\ Len(loop.visited) = j - 1
  /\ \A i \in 1 .. j - 1 : loop.visited[i] = loop.over[i]
  /\ loop.el = loop.over[j]
  /\ kind = "circular" => loop.last = loop.over[Len(loop.over)]
  /\ j < Len(loop.over) => loop.tmp = loop.over[j + 1]
  /\ j = Len(loop.over) /\ kind # "circular" => loop.tmp = NULL
  /\ Ahead(list[1], loop.over, j)

LoopInv(kind) == loop = NoLoop \/ \E j \in Nat : LoopAt(kind, j)

\* The loop ends after the node that it is at.
LoopEnds(kind) == IF kind = "circular" THEN loop.el = loop.last ELSE loop.tmp = NULL

\* The loop's own condition is true at the last node of the list it began with, and only there.
LEMMA LoopEndsAt ==
  ASSUME NEW kind, NEW j \in Nat, LoopAt(kind, j)
  PROVE  LoopEnds(kind) <=> j = Len(loop.over)
<1> DEFINE over == loop.over
           L == Len(over)
<1>1. /\ L \in Nat /\ j \in 1 .. L /\ L \in 1 .. L /\ (j # L <=> j < L) /\ (j < L => j + 1 \in 1 .. L)
      /\ \A i \in 1 .. L : over[i] \in Elem
      /\ \A i, k \in 1 .. L : over[i] = over[k] => i = k
  <2>1. over \in Seq(Elem) /\ Distinct(over) /\ j \in 1 .. L
    BY DEF LoopAt
  <2> HIDE DEF over
  <2>2. L \in Nat /\ \A i \in 1 .. L : over[i] \in Elem
    BY <2>1, LenProperties, ElementOfSeq
  <2>3. \A i, k \in 1 .. L : over[i] = over[k] => i = k
    BY <2>1 DEF Distinct
  <2>4. j \in 1 .. L /\ L \in Nat
    BY <2>1, <2>2
  <2> HIDE DEF L
  <2>5. L \in 1 .. L /\ (j # L <=> j < L) /\ (j < L => j + 1 \in 1 .. L)
    BY <2>4
  <2> QED
    BY <2>2, <2>3, <2>4, <2>5
<1>2. loop.el = over[j]
  BY DEF LoopAt
<1>3. CASE kind = "circular"
  <2>1. loop.last = over[L]
    BY <1>3 DEF LoopAt
  <2> QED
    BY <1>1, <1>2, <1>3, <2>1 DEF LoopEnds
<1>4. CASE kind # "circular"
  <2>1. (j < L => loop.tmp = over[j + 1]) /\ (j = L => loop.tmp = NULL)
    BY <1>4 DEF LoopAt
  <2> QED
    BY <1>1, <1>4, <2>1, MergeSortAssumption DEF LoopEnds
<1> QED
  BY <1>3, <1>4

-----------------------------------------------------------------------------
ListKinds == {"single", "double", "circular"}

\* A loop begins at the first node.
LEMMA LoopBegins ==
  ASSUME NEW kind \in ListKinds, ListsInv(kind), NEW last \in Link,
         kind = "circular" => last = list[1][Len(list[1])],
         LoopBegin(last)
  PROVE  LoopInv(kind)'
<1> DEFINE s == list[1]
           h == head[1]
           L == Len(s)
<1>1. IsList(nodes, h, s, kind) /\ nodes \in Pointers
  BY DEF ListsInv, List
<1>2. h # NULL /\ loop' = [el |-> h, tmp |-> nodes.next[h], last |-> last, visited |-> <<>>, over |-> s]
      /\ nodes' = nodes /\ head' = head /\ list' = list
  BY DEF LoopBegin
<1> HIDE DEF s, h
<1>3. /\ Distinct(s) /\ s \in Seq(Elem) /\ L \in Nat /\ h = s[1] /\ 1 \in 1 .. L /\ h \in Elem
      /\ nodes.next[s[1]] = IF 1 < L THEN s[1 + 1] ELSE EndOf(s, kind)
  BY <1>1, <1>2, ListFacts
<1>4. nodes.next[h] \in Link
  BY <1>1, <1>3 DEF Pointers
<1>5. <<>> \in Seq(Elem) /\ Len(<<>>) = 1 - 1 /\ 1 .. 1 - 1 = {}
  OBVIOUS
<1>6. Ahead(s, s, 1)
  <2>1. \A i \in 1 .. L : i + 0 = i
    OBVIOUS
  <2>2. 0 \in Int /\ 1 + 0 >= 1 /\ L = L + 0
    BY <1>3
  <2> QED
    BY <2>1, <2>2 DEF Ahead
<1>7. 1 = L /\ kind # "circular" => nodes.next[h] = NULL
  <2>1. 1 = L => ~(1 < L)
    <3>1. L \in Nat
      BY <1>3
    <3> HIDE DEF L
    <3> QED
      BY <3>1
  <2>2. kind # "circular" => EndOf(s, kind) = NULL
    BY DEF EndOf
  <2> QED
    BY <1>3, <2>1, <2>2
<1>8. /\ loop'.el = h /\ loop'.tmp = nodes.next[h] /\ loop'.last = last /\ loop'.visited = <<>> /\ loop'.over = s
      /\ loop' \in [el : Elem, tmp : Link, last : Link, visited : Seq(Elem), over : Seq(Elem)]
  BY <1>2, <1>3, <1>4, <1>5
<1>9. list'[1] = s /\ (kind = "circular" => last = s[L])
  BY <1>2 DEF s
<1>10. LoopAt(kind, 1)'
  BY <1>3, <1>5, <1>6, <1>7, <1>8, <1>9 DEF LoopAt
<1> QED
  BY <1>10 DEF LoopInv

-----------------------------------------------------------------------------
\* What LoopVisitsAll asks of one step.
VisitsInOrder ==
  LET visited == Append(loop.visited, loop.el)
  IN IF NotLooping' THEN visited = loop.over ELSE IsPrefix(Append(visited, loop'.el), loop.over)

\* What a loop has visited after this turn.
LEMMA LoopVisited ==
  ASSUME NEW kind, NEW j \in Nat, LoopAt(kind, j)
  PROVE  LET v == Append(loop.visited, loop.el)
         IN /\ v \in Seq(Elem) /\ Len(v) = j /\ \A i \in 1 .. j : v[i] = loop.over[i]
            /\ j = Len(loop.over) => v = loop.over
            /\ j < Len(loop.over) => IsPrefix(Append(v, loop.over[j + 1]), loop.over)
<1> DEFINE over == loop.over
           vs == loop.visited
           v == Append(vs, loop.el)
           L == Len(over)
<1>1. /\ over \in Seq(Elem) /\ vs \in Seq(Elem) /\ loop.el \in Elem /\ j \in 1 .. L /\ Len(vs) = j - 1
      /\ \A i \in 1 .. j - 1 : vs[i] = over[i]
      /\ loop.el = over[j]
  BY DEF LoopAt
<1> HIDE DEF over, vs
<1>2. v \in Seq(Elem) /\ Len(v) = j
      /\ \A i \in 1 .. j : v[i] = IF i = j THEN loop.el ELSE vs[i]
  <2>1. v \in Seq(Elem) /\ Len(v) = Len(vs) + 1 /\ v[Len(vs) + 1] = loop.el
        /\ \A i \in 1 .. Len(vs) : v[i] = vs[i]
    BY <1>1, AppendProperties
  <2>2. (j - 1) + 1 = j /\ \A i \in 1 .. j : i # j => i \in 1 .. j - 1
    OBVIOUS
  <2> QED
    BY <1>1, <2>1, <2>2
<1>3. \A i \in 1 .. j : v[i] = over[i]
  <2>1. \A i \in 1 .. j : i # j => i \in 1 .. j - 1
    OBVIOUS
  <2> QED
    BY <1>1, <1>2, <2>1
<1> HIDE DEF v
<1>4. j = L => v = over
  BY <1>1, <1>2, <1>3, SeqEqual
<1>5. ASSUME j < L PROVE IsPrefix(Append(v, over[j + 1]), over)
  <2> DEFINE w == Append(v, over[j + 1])
  <2>0. L \in Nat /\ j + 1 \in 1 .. L
    <3>1. L \in Nat
      BY <1>1, LenProperties
    <3> QED
      BY <1>5, <3>1
  <2>1. over[j + 1] \in Elem
    BY <1>1, <2>0, ElementOfSeq
  <2>2. w \in Seq(Elem) /\ Len(w) = j + 1 /\ w[j + 1] = over[j + 1] /\ \A i \in 1 .. j : w[i] = v[i]
    BY <1>2, <2>1, AppendProperties
  <2> HIDE DEF w
  <2>3. \A i \in 1 .. j + 1 : w[i] = over[i]
    <3>1. \A i \in 1 .. j + 1 : i = j + 1 \/ i \in 1 .. j
      OBVIOUS
    <3> QED
      BY <1>3, <2>2, <3>1
  <2>4. SubSeq(w, 1, Len(w)) = w
    BY <2>2, WholePiece
  <2>5. SubSeq(over, 1, j + 1) = w
    <3> DEFINE u == SubSeq(over, 1, j + 1)
    <3>1. u \in Seq(Elem) /\ Len(u) = j + 1 /\ \A i \in 1 .. j + 1 : u[i] = over[i]
      <4>1. 1 \in 1 .. Len(over) + 1 /\ j + 1 \in 0 .. Len(over) /\ j + 1 \in Nat /\ 1 <= j + 1
        BY <2>0
      <4>2. u = [i \in 1 .. j + 1 |-> over[i]]
        <5>1. \A i \in 1 .. ((j + 1) - 1) + 1 : (i + 1) - 1 = i
          OBVIOUS
        <5>2. ((j + 1) - 1) + 1 = j + 1
          OBVIOUS
        <5> QED
          BY <1>1, <4>1, <5>1, <5>2
      <4>3. \A i \in 1 .. j + 1 : over[i] \in Elem
        <5>1. \A i \in 1 .. j + 1 : i \in 1 .. L
          BY <2>0
        <5> QED
          BY <1>1, <5>1, ElementOfSeq
      <4> HIDE DEF u
      <4> QED
        BY <4>1, <4>2, <4>3
    <3> HIDE DEF u
    <3> QED
      BY <2>2, <2>3, <3>1, SeqEqual DEF u
  <2>6. Len(w) <= Len(over)
    BY <2>0, <2>2
  <2>7. IsPrefix(w, over)
    BY <2>2, <2>4, <2>5, <2>6 DEF IsPrefix
  <2> QED
    BY <2>7 DEF w
<1> QED
  BY <1>2, <1>3, <1>4, <1>5 DEF v, vs, over
(* A turn of the loop: the body leaves the lists as they were or takes the *)
(* node at hand out of list 1.                                             *)
LEMMA LoopSteps ==
  ASSUME NEW kind \in ListKinds, ListsInv(kind), ListsInv(kind)', NEW j \in Nat, LoopAt(kind, j),
         list'[1] = list[1] \/ list'[1] = Without(list[1], loop.el),
         LoopStep(LoopEnds(kind))
  PROVE  LoopInv(kind)' /\ VisitsInOrder
<1> DEFINE over == loop.over
           v == Append(loop.visited, loop.el)
           L == Len(over)
<1>1. /\ Distinct(over) /\ over \in Seq(Elem) /\ L \in Nat /\ j \in 1 .. L /\ loop.el = over[j]
      /\ Ahead(list[1], over, j)
      /\ kind = "circular" => loop.last = over[L]
      /\ j < L => loop.tmp = over[j + 1]
      /\ loop \in [el : Elem, tmp : Link, last : Link, visited : Seq(Elem), over : Seq(Elem)]
  BY LenProperties DEF LoopAt
<1>2. /\ v \in Seq(Elem) /\ Len(v) = j /\ \A i \in 1 .. j : v[i] = over[i]
      /\ j = L => v = over
      /\ j < L => IsPrefix(Append(v, over[j + 1]), over)
  BY LoopVisited
<1>3. LoopEnds(kind) <=> j = L
  BY LoopEndsAt
<1>4. /\ IsList(nodes, head[1], list[1], kind) /\ IsList(nodes', head'[1], list'[1], kind)
      /\ nodes' \in Pointers
  BY DEF ListsInv, List
<1>5. CASE j = L
  <2>1. loop' = NoLoop
    BY <1>3, <1>5 DEF LoopStep
  <2>2. NotLooping'
    BY <2>1 DEF NoLoop, NotLooping
  <2> QED
    BY <1>2, <1>5, <2>1, <2>2 DEF LoopInv, VisitsInOrder
<1>6. CASE j # L
  <2>1. j < L /\ j + 1 \in 1 .. L /\ j + 1 \in Nat /\ (j + 1) - 1 = j
    BY <1>1, <1>6
  <2>2. over[j + 1] \in Elem
    BY <1>1, <2>1, ElementOfSeq
  <2>3. loop' = [loop EXCEPT !.visited = v, !.el = over[j + 1], !.tmp = nodes'.next[over[j + 1]]]
    <3>1. loop' = [loop EXCEPT !.visited = v, !.el = loop.tmp, !.tmp = nodes'.next[loop.tmp]]
      BY <1>3, <1>6 DEF LoopStep
    <3>2. loop.tmp = over[j + 1]
      BY <1>1, <2>1
    <3> HIDE DEF over, v
    <3> QED
      BY <3>1, <3>2
  <2> HIDE DEF v
  <2>4. nodes'.next[over[j + 1]] \in Link
    BY <1>4, <2>2 DEF Pointers
  <2>5. /\ loop' \in [el : Elem, tmp : Link, last : Link, visited : Seq(Elem), over : Seq(Elem)]
        /\ loop'.el = over[j + 1] /\ loop'.tmp = nodes'.next[over[j + 1]] /\ loop'.last = loop.last
        /\ loop'.visited = v /\ loop'.over = over
    BY <1>1, <1>2, <2>2, <2>3, <2>4
  <2>6. Ahead(list'[1], over, j + 1)
    <3>1. CASE list'[1] = list[1]
      <4> HIDE DEF over
      <4>1. Ahead(list[1], over, j + 1)
        BY <1>1, AheadStays
      <4> QED
        BY <3>1, <4>1
    <3>2. CASE list'[1] = Without(list[1], loop.el)
      <4>1. Distinct(list[1])
        BY <1>4, ListFacts
      <4> HIDE DEF over
      <4>2. Ahead(Without(list[1], over[j]), over, j + 1)
        BY <1>1, <4>1, AheadRemoves
      <4> QED
        BY <1>1, <3>2, <4>2
    <3> QED
      BY <3>1, <3>2
  <2>7. nodes'.next[over[j + 1]] = IF j + 1 < L THEN over[(j + 1) + 1] ELSE EndOf(list'[1], kind)
    <3> DEFINE n == nodes'
               h == head'[1]
               s == list'[1]
               k == j + 1
    <3>1. IsList(n, h, s, kind) /\ Distinct(over) /\ k \in 1 .. Len(over) /\ Ahead(s, over, k)
      BY <1>1, <1>4, <2>1, <2>6
    <3> HIDE DEF n, h, s, k, over
    <3>2. n.next[over[k]] = IF k < Len(over) THEN over[k + 1] ELSE EndOf(s, kind)
      BY <3>1, AheadIs
    <3> QED
      BY <3>2 DEF n, s, k
  <2>8. LoopAt(kind, j + 1)'
    <3>1. j + 1 = L => ~(j + 1 < L)
      BY <1>1
    <3>2. kind # "circular" => EndOf(list'[1], kind) = NULL
      BY DEF EndOf
    <3> QED
      BY <1>1, <1>2, <2>1, <2>5, <2>6, <2>7, <3>1, <3>2 DEF LoopAt
  <2>9. ~NotLooping'
    BY <2>2, <2>5, MergeSortAssumption DEF NotLooping
  <2> QED
    BY <1>2, <2>1, <2>5, <2>8, <2>9 DEF LoopInv, VisitsInOrder, v
<1> QED
  BY <1>5, <1>6

-----------------------------------------------------------------------------
\* The lists and the free nodes have no node in common.
LEMMA Apart ==
  ASSUME NEW kind, ListsInv(kind), NEW l \in List
  PROVE  /\ IsList(nodes, head[l], list[l], kind) /\ Distinct(list[l]) /\ nodes \in Pointers
         /\ Range(list[l]) = {list[l][i] : i \in 1 .. Len(list[l])} /\ Range(list[l]) \subseteq Elem
         /\ (head[l] = NULL <=> list[l] = <<>>)
         /\ \A m \in List : m # l => Range(list[l]) \cap Range(list[m]) = {}
         /\ \A e : Free(e) =>
              e \notin Range(list[l]) /\ \A m \in List : m # l => (Range(list[l]) \cup {e}) \cap Range(list[m]) = {}
<1>1. IsList(nodes, head[l], list[l], kind) /\ nodes \in Pointers /\ Range(list[1]) \cap Range(list[2]) = {}
  BY DEF ListsInv
<1>2. /\ Distinct(list[l]) /\ Range(list[l]) = {list[l][i] : i \in 1 .. Len(list[l])} /\ Range(list[l]) \subseteq Elem
      /\ (head[l] = NULL <=> list[l] = <<>>)
  BY <1>1, ListFacts
<1>3. \A m \in List : m # l => Range(list[l]) \cap Range(list[m]) = {}
  BY <1>1 DEF List
<1>4. \A e : Free(e) => \A m \in List : e \notin Range(list[m])
  BY DEF Free, InList
<1> QED
  BY <1>1, <1>2, <1>3, <1>4

(* A node that is put into a list, and one that is taken out of it or not. *)
LEMMA PutKeeps ==
  ASSUME NEW kind, ListsInv(kind), NEW l \in List, NEW e \in Node, Free(e), NEW r, NEW t,
         Makes(r, nodes, Range(list[l]) \cup {e}, t, kind), Range(t) \subseteq Range(list[l]) \cup {e},
         Leaves(l, r, t)
  PROVE  ListsInv(kind)'
<1> DEFINE S == Range(list[l]) \cup {e}
<1>1. Makes(r, nodes, S, t, kind) /\ Range(t) \subseteq S /\ \A m \in List : m # l => S \cap Range(list[m]) = {}
  BY Apart
<1> HIDE DEF S
<1> QED
  BY <1>1, LeavesKeeps

\* Taking a node out of list l keeps the lists.
LEMMA TakeKeeps ==
  ASSUME NEW kind, ListsInv(kind), NEW l \in List, NEW e, NEW r,
         Makes(r, nodes, Range(list[l]), Without(list[l], e), kind),
         Leaves(l, r, Without(list[l], e))
  PROVE  ListsInv(kind)'
<1> DEFINE S == Range(list[l])
           t == Without(list[l], e)
<1>1. \A m \in List : m # l => S \cap Range(list[m]) = {}
  BY Apart
<1>2. Range(t) \subseteq S
  <2>1. Distinct(list[l])
    BY Apart
  <2> QED
    BY <2>1, RangesAre
<1>3. Makes(r, nodes, S, t, kind) /\ Leaves(l, r, t)
  OBVIOUS
<1> HIDE DEF S, t
<1> QED
  BY <1>1, <1>2, <1>3, LeavesKeeps

\* Sorting list l keeps the lists.
LEMMA SortKeeps ==
  ASSUME NEW kind \in Kinds, ListsInv(kind), NEW l \in List, head[l] # NULL,
         Leaves(l, SortFrom(nodes, head[l], kind), Sorted(list[l]))
  PROVE  ListsInv(kind)'
<1> DEFINE S == Range(list[l])
           t == Sorted(list[l])
           r == SortFrom(nodes, head[l], kind)
<1>1. /\ \A m \in List : m # l => S \cap Range(list[m]) = {}
      /\ IsList(nodes, head[l], list[l], kind) /\ list[l] # <<>> /\ nodes \in Pointers
  BY Apart
<1>2. Makes(r, nodes, S, t, kind) /\ Range(t) = S
  BY <1>1, SortMakes
<1>3. Leaves(l, r, t)
  OBVIOUS
<1> HIDE DEF S, t, r
<1> QED
  BY <1>1, <1>2, <1>3, LeavesKeeps

\* Either there is no loop or it is at some node.
LEMMA NoLoopIs ==
  ASSUME NEW kind, LoopInv(kind)
  PROVE  /\ NotLooping => loop = NoLoop
         /\ ~NotLooping => \E j \in Nat : LoopAt(kind, j)
<1>1. ASSUME NEW j \in Nat, LoopAt(kind, j) PROVE ~NotLooping
  <2>1. loop.el \in Elem
    BY <1>1 DEF LoopAt
  <2> QED
    BY <2>1, MergeSortAssumption DEF NotLooping
<1>2. loop = NoLoop => NotLooping
  BY DEF NotLooping, NoLoop
<1> QED
  BY <1>1, <1>2 DEF LoopInv

(* What begins a loop changes no list. *)
LEMMA BeginKeeps ==
  ASSUME NEW kind \in ListKinds, ListsInv(kind), NEW last \in Link,
         kind = "circular" => last = list[1][Len(list[1])],
         LoopBegin(last)
  PROVE  ListsInv(kind)' /\ LoopInv(kind)' /\ NotLooping
<1>1. LoopInv(kind)'
  BY LoopBegins
<1>2. nodes' = nodes /\ head' = head /\ list' = list /\ NotLooping
  BY DEF LoopBegin
<1>3. ListsInv(kind)'
  BY <1>2 DEF ListsInv
<1> QED
  BY <1>1, <1>2, <1>3

(***************************************************************************)
(* A turn of the loop, whose body leaves the lists, takes the node at hand *)
(* out of list 1, or moves it to list 2.                                   *)
(***************************************************************************)
LEMMA BodyKeeps ==
  ASSUME NEW kind \in ListKinds, ListsInv(kind), NEW j \in Nat, LoopAt(kind, j),
         NEW removed, NEW added,
         Makes(removed, nodes, Range(list[1]), Without(list[1], loop.el), kind),
         IsList(removed.n, head[2], list[2], kind) =>
           Makes(added, removed.n, Range(list[2]) \cup {loop.el}, <<loop.el>> \o list[2], kind),
         \/ UNCHANGED <<nodes, head, list>>
         \/ Leaves(1, removed, Without(list[1], loop.el))
         \/ Moved(removed, added),
         LoopStep(LoopEnds(kind))
  PROVE  ListsInv(kind)' /\ LoopInv(kind)' /\ VisitsInOrder
<1>1. loop.el \in Range(list[1])
  <2>1. IsList(nodes, head[1], list[1], kind)
    BY DEF ListsInv, List
  <2>2. Distinct(loop.over) /\ j \in 1 .. Len(loop.over) /\ Ahead(list[1], loop.over, j) /\ loop.el = loop.over[j]
    BY DEF LoopAt
  <2> QED
    BY <2>1, <2>2, AheadIs
<1>2. ListsInv(kind)' /\ (list'[1] = list[1] \/ list'[1] = Without(list[1], loop.el))
  <2>1. CASE UNCHANGED <<nodes, head, list>>
    BY <2>1 DEF ListsInv
  <2>2. CASE Leaves(1, removed, Without(list[1], loop.el))
    <3>1. 1 \in List
      BY DEF List
    <3>2. ListsInv(kind)'
      BY <2>2, <3>1, TakeKeeps
    <3>3. list'[1] = Without(list[1], loop.el)
      BY <2>2, <3>1 DEF Leaves, ListsInv
    <3> QED
      BY <3>2, <3>3
  <2>3. CASE Moved(removed, added)
    <3>1. ListsInv(kind)'
      BY <1>1, <2>3, MovedKeeps
    <3>2. list'[1] = Without(list[1], loop.el)
      BY <2>3 DEF Moved, ListsInv, List
    <3> QED
      BY <3>1, <3>2
  <2> QED
    BY <2>1, <2>2, <2>3
<1> QED
  BY <1>2, LoopSteps

-----------------------------------------------------------------------------
\* The nodes of a list after a replacement or an insertion.
LEMMA ExchangeRanges ==
  ASSUME NEW s, Distinct(s), NEW x \in Range(s), NEW e \in Elem, e \notin Range(s)
  PROVE  /\ Range(InsteadOf(s, x, e)) \subseteq Range(s) \cup {e}
         /\ Range(InsertBefore(s, x, e)) \subseteq Range(s) \cup {e}
<1>1. Range(InsteadOf(s, x, e)) = (Range(s) \ {x}) \cup {e} /\ Range(InsertBefore(s, x, e)) = Range(s) \cup {e}
  BY RangesAre
<1> QED
  BY <1>1

(* What a step of a program with one kind of list must keep. *)
StepKeeps(kind) ==
  /\ ListsInv(kind)' /\ LoopInv(kind)'
  /\ ~NotLooping => VisitsInOrder

\* A macro outside of a loop keeps there being none.
LEMMA QuietKeeps ==
  ASSUME NEW kind, LoopInv(kind), NotLooping, UNCHANGED loop, ListsInv(kind)'
  PROVE  StepKeeps(kind)
<1>1. loop' = NoLoop
  BY NoLoopIs
<1>2. LoopInv(kind)'
  BY <1>1 DEF LoopInv
<1> QED
  BY <1>2 DEF StepKeeps

\* Every macro on singly-linked lists keeps the lists and the loop.
LEMMA SingleKeeps ==
  ASSUME ListsInv("single"), LoopInv("single"), SingleNext
  PROVE  StepKeeps("single")
<1>0. "single" \in ListKinds /\ "single" \in Kinds \ {"app"} /\ "single" \in Kinds
  BY DEF ListKinds, Kinds
<1>1. ASSUME NEW l \in List, NEW e \in Node, Free(e), SingleAdd(l, e)
      PROVE  ListsInv("single")'
  <2> DEFINE s == list[l]
             h == head[l]
  <2>1. IsList(nodes, h, s, "single") /\ Distinct(s) /\ nodes \in Pointers /\ e \in Elem /\ e \notin Range(s)
    BY <1>1, Apart, UtListAssumption
  <2>2. CASE Leaves(l, LL_PREPEND2(nodes, h, e), <<e>> \o s)
    <3>1. Makes(LL_PREPEND2(nodes, h, e), nodes, Range(s) \cup {e}, <<e>> \o s, "single")
      BY <2>1, SinglePrepend
    <3>2. Range(<<e>> \o s) \subseteq Range(s) \cup {e}
      BY <2>1, RangesAre
    <3> QED
      BY <1>1, <2>2, <3>1, <3>2, PutKeeps
  <2>3. CASE Leaves(l, LL_APPEND2(nodes, h, e), Append(s, e))
    <3>1. Makes(LL_APPEND2(nodes, h, e), nodes, Range(s) \cup {e}, Append(s, e), "single")
      BY <2>1, SingleAppend
    <3>2. Range(Append(s, e)) \subseteq Range(s) \cup {e}
      BY <2>1, RangesAre
    <3> QED
      BY <1>1, <2>3, <3>1, <3>2, PutKeeps
  <2>4. CASE Leaves(l, LL_APPEND2_VS2008(nodes, h, e), Append(s, e))
    <3>1. LL_APPEND2_VS2008(nodes, h, e) = LL_APPEND2(nodes, h, e)
      BY <2>1, SingleAppendVS2008
    <3> QED
      BY <2>3, <2>4, <3>1
  <2> QED
    BY <1>1, <2>2, <2>3, <2>4 DEF SingleAdd
<1>2. ASSUME NEW l \in List, NEW e \in Node, head[l] # NULL, SingleDelete(l, e)
      PROVE  ListsInv("single")'
  <2> DEFINE s == list[l]
             h == head[l]
  <2>1. IsList(nodes, h, s, "single") /\ s # <<>> /\ nodes \in Pointers /\ e \in Elem
    BY <1>2, Apart, UtListAssumption
  <2>2. /\ Makes(LL_DELETE2(nodes, h, e), nodes, Range(s), Without(s, e), "single")
        /\ Makes(LL_DELETE2_VS2008(nodes, h, e), nodes, Range(s), Without(s, e), "single")
    BY <2>1, SingleDeletion
  <2>3. CASE Leaves(l, LL_DELETE2(nodes, h, e), Without(s, e))
    BY <2>2, <2>3, TakeKeeps
  <2>4. CASE Leaves(l, LL_DELETE2_VS2008(nodes, h, e), Without(s, e))
    BY <2>2, <2>4, TakeKeeps
  <2> QED
    BY <1>2, <2>3, <2>4 DEF SingleDelete
<1>3. ASSUME NEW l \in List, NEW e \in Node, NEW add \in Node, InList(e, l), Free(add), SingleExchange(l, e, add)
      PROVE  ListsInv("single")'
  <2> DEFINE s == list[l]
             h == head[l]
  <2>1. IsList(nodes, h, s, "single") /\ Distinct(s) /\ nodes \in Pointers /\ add \in Elem /\ add \notin Range(s)
        /\ e \in Range(s) /\ Range(s) = {s[i] : i \in 1 .. Len(s)}
    BY <1>3, Apart, UtListAssumption DEF InList
  <2>2. PICK i \in 1 .. Len(s) : s[i] = e
    BY <2>1
  <2>3. CASE Leaves(l, LL_REPLACE_ELEM(nodes, h, e, add), InsteadOf(s, e, add))
    <3>1. Makes(LL_REPLACE_ELEM(nodes, h, s[i], add), nodes, Range(s) \cup {add}, InsteadOf(s, s[i], add), "single")
      BY <2>1, SingleReplace
    <3>2. Range(InsteadOf(s, e, add)) \subseteq Range(s) \cup {add}
      BY <2>1, ExchangeRanges
    <3> QED
      BY <1>3, <2>2, <2>3, <3>1, <3>2, PutKeeps
  <2>4. CASE Leaves(l, LL_PREPEND_ELEM(nodes, h, e, add), InsertBefore(s, e, add))
    <3>1. Makes(LL_PREPEND_ELEM(nodes, h, s[i], add), nodes, Range(s) \cup {add}, InsertBefore(s, s[i], add), "single")
      BY <2>1, SinglePrependElem
    <3>2. Range(InsertBefore(s, e, add)) \subseteq Range(s) \cup {add}
      BY <2>1, ExchangeRanges
    <3> QED
      BY <1>3, <2>2, <2>4, <3>1, <3>2, PutKeeps
  <2> QED
    BY <1>3, <2>3, <2>4 DEF SingleExchange
<1>4. ASSUME SingleConcat PROVE ListsInv("single")'
  <2> DEFINE r == LL_CONCAT2(nodes, head[1], head[2])
  <2>1. ConcatLeaves(r)
    BY <1>4 DEF SingleConcat, ConcatLeaves
  <2>2. /\ IsList(nodes, head[1], list[1], "single") /\ IsList(nodes, head[2], list[2], "single")
        /\ Range(list[1]) \cap Range(list[2]) = {} /\ nodes \in Pointers
    BY DEF ListsInv, List
  <2>3. Makes(r, nodes, Range(list[1]) \cup Range(list[2]), list[1] \o list[2], "single")
    BY <2>2, SingleConcatMakes
  <2> HIDE DEF r
  <2> QED
    BY <1>0, <2>1, <2>3, ConcatKeeps
<1>5. ASSUME NEW l \in List, SingleSort(l) PROVE ListsInv("single")'
  <2>1. head[l] # NULL /\ Leaves(l, SortFrom(nodes, head[l], "single"), Sorted(list[l]))
    BY <1>5 DEF SingleSort, LL_SORT2
  <2> QED
    BY <1>0, <2>1, SortKeeps
<1>6. ASSUME LoopBegin(NULL) PROVE StepKeeps("single")
  <2>1. NULL \in Link /\ ~("single" = "circular")
    BY DEF Link
  <2>2. ListsInv("single")' /\ LoopInv("single")' /\ NotLooping
    BY <1>0, <1>6, <2>1, BeginKeeps
  <2> QED
    BY <2>2 DEF StepKeeps
<1>7. ASSUME SingleLoopBody PROVE StepKeeps("single")
  <2> DEFINE removed == LL_DELETE2(nodes, head[1], loop.el)
             added == LL_PREPEND2(removed.n, head[2], loop.el)
  <2>1. PICK j \in Nat : LoopAt("single", j)
    BY <1>7, NoLoopIs DEF SingleLoopBody
  <2>2. loop.el \in Range(list[1])
    <3>1. Distinct(loop.over) /\ j \in 1 .. Len(loop.over) /\ Ahead(list[1], loop.over, j) /\ loop.el = loop.over[j]
      BY <2>1 DEF LoopAt
    <3>2. IsList(nodes, head[1], list[1], "single")
      BY DEF ListsInv, List
    <3> QED
      BY <3>1, <3>2, AheadIs
  <2>3. /\ IsList(nodes, head[1], list[1], "single") /\ nodes \in Pointers /\ Range(list[1]) \subseteq Elem
        /\ (list[1] = <<>> <=> Len(list[1]) = 0) /\ Range(list[1]) = {list[1][i] : i \in 1 .. Len(list[1])}
        /\ Range(list[1]) \cap Range(list[2]) = {}
    <3>1. IsList(nodes, head[1], list[1], "single") /\ nodes \in Pointers /\ Range(list[1]) \cap Range(list[2]) = {}
      BY DEF ListsInv, List
    <3> QED
      BY <3>1, ListFacts
  <2>4. list[1] # <<>> /\ loop.el \in Elem /\ loop.el \notin Range(list[2])
    BY <2>2, <2>3
  <2>5. Makes(removed, nodes, Range(list[1]), Without(list[1], loop.el), "single")
    BY <2>3, <2>4, SingleDeletion
  <2>6. removed.n \in Pointers
    BY <2>5 DEF Makes
  <2> HIDE DEF removed
  <2>7. IsList(removed.n, head[2], list[2], "single") =>
          Makes(added, removed.n, Range(list[2]) \cup {loop.el}, <<loop.el>> \o list[2], "single")
    BY <2>4, <2>6, SinglePrepend
  <2>8. \/ UNCHANGED <<nodes, head, list>>
        \/ Leaves(1, removed, Without(list[1], loop.el))
        \/ Moved(removed, added)
    BY <1>7 DEF SingleLoopBody, removed
  <2> HIDE DEF added
  <2>9. LoopStep(LoopEnds("single"))
    BY <1>7 DEF SingleLoopBody, LoopEnds
  <2>10. ListsInv("single")' /\ LoopInv("single")' /\ VisitsInOrder
    BY <1>0, <2>1, <2>5, <2>7, <2>8, <2>9, BodyKeeps
  <2> QED
    BY <2>10 DEF StepKeeps
<1>8. CASE /\ NotLooping
           /\ \/ \E l \in List, e \in Node : Free(e) /\ SingleAdd(l, e)
              \/ \E l \in List, e \in Node : head[l] # NULL /\ SingleDelete(l, e)
              \/ \E l \in List, e, add \in Node : InList(e, l) /\ Free(add) /\ SingleExchange(l, e, add)
              \/ SingleConcat
              \/ \E l \in List : SingleSort(l)
           /\ UNCHANGED loop
  <2>1. ListsInv("single")'
    BY <1>1, <1>2, <1>3, <1>4, <1>5, <1>8
  <2> QED
    BY <1>8, <2>1, QuietKeeps
<1> QED
  BY <1>6, <1>7, <1>8 DEF SingleNext

-----------------------------------------------------------------------------
(* Every operation on the doubly linked lists keeps them. *)
LEMMA DoubleKeeps ==
  ASSUME ListsInv("double"), LoopInv("double"), DoubleNext
  PROVE  StepKeeps("double")
<1>0. "double" \in ListKinds /\ "double" \in Kinds \ {"app"} /\ "double" \in Kinds
  BY DEF ListKinds, Kinds
<1>1. ASSUME NEW l \in List, NEW e \in Node, Free(e), DoubleAdd(l, e)
      PROVE  ListsInv("double")'
  <2> DEFINE s == list[l]
             h == head[l]
  <2>1. IsList(nodes, h, s, "double") /\ Distinct(s) /\ nodes \in Pointers /\ e \in Elem /\ e \notin Range(s)
    BY <1>1, Apart, UtListAssumption
  <2>2. CASE Leaves(l, DL_PREPEND2(nodes, h, e), <<e>> \o s)
    <3>1. Makes(DL_PREPEND2(nodes, h, e), nodes, Range(s) \cup {e}, <<e>> \o s, "double")
      BY <2>1, DoublePrepend
    <3>2. Range(<<e>> \o s) \subseteq Range(s) \cup {e}
      BY <2>1, RangesAre
    <3> QED
      BY <1>1, <2>2, <3>1, <3>2, PutKeeps
  <2>3. CASE Leaves(l, DL_APPEND2(nodes, h, e), Append(s, e))
    <3>1. Makes(DL_APPEND2(nodes, h, e), nodes, Range(s) \cup {e}, Append(s, e), "double")
      BY <2>1, DoubleAppend
    <3>2. Range(Append(s, e)) \subseteq Range(s) \cup {e}
      BY <2>1, RangesAre
    <3> QED
      BY <1>1, <2>3, <3>1, <3>2, PutKeeps
  <2> QED
    BY <1>1, <2>2, <2>3 DEF DoubleAdd
<1>2. ASSUME NEW l \in List, NEW e \in Node, InList(e, l), DoubleDelete(l, e)
      PROVE  ListsInv("double")'
  <2> DEFINE s == list[l]
             h == head[l]
  <2>1. IsList(nodes, h, s, "double") /\ nodes \in Pointers /\ e \in Range(s)
    BY <1>2, Apart DEF InList
  <2>2. Makes(DL_DELETE2(nodes, h, e), nodes, Range(s), Without(s, e), "double")
    BY <2>1, DoubleDeletion
  <2>3. Leaves(l, DL_DELETE2(nodes, h, e), Without(s, e))
    BY <1>2 DEF DoubleDelete
  <2> QED
    BY <2>2, <2>3, TakeKeeps
<1>3. ASSUME NEW l \in List, NEW e \in Node, NEW add \in Node, InList(e, l), Free(add), DoubleExchange(l, e, add)
      PROVE  ListsInv("double")'
  <2> DEFINE s == list[l]
             h == head[l]
  <2>1. IsList(nodes, h, s, "double") /\ Distinct(s) /\ nodes \in Pointers /\ add \in Elem /\ add \notin Range(s)
        /\ e \in Range(s) /\ Range(s) = {s[i] : i \in 1 .. Len(s)}
    BY <1>3, Apart, UtListAssumption DEF InList
  <2>2. PICK i \in 1 .. Len(s) : s[i] = e
    BY <2>1
  <2>3. CASE Leaves(l, DL_REPLACE_ELEM(nodes, h, e, add), InsteadOf(s, e, add))
    <3>1. Makes(DL_REPLACE_ELEM(nodes, h, s[i], add), nodes, Range(s) \cup {add}, InsteadOf(s, s[i], add), "double")
      BY <2>1, DoubleReplace
    <3>2. Range(InsteadOf(s, e, add)) \subseteq Range(s) \cup {add}
      BY <2>1, ExchangeRanges
    <3> QED
      BY <1>3, <2>2, <2>3, <3>1, <3>2, PutKeeps
  <2>4. CASE Leaves(l, DL_PREPEND_ELEM(nodes, h, e, add), InsertBefore(s, e, add))
    <3>1. Makes(DL_PREPEND_ELEM(nodes, h, s[i], add), nodes, Range(s) \cup {add}, InsertBefore(s, s[i], add), "double")
      BY <2>1, DoublePrependElem
    <3>2. Range(InsertBefore(s, e, add)) \subseteq Range(s) \cup {add}
      BY <2>1, ExchangeRanges
    <3> QED
      BY <1>3, <2>2, <2>4, <3>1, <3>2, PutKeeps
  <2> QED
    BY <1>3, <2>3, <2>4 DEF DoubleExchange
<1>4. ASSUME DoubleConcat PROVE ListsInv("double")'
  <2> DEFINE r == DL_CONCAT2(nodes, head[1], head[2])
  <2>1. ConcatLeaves(r)
    BY <1>4 DEF DoubleConcat, ConcatLeaves
  <2>2. /\ IsList(nodes, head[1], list[1], "double") /\ IsList(nodes, head[2], list[2], "double")
        /\ Range(list[1]) \cap Range(list[2]) = {} /\ nodes \in Pointers
    BY DEF ListsInv, List
  <2>3. Makes(r, nodes, Range(list[1]) \cup Range(list[2]), list[1] \o list[2], "double")
    BY <2>2, DoubleConcatMakes
  <2> HIDE DEF r
  <2> QED
    BY <1>0, <2>1, <2>3, ConcatKeeps
<1>5. ASSUME NEW l \in List, DoubleSort(l) PROVE ListsInv("double")'
  <2>1. head[l] # NULL /\ Leaves(l, SortFrom(nodes, head[l], "double"), Sorted(list[l]))
    BY <1>5 DEF DoubleSort, DL_SORT2
  <2> QED
    BY <1>0, <2>1, SortKeeps
<1>6. ASSUME LoopBegin(NULL) PROVE StepKeeps("double")
  <2>1. NULL \in Link /\ ~("double" = "circular")
    BY DEF Link
  <2>2. ListsInv("double")' /\ LoopInv("double")' /\ NotLooping
    BY <1>0, <1>6, <2>1, BeginKeeps
  <2> QED
    BY <2>2 DEF StepKeeps
<1>7. ASSUME DoubleLoopBody PROVE StepKeeps("double")
  <2> DEFINE removed == DL_DELETE2(nodes, head[1], loop.el)
             added == DL_PREPEND2(removed.n, head[2], loop.el)
  <2>1. PICK j \in Nat : LoopAt("double", j)
    BY <1>7, NoLoopIs DEF DoubleLoopBody
  <2>2. loop.el \in Range(list[1])
    <3>1. Distinct(loop.over) /\ j \in 1 .. Len(loop.over) /\ Ahead(list[1], loop.over, j) /\ loop.el = loop.over[j]
      BY <2>1 DEF LoopAt
    <3>2. IsList(nodes, head[1], list[1], "double")
      BY DEF ListsInv, List
    <3> QED
      BY <3>1, <3>2, AheadIs
  <2>3. /\ IsList(nodes, head[1], list[1], "double") /\ nodes \in Pointers /\ Range(list[1]) \subseteq Elem
        /\ Range(list[1]) \cap Range(list[2]) = {}
    <3>1. IsList(nodes, head[1], list[1], "double") /\ nodes \in Pointers /\ Range(list[1]) \cap Range(list[2]) = {}
      BY DEF ListsInv, List
    <3> QED
      BY <3>1, ListFacts
  <2>4. loop.el \in Elem /\ loop.el \notin Range(list[2])
    BY <2>2, <2>3
  <2>5. Makes(removed, nodes, Range(list[1]), Without(list[1], loop.el), "double")
    BY <2>2, <2>3, DoubleDeletion
  <2>6. removed.n \in Pointers
    BY <2>5 DEF Makes
  <2>7. \/ UNCHANGED <<nodes, head, list>>
        \/ Leaves(1, removed, Without(list[1], loop.el))
        \/ Moved(removed, added)
    BY <1>7 DEF DoubleLoopBody
  <2> HIDE DEF removed
  <2>8. IsList(removed.n, head[2], list[2], "double") =>
          Makes(added, removed.n, Range(list[2]) \cup {loop.el}, <<loop.el>> \o list[2], "double")
    BY <2>4, <2>6, DoublePrepend
  <2> HIDE DEF added
  <2>9. LoopStep(LoopEnds("double"))
    BY <1>7 DEF DoubleLoopBody, LoopEnds
  <2>10. ListsInv("double")' /\ LoopInv("double")' /\ VisitsInOrder
    BY <1>0, <2>1, <2>5, <2>7, <2>8, <2>9, BodyKeeps
  <2> QED
    BY <2>10 DEF StepKeeps
<1>8. CASE /\ NotLooping
           /\ \/ \E l \in List, e \in Node : Free(e) /\ DoubleAdd(l, e)
              \/ \E l \in List, e \in Node : InList(e, l) /\ DoubleDelete(l, e)
              \/ \E l \in List, e, add \in Node : InList(e, l) /\ Free(add) /\ DoubleExchange(l, e, add)
              \/ DoubleConcat
              \/ \E l \in List : DoubleSort(l)
           /\ UNCHANGED loop
  <2>1. ListsInv("double")'
    BY <1>1, <1>2, <1>3, <1>4, <1>5, <1>8
  <2> QED
    BY <1>8, <2>1, QuietKeeps
<1> QED
  BY <1>6, <1>7, <1>8 DEF DoubleNext

(* Every operation on the circular lists keeps them. *)
LEMMA CircularKeeps ==
  ASSUME ListsInv("circular"), LoopInv("circular"), CircularNext
  PROVE  StepKeeps("circular")
<1>0. "circular" \in ListKinds /\ "circular" \in Kinds \ {"app"} /\ "circular" \in Kinds
  BY DEF ListKinds, Kinds
<1>1. ASSUME NEW l \in List, NEW e \in Node, Free(e), CircularAdd(l, e)
      PROVE  ListsInv("circular")'
  <2> DEFINE s == list[l]
             h == head[l]
  <2>1. IsList(nodes, h, s, "circular") /\ Distinct(s) /\ nodes \in Pointers /\ e \in Elem /\ e \notin Range(s)
    BY <1>1, Apart, UtListAssumption
  <2>2. CASE Leaves(l, CDL_PREPEND2(nodes, h, e), <<e>> \o s)
    <3>1. Makes(CDL_PREPEND2(nodes, h, e), nodes, Range(s) \cup {e}, <<e>> \o s, "circular")
      BY <2>1, CircularPrepend
    <3>2. Range(<<e>> \o s) \subseteq Range(s) \cup {e}
      BY <2>1, RangesAre
    <3> QED
      BY <1>1, <2>2, <3>1, <3>2, PutKeeps
  <2> QED
    BY <1>1, <2>2 DEF CircularAdd
<1>2. ASSUME NEW l \in List, NEW e \in Node, InList(e, l), CircularDelete(l, e)
      PROVE  ListsInv("circular")'
  <2> DEFINE s == list[l]
             h == head[l]
  <2>1. IsList(nodes, h, s, "circular") /\ nodes \in Pointers /\ e \in Range(s)
    BY <1>2, Apart DEF InList
  <2>2. Makes(CDL_DELETE2(nodes, h, e), nodes, Range(s), Without(s, e), "circular")
    BY <2>1, CircularDeletion
  <2>3. Leaves(l, CDL_DELETE2(nodes, h, e), Without(s, e))
    BY <1>2 DEF CircularDelete
  <2> QED
    BY <2>2, <2>3, TakeKeeps
<1>3. ASSUME NEW l \in List, NEW e \in Node, NEW add \in Node, InList(e, l), Free(add), CircularExchange(l, e, add)
      PROVE  ListsInv("circular")'
  <2> DEFINE s == list[l]
             h == head[l]
  <2>1. IsList(nodes, h, s, "circular") /\ Distinct(s) /\ nodes \in Pointers /\ add \in Elem /\ add \notin Range(s)
        /\ e \in Range(s) /\ Range(s) = {s[i] : i \in 1 .. Len(s)}
    BY <1>3, Apart, UtListAssumption DEF InList
  <2>2. PICK i \in 1 .. Len(s) : s[i] = e
    BY <2>1
  <2>3. CASE Leaves(l, CDL_REPLACE_ELEM(nodes, h, e, add), InsteadOf(s, e, add))
    <3>1. Makes(CDL_REPLACE_ELEM(nodes, h, s[i], add), nodes, Range(s) \cup {add}, InsteadOf(s, s[i], add), "circular")
      BY <2>1, CircularReplace
    <3>2. Range(InsteadOf(s, e, add)) \subseteq Range(s) \cup {add}
      BY <2>1, ExchangeRanges
    <3> QED
      BY <1>3, <2>2, <2>3, <3>1, <3>2, PutKeeps
  <2>4. CASE Leaves(l, CDL_PREPEND_ELEM(nodes, h, e, add), InsertBefore(s, e, add))
    <3>1. Makes(CDL_PREPEND_ELEM(nodes, h, s[i], add), nodes, Range(s) \cup {add}, InsertBefore(s, s[i], add), "circular")
      BY <2>1, CircularPrependElem
    <3>2. Range(InsertBefore(s, e, add)) \subseteq Range(s) \cup {add}
      BY <2>1, ExchangeRanges
    <3> QED
      BY <1>3, <2>2, <2>4, <3>1, <3>2, PutKeeps
  <2> QED
    BY <1>3, <2>3, <2>4 DEF CircularExchange
<1>5. ASSUME NEW l \in List, CircularSort(l) PROVE ListsInv("circular")'
  <2>1. head[l] # NULL /\ Leaves(l, SortFrom(nodes, head[l], "circular"), Sorted(list[l]))
    BY <1>5 DEF CircularSort, CDL_SORT2
  <2> QED
    BY <1>0, <2>1, SortKeeps
<1>6. ASSUME head[1] # NULL, LoopBegin(nodes.prev[head[1]]) PROVE StepKeeps("circular")
  <2> DEFINE last == nodes.prev[head[1]]
  <2>1. IsList(nodes, head[1], list[1], "circular") /\ nodes \in Pointers
    BY DEF ListsInv, List
  <2>2. head[1] = list[1][1] /\ head[1] \in Elem /\ 1 \in 1 .. Len(list[1])
    <3>1. list[1] # <<>> /\ head[1] = list[1][1] /\ 1 \in 1 .. Len(list[1])
      BY <1>6, <2>1, ListFacts
    <3> QED
      BY <2>1, <3>1, ListFacts
  <2>3. last = list[1][Len(list[1])]
    BY <2>1, <2>2, DoublePrevs
  <2>4. last \in Link
    BY <2>1, <2>2 DEF Pointers
  <2>5. LoopBegin(last)
    BY <1>6
  <2> HIDE DEF last
  <2>6. ListsInv("circular")' /\ LoopInv("circular")' /\ NotLooping
    BY <1>0, <2>3, <2>4, <2>5, BeginKeeps
  <2> QED
    BY <2>6 DEF StepKeeps
<1>7. ASSUME CircularLoopBody PROVE StepKeeps("circular")
  <2> DEFINE removed == CDL_DELETE2(nodes, head[1], loop.el)
             added == CDL_PREPEND2(removed.n, head[2], loop.el)
  <2>1. PICK j \in Nat : LoopAt("circular", j)
    BY <1>7, NoLoopIs DEF CircularLoopBody
  <2>2. loop.el \in Range(list[1])
    <3>1. Distinct(loop.over) /\ j \in 1 .. Len(loop.over) /\ Ahead(list[1], loop.over, j) /\ loop.el = loop.over[j]
      BY <2>1 DEF LoopAt
    <3>2. IsList(nodes, head[1], list[1], "circular")
      BY DEF ListsInv, List
    <3> QED
      BY <3>1, <3>2, AheadIs
  <2>3. /\ IsList(nodes, head[1], list[1], "circular") /\ nodes \in Pointers /\ Range(list[1]) \subseteq Elem
        /\ Range(list[1]) \cap Range(list[2]) = {}
    <3>1. IsList(nodes, head[1], list[1], "circular") /\ nodes \in Pointers /\ Range(list[1]) \cap Range(list[2]) = {}
      BY DEF ListsInv, List
    <3> QED
      BY <3>1, ListFacts
  <2>4. loop.el \in Elem /\ loop.el \notin Range(list[2])
    BY <2>2, <2>3
  <2>5. Makes(removed, nodes, Range(list[1]), Without(list[1], loop.el), "circular")
    BY <2>2, <2>3, CircularDeletion
  <2>6. removed.n \in Pointers
    BY <2>5 DEF Makes
  <2>7. \/ UNCHANGED <<nodes, head, list>>
        \/ Leaves(1, removed, Without(list[1], loop.el))
        \/ Moved(removed, added)
    BY <1>7 DEF CircularLoopBody
  <2> HIDE DEF removed
  <2>8. IsList(removed.n, head[2], list[2], "circular") =>
          Makes(added, removed.n, Range(list[2]) \cup {loop.el}, <<loop.el>> \o list[2], "circular")
    BY <2>4, <2>6, CircularPrepend
  <2> HIDE DEF added
  <2>9. LoopStep(LoopEnds("circular"))
    BY <1>7 DEF CircularLoopBody, LoopEnds
  <2>10. ListsInv("circular")' /\ LoopInv("circular")' /\ VisitsInOrder
    BY <1>0, <2>1, <2>5, <2>7, <2>8, <2>9, BodyKeeps
  <2> QED
    BY <2>10 DEF StepKeeps
<1>8. CASE /\ NotLooping
           /\ \/ \E l \in List, e \in Node : Free(e) /\ CircularAdd(l, e)
              \/ \E l \in List, e \in Node : InList(e, l) /\ CircularDelete(l, e)
              \/ \E l \in List, e, add \in Node : InList(e, l) /\ Free(add) /\ CircularExchange(l, e, add)
              \/ \E l \in List : CircularSort(l)
           /\ UNCHANGED loop
  <2>1. ListsInv("circular")'
    BY <1>1, <1>2, <1>3, <1>5, <1>8
  <2> QED
    BY <1>8, <2>1, QuietKeeps
<1> QED
  BY <1>6, <1>7, <1>8 DEF CircularNext

-----------------------------------------------------------------------------
(***************************************************************************)
(* The inductive invariant: a program that uses one kind of list has two   *)
(* lists of that kind, and is at one node of its loop at most.             *)
(***************************************************************************)
ContainersInv ==
  IF used \in ListKinds THEN ListsInv(used) /\ LoopInv(used) ELSE loop = NoLoop

\* The lists are empty and there is no loop at the start.
LEMMA ContainersInitially ==
  ASSUME ContainersInit
  PROVE  ContainersInv
<1> SUFFICES ASSUME NEW kind \in ListKinds PROVE ListsInv(kind) /\ LoopInv(kind)
  BY DEF ContainersInv, ContainersInit, UtInit
<1>1. /\ nodes = [next |-> [e \in Elem |-> NULL], prev |-> [e \in Elem |-> NULL]]
      /\ head = [l \in List |-> NULL] /\ list = [l \in List |-> <<>>] /\ loop = NoLoop
  BY DEF ContainersInit, UtInit
<1>2. nodes \in Pointers /\ head \in [List -> Link] /\ list \in [List -> Seq(Elem)]
  <2>1. NULL \in Link /\ <<>> \in Seq(Elem)
    BY DEF Link
  <2> QED
    BY <1>1, <2>1 DEF Pointers
<1>3. \A l \in List : head[l] = NULL /\ list[l] = <<>>
  BY <1>1
<1>4. IsList(nodes, NULL, <<>>, kind)
  <2>1. Distinct(<<>>) /\ Len(<<>>) = 0 /\ 1 .. 0 = {}
    BY DEF Distinct
  <2>2. Follows(nodes.next, <<>>, EndOf(<<>>, kind))
    BY <2>1 DEF Follows
  <2> QED
    BY <2>1, <2>2 DEF IsList
<1>5. Range(list[1]) \cap Range(list[2]) = {}
  <2>1. list[1] = <<>> /\ Range(<<>>) = {}
    BY <1>3 DEF List, Range
  <2> QED
    BY <2>1
<1>6. ListsInv(kind)
  BY <1>2, <1>3, <1>4, <1>5 DEF ListsInv
<1> QED
  BY <1>1, <1>6 DEF LoopInv

\* Every step keeps the invariant, and a turn of a loop visits the next node.
LEMMA ContainersStep ==
  ASSUME ContainersInv, [ContainersNext]_containerVars
  PROVE  /\ ContainersInv'
         /\ ~NotLooping => VisitsInOrder \/ UNCHANGED utVars
<1>1. CASE UNCHANGED containerVars
  <2>1. UNCHANGED utVars /\ used' = used
    BY <1>1 DEF containerVars
  <2>2. nodes' = nodes /\ head' = head /\ list' = list /\ loop' = loop
    BY <2>1 DEF utVars
  <2> QED
    BY <2>1, <2>2 DEF ContainersInv, ListsInv, LoopInv, LoopAt
<1>2. CASE ContainersNext
  <2>1. used' = used
    BY <1>2 DEF ContainersNext
  <2>2. CASE used = "single"
    <3>1. ListsInv("single") /\ LoopInv("single") /\ SingleNext
      BY <1>2, <2>2 DEF ContainersNext, ContainersInv, ListKinds
    <3>2. StepKeeps("single")
      BY <3>1, SingleKeeps
    <3> QED
      BY <2>1, <2>2, <3>2 DEF ContainersInv, StepKeeps, ListKinds
  <2>3. CASE used = "double"
    <3>1. ListsInv("double") /\ LoopInv("double") /\ DoubleNext
      BY <1>2, <2>3 DEF ContainersNext, ContainersInv, ListKinds
    <3>2. StepKeeps("double")
      BY <3>1, DoubleKeeps
    <3> QED
      BY <2>1, <2>3, <3>2 DEF ContainersInv, StepKeeps, ListKinds
  <2>4. CASE used = "circular"
    <3>1. ListsInv("circular") /\ LoopInv("circular") /\ CircularNext
      BY <1>2, <2>4 DEF ContainersNext, ContainersInv, ListKinds
    <3>2. StepKeeps("circular")
      BY <3>1, CircularKeeps
    <3> QED
      BY <2>1, <2>4, <3>2 DEF ContainersInv, StepKeeps, ListKinds
  <2>5. CASE used \notin ListKinds
    <3>1. UNCHANGED utVars
      BY <1>2, <2>5 DEF ContainersNext, ListKinds
    <3>2. loop' = loop
      BY <3>1 DEF utVars
    <3> QED
      BY <2>1, <2>5, <3>1, <3>2 DEF ContainersInv
  <2> QED
    BY <2>2, <2>3, <2>4, <2>5 DEF ListKinds
<1> QED
  BY <1>1, <1>2

(***************************************************************************)
(* The inductive invariant holds: whatever macros the program uses, the    *)
(* nodes of its two lists are linked as a list of its kind, the lists have *)
(* no node in common, and a loop that may delete its element has before it *)
(* the nodes that the list it began with has there.                        *)
(***************************************************************************)
THEOREM ContainersInvariant == ContainersSpec => []ContainersInv
<1>1. ContainersInit => ContainersInv
  BY ContainersInitially
<1>2. ContainersInv /\ [ContainersNext]_containerVars => ContainersInv'
  BY ContainersStep
<1> QED
  BY <1>1, <1>2, PTL DEF ContainersSpec

(***************************************************************************)
(* The lists of each kind, for any elements, keys and sequence of macros:  *)
(* walks over the pointers meet what was put into the lists.               *)
(***************************************************************************)
THEOREM SingleListsFaithful == ContainersSpec => []SingleFaithful
<1>1. ContainersInv => SingleFaithful
  BY SingleIsFaithful DEF ContainersInv, ListKinds, SingleFaithful
<1> QED
  BY <1>1, ContainersInvariant, PTL

(***************************************************************************)
(* The same for doubly-linked lists, whose head points back to the tail.   *)
(***************************************************************************)
THEOREM DoubleListsFaithful == ContainersSpec => []DoubleFaithful
<1>1. ContainersInv => DoubleFaithful
  BY DoubleIsFaithful DEF ContainersInv, ListKinds, DoubleFaithful
<1> QED
  BY <1>1, ContainersInvariant, PTL

(***************************************************************************)
(* The same for circular lists.                                            *)
(***************************************************************************)
THEOREM CircularListsFaithful == ContainersSpec => []CircularFaithful
<1>1. ContainersInv => CircularFaithful
  BY CircularIsFaithful DEF ContainersInv, ListKinds, CircularFaithful
<1> QED
  BY <1>1, ContainersInvariant, PTL

(***************************************************************************)
(* A loop that removes or moves the nodes it is at visits each node that   *)
(* was there when it began, once and in order: for every kind, and for     *)
(* every choice of the nodes that the body removes.                        *)
(***************************************************************************)
THEOREM LoopsVisitAll == ContainersSpec => LoopVisitsAll
<1>1. ContainersInv /\ [ContainersNext]_containerVars =>
        [~NotLooping =>
           LET visited == Append(loop.visited, loop.el)
           IN IF NotLooping' THEN visited = loop.over
              ELSE IsPrefix(Append(visited, loop'.el), loop.over)]_utVars
  BY ContainersStep DEF VisitsInOrder
<1> QED
  BY <1>1, ContainersInvariant, PTL DEF ContainersSpec, LoopVisitsAll
=============================================================================
