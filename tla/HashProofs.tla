----------------------------- MODULE HashProofs -----------------------------
(***************************************************************************)
(* Proofs about the hash tables of uthash.h, for any elements, keys, hash  *)
(* functions, thresholds and initial numbers of buckets, and any sequence  *)
(* of macros: HASH_FSCK finds nothing, a table holds what was put into it, *)
(* and its chains are bounded.                                             *)
(***************************************************************************)
EXTENDS ContainerProofs

-----------------------------------------------------------------------------
(***************************************************************************)
(* A chain of handles, such as the app order or what hangs from a bucket:  *)
(* from the head h, next and prev meet the elements s.                     *)
(***************************************************************************)
Chained(next, prev, h, s) ==
  /\ Distinct(s)
  /\ h = IF s = <<>> THEN NULL ELSE s[1]
  /\ \A i \in 1 .. Len(s) : next[s[i]] = IF i < Len(s) THEN s[i + 1] ELSE NULL
  /\ \A i \in 1 .. Len(s) : prev[s[i]] = IF i = 1 THEN NULL ELSE s[i - 1]

\* What a sequence of distinct elements is, element by element.
LEMMA DistinctFacts ==
  ASSUME NEW s, Distinct(s)
  PROVE  /\ s \in Seq(Elem) /\ Len(s) \in Nat
         /\ s = <<>> <=> Len(s) = 0
         /\ s # <<>> => 1 \in 1 .. Len(s) /\ Len(s) \in 1 .. Len(s)
         /\ Range(s) = {s[i] : i \in 1 .. Len(s)} /\ Range(s) \subseteq Elem
         /\ \A i \in 1 .. Len(s) : s[i] \in Elem /\ s[i] # NULL /\ s[i] \in Range(s)
         /\ \A i, j \in 1 .. Len(s) : s[i] = s[j] => i = j
<1>1. s \in Seq(Elem) /\ Len(s) \in Nat
  BY LenProperties DEF Distinct
<1>2. s = <<>> <=> Len(s) = 0
  BY <1>1, EmptySeq
<1>3. Range(s) = {s[i] : i \in 1 .. Len(s)} /\ Range(s) \subseteq Elem
  BY <1>1, DistinctRange
<1>4. \A i \in 1 .. Len(s) : s[i] \in Elem /\ s[i] # NULL /\ s[i] \in Range(s)
  BY <1>3, MergeSortAssumption
<1>5. s # <<>> => 1 \in 1 .. Len(s) /\ Len(s) \in 1 .. Len(s)
  BY <1>1, <1>2
<1>6. \A i, j \in 1 .. Len(s) : s[i] = s[j] => i = j
  BY DEF Distinct
<1> QED
  BY <1>1, <1>2, <1>3, <1>4, <1>5, <1>6

\* The empty sequence is distinct, and the chain of a NULL head.
LEMMA EmptyIsChained ==
  ASSUME NEW next, NEW prev
  PROVE  Distinct(<<>>) /\ Chained(next, prev, NULL, <<>>) /\ Range(<<>>) = {} /\ Len(<<>>) = 0
<1>1. <<>> \in Seq(Elem) /\ Len(<<>>) = 0
  BY EmptySeq
<1>2. Distinct(<<>>)
  BY <1>1 DEF Distinct
<1>3. Range(<<>>) = {}
  <2>1. Range(<<>>) = {<<>>[i] : i \in 1 .. Len(<<>>)}
    BY <1>2, DistinctRange
  <2> QED
    BY <1>1, <2>1
<1> QED
  BY <1>1, <1>2, <1>3 DEF Chained

\* The head of a chain.
LEMMA ChainHead ==
  ASSUME NEW next, NEW prev, NEW h, NEW s, Chained(next, prev, h, s)
  PROVE  /\ Distinct(s)
         /\ h \in Link
         /\ h = NULL <=> s = <<>>
         /\ s # <<>> => h = s[1] /\ h \in Elem /\ h \in Range(s)
<1>1. Distinct(s) /\ h = IF s = <<>> THEN NULL ELSE s[1]
  BY DEF Chained
<1>2. s # <<>> => s[1] \in Elem /\ s[1] # NULL /\ s[1] \in Range(s)
  <2>1. s # <<>> => 1 \in 1 .. Len(s)
    BY <1>1, DistinctFacts
  <2>2. \A i \in 1 .. Len(s) : s[i] \in Elem /\ s[i] # NULL /\ s[i] \in Range(s)
    BY <1>1, DistinctFacts
  <2> QED
    BY <2>1, <2>2
<1> QED
  BY <1>1, <1>2 DEF Link

\* A chain is the same when none of its elements is touched.
LEMMA ChainFrame ==
  ASSUME NEW next, NEW prev, NEW h, NEW s, Chained(next, prev, h, s), NEW next1, NEW prev1,
         \A x \in Range(s) : next1[x] = next[x] /\ prev1[x] = prev[x]
  PROVE  Chained(next1, prev1, h, s)
<1>1. \A i \in 1 .. Len(s) : s[i] \in Range(s)
  BY DistinctFacts DEF Chained
<1> QED
  BY <1>1 DEF Chained

\* An element put in front of a chain.
LEMMA ChainPush ==
  ASSUME NEW next, NEW prev, NEW h, NEW s, Chained(next, prev, h, s), NEW next1, NEW prev1,
         NEW e \in Elem, e \notin Range(s), next1[e] = h, prev1[e] = NULL,
         \A x \in Range(s) : next1[x] = next[x] /\ prev1[x] = IF x = h THEN e ELSE prev[x]
  PROVE  Chained(next1, prev1, e, <<e>> \o s) /\ Range(<<e>> \o s) = Range(s) \cup {e}
         /\ Len(<<e>> \o s) = Len(s) + 1
<1> DEFINE t == <<e>> \o s
           L == Len(s)
<1>1. /\ Distinct(s) /\ L \in Nat /\ (s = <<>> <=> L = 0) /\ (s # <<>> => 1 \in 1 .. L)
      /\ \A i \in 1 .. L : s[i] \in Range(s)
      /\ \A i, j \in 1 .. L : s[i] = s[j] => i = j
  BY DistinctFacts DEF Chained
<1>2. /\ h = IF s = <<>> THEN NULL ELSE s[1]
      /\ \A i \in 1 .. L : next[s[i]] = IF i < L THEN s[i + 1] ELSE NULL
      /\ \A i \in 1 .. L : prev[s[i]] = IF i = 1 THEN NULL ELSE s[i - 1]
  BY DEF Chained
<1>3. Insertion(s, 1, e, t)
  BY <1>1, ConsIs
<1> HIDE DEF t
<1>4. /\ Distinct(t) /\ Len(t) = L + 1 /\ t # <<>> /\ t[1] = e /\ Range(t) = Range(s) \cup {e}
      /\ \A i \in 1 .. L : t[i + 1] = s[i]
  BY <1>3 DEF Insertion
<1>5. ASSUME NEW i \in 1 .. L + 1
      PROVE  /\ next1[t[i]] = IF i < L + 1 THEN t[i + 1] ELSE NULL
             /\ prev1[t[i]] = IF i = 1 THEN NULL ELSE t[i - 1]
  <2>1. CASE i = 1
    <3>1. L = 0 \/ (i < L + 1 /\ t[i + 1] = s[1] /\ s # <<>>)
      BY <1>1, <1>4, <2>1
    <3> QED
      BY <1>1, <1>2, <1>4, <2>1, <3>1
  <2>2. CASE i # 1
    <3> DEFINE j == i - 1
    <3>1. j \in 1 .. L /\ i = j + 1 /\ (i < L + 1 <=> j < L)
      BY <1>1, <2>2
    <3> HIDE DEF j
    <3>2. t[i] = s[j] /\ t[i - 1] = t[j]
      BY <1>4, <3>1
    <3>3. next1[t[i]] = (IF j < L THEN s[j + 1] ELSE NULL)
      BY <1>1, <1>2, <3>1, <3>2
    <3>4. j < L => t[i + 1] = s[j + 1]
      <4> SUFFICES ASSUME j < L PROVE t[i + 1] = s[j + 1]
        OBVIOUS
      <4>1. j + 1 \in 1 .. L
        BY <1>1, <3>1
      <4> QED
        BY <1>4, <3>1, <4>1
    <3>5. CASE j = 1
      <4>1. t[i] = h /\ t[j] = e /\ t[i] \in Range(s)
        BY <1>1, <1>2, <1>4, <3>1, <3>2, <3>5
      <4> QED
        BY <2>2, <3>1, <3>2, <3>3, <3>4, <4>1
    <3>6. CASE j # 1
      <4>1. j - 1 \in 1 .. L /\ (j - 1) + 1 = j
        BY <1>1, <3>1, <3>6
      <4>2. t[j] = s[j - 1]
        BY <1>4, <4>1
      <4>3. s[j] # h
        BY <1>1, <1>2, <3>1, <3>6
      <4>4. prev1[s[j]] = s[j - 1]
        BY <1>1, <1>2, <3>1, <3>6, <4>3
      <4> QED
        BY <2>2, <3>1, <3>2, <3>3, <3>4, <4>2, <4>4
    <3> QED
      BY <3>5, <3>6
  <2> QED
    BY <2>1, <2>2
<1>6. Chained(next1, prev1, e, t)
  BY <1>4, <1>5 DEF Chained
<1> QED
  BY <1>4, <1>6 DEF t

\* One element alone.
LEMMA ChainOne ==
  ASSUME NEW e \in Elem, NEW next, NEW prev, next[e] = NULL, prev[e] = NULL
  PROVE  Chained(next, prev, e, <<e>>) /\ Range(<<e>>) = {e} /\ Len(<<e>>) = 1 /\ <<e>>[1] = e
<1>1. <<e>> \in Seq(Elem) /\ Len(<<e>>) = 1 /\ <<e>>[1] = e /\ <<e>> # <<>>
  OBVIOUS
<1>2. Distinct(<<e>>)
  BY <1>1 DEF Distinct
<1>3. Range(<<e>>) = {e}
  <2>1. Range(<<e>>) = {<<e>>[i] : i \in 1 .. Len(<<e>>)}
    BY <1>2, DistinctFacts
  <2> QED
    BY <1>1, <2>1
<1> QED
  BY <1>1, <1>2, <1>3 DEF Chained

\* An element put behind the last of a chain.
LEMMA ChainAppend ==
  ASSUME NEW next, NEW prev, NEW h, NEW s, Chained(next, prev, h, s), s # <<>>, NEW next1, NEW prev1,
         NEW e \in Elem, e \notin Range(s), NEW last, last = s[Len(s)],
         next1[e] = NULL, prev1[e] = last,
         \A x \in Range(s) : next1[x] = (IF x = last THEN e ELSE next[x]) /\ prev1[x] = prev[x]
  PROVE  Chained(next1, prev1, h, Append(s, e))
<1> DEFINE t == Append(s, e)
           L == Len(s)
<1>1. /\ Distinct(s) /\ L \in Nat /\ L # 0 /\ 1 \in 1 .. L /\ L \in 1 .. L
      /\ \A i \in 1 .. L : s[i] \in Range(s)
      /\ \A i, j \in 1 .. L : s[i] = s[j] => i = j
  BY DistinctFacts DEF Chained
<1>2. /\ h = s[1]
      /\ \A i \in 1 .. L : next[s[i]] = IF i < L THEN s[i + 1] ELSE NULL
      /\ \A i \in 1 .. L : prev[s[i]] = IF i = 1 THEN NULL ELSE s[i - 1]
  BY DEF Chained
<1>3. Insertion(s, L + 1, e, t)
  BY <1>1, AppendIs
<1> HIDE DEF t
<1>4. /\ Distinct(t) /\ Len(t) = L + 1 /\ t # <<>> /\ t[L + 1] = e
      /\ \A i \in 1 .. L : i < L + 1 => t[i] = s[i]
  BY <1>3 DEF Insertion
<1>5. \A i \in 1 .. L : t[i] = s[i]
  BY <1>1, <1>4
<1>6. ASSUME NEW i \in 1 .. L + 1
      PROVE  /\ next1[t[i]] = IF i < L + 1 THEN t[i + 1] ELSE NULL
             /\ prev1[t[i]] = IF i = 1 THEN NULL ELSE t[i - 1]
  <2>1. CASE i = L + 1
    <3>1. ~(i < L + 1) /\ i # 1 /\ i - 1 = L
      BY <1>1, <2>1
    <3> QED
      BY <1>1, <1>4, <1>5, <2>1, <3>1
  <2>2. CASE i # L + 1
    <3>1. i \in 1 .. L /\ i < L + 1 /\ t[i] = s[i]
      BY <1>1, <1>5, <2>2
    <3>2. i # 1 => i - 1 \in 1 .. L /\ t[i - 1] = s[i - 1]
      <4>1. i # 1 => i - 1 \in 1 .. L
        BY <1>1, <3>1
      <4> QED
        BY <1>5, <4>1
    <3>3. prev1[t[i]] = IF i = 1 THEN NULL ELSE t[i - 1]
      BY <1>1, <1>2, <3>1, <3>2
    <3>4. CASE i = L
      <4>1. t[i + 1] = e /\ s[i] = last
        BY <1>4, <3>4
      <4> QED
        BY <1>1, <3>1, <3>3, <4>1
    <3>5. CASE i # L
      <4>1. i + 1 \in 1 .. L /\ i < L
        BY <1>1, <3>1, <3>5
      <4>2. s[i] # last
        BY <1>1, <3>1, <3>5
      <4>3. next1[s[i]] = s[i + 1]
        BY <1>1, <1>2, <3>1, <4>1, <4>2
      <4> QED
        BY <1>5, <3>1, <3>3, <4>1, <4>3
    <3> QED
      BY <3>4, <3>5
  <2> QED
    BY <2>1, <2>2
<1>7. h = IF t = <<>> THEN NULL ELSE t[1]
  BY <1>1, <1>2, <1>4, <1>5
<1>8. Chained(next1, prev1, h, t)
  BY <1>4, <1>6, <1>7 DEF Chained
<1> QED
  BY <1>8 DEF t

\* The chain from h on, along next.
LEMMA ChainIs ==
  ASSUME NEW next, NEW prev, NEW h, NEW s, Chained(next, prev, h, s)
  PROVE  Chain(next, h) = s
<1> DEFINE L == Len(s)
           C == Cardinality(Elem)
<1>1. /\ Distinct(s) /\ s \in Seq(Elem) /\ L \in Nat /\ (s # <<>> => 1 \in 1 .. L /\ L \in 1 .. L)
      /\ \A i \in 1 .. L : s[i] # NULL
  BY DistinctFacts DEF Chained
<1>2. /\ h = IF s = <<>> THEN NULL ELSE s[1]
      /\ \A i \in 1 .. L : next[s[i]] = IF i < L THEN s[i + 1] ELSE NULL
  BY DEF Chained
<1>3. CASE s = <<>>
  BY <1>2, <1>3 DEF Chain
<1>4. CASE s # <<>>
  <2>1. C \in Nat /\ L <= C
    BY <1>1, DistinctLength
  <2>2. \A i \in 1 .. L - 1 : next[s[i]] = s[i + 1] /\ s[i + 1] # NULL
    <3> SUFFICES ASSUME NEW i \in 1 .. L - 1
                 PROVE  next[s[i]] = s[i + 1] /\ s[i + 1] # NULL
      OBVIOUS
    <3>1. i \in 1 .. L /\ i < L /\ i + 1 \in 1 .. L
      BY <1>1
    <3> QED
      BY <1>1, <1>2, <3>1
  <2>3. next[s[Len(s)]] \in {NULL, NULL}
    BY <1>1, <1>2, <1>4
  <2> HIDE DEF C
  <2>4. Walk(next, s[1], NULL, C) = s
    BY <1>1, <1>4, <2>1, <2>2, <2>3, WalkWhole
  <2>5. h # NULL /\ h = s[1]
    BY <1>1, <1>2, <1>4
  <2> QED
    BY <2>4, <2>5 DEF Chain, C
<1> QED
  BY <1>3, <1>4

\* A chain is followed back.
LEMMA ChainGoesBack ==
  ASSUME NEW next, NEW prev, NEW h, NEW s, Chained(next, prev, h, s)
  PROVE  GoesBack(s, prev)
<1>1. s \in Seq(Elem)
  BY DEF Chained, Distinct
<1>2. DOMAIN s = 1 .. Len(s)
  BY <1>1, LenProperties
<1> QED
  BY <1>2 DEF Chained, GoesBack

\* The neighbours of an element of a chain.
LEMMA Neighbours ==
  ASSUME NEW next, NEW prev, NEW h, NEW s, Chained(next, prev, h, s), NEW p \in 1 .. Len(s)
  PROVE  /\ prev[s[p]] = IF p = 1 THEN NULL ELSE s[p - 1]
         /\ next[s[p]] = IF p < Len(s) THEN s[p + 1] ELSE NULL
         /\ p = 1 <=> prev[s[p]] = NULL
         /\ p < Len(s) <=> next[s[p]] # NULL
         /\ h = s[p] <=> p = 1
         /\ prev[s[p]] \in (Range(s) \ {s[p]}) \cup {NULL}
         /\ next[s[p]] \in (Range(s) \ {s[p]}) \cup {NULL}
<1>1. /\ Distinct(s) /\ Len(s) \in Nat /\ (s = <<>> <=> Len(s) = 0)
      /\ \A i \in 1 .. Len(s) : s[i] # NULL /\ s[i] \in Range(s)
      /\ \A i, j \in 1 .. Len(s) : s[i] = s[j] => i = j
  BY DistinctFacts DEF Chained
<1>2. /\ prev[s[p]] = IF p = 1 THEN NULL ELSE s[p - 1]
      /\ next[s[p]] = IF p < Len(s) THEN s[p + 1] ELSE NULL
      /\ h = IF s = <<>> THEN NULL ELSE s[1]
  BY DEF Chained
<1>3. 1 \in 1 .. Len(s) /\ s # <<>>
  BY <1>1
<1>4. p # 1 => p - 1 \in 1 .. Len(s) /\ p - 1 # p
  BY <1>1
<1>5. p < Len(s) => p + 1 \in 1 .. Len(s) /\ p + 1 # p
  BY <1>1
<1>6. p # 1 => s[p - 1] # NULL /\ s[p - 1] \in Range(s) /\ s[p - 1] # s[p]
  BY <1>1, <1>4
<1>7. p < Len(s) => s[p + 1] # NULL /\ s[p + 1] \in Range(s) /\ s[p + 1] # s[p]
  BY <1>1, <1>5
<1>8. h = s[p] <=> p = 1
  BY <1>1, <1>2, <1>3
<1> QED
  BY <1>2, <1>6, <1>7, <1>8

\* The neighbours of e are linked to each other.
Unlinks(next, prev, e, next1, prev1) ==
  \A x \in Elem : /\ next1[x] = IF x = prev[e] THEN next[e] ELSE next[x]
                  /\ prev1[x] = IF x = next[e] THEN prev[e] ELSE prev[x]

\* An element taken out of a chain.
LEMMA ChainRemove ==
  ASSUME NEW next, NEW prev, NEW h, NEW s, Chained(next, prev, h, s), NEW p \in 1 .. Len(s),
         NEW t, Removal(s, p, t), NEW next1, NEW prev1, Unlinks(next, prev, s[p], next1, prev1)
  PROVE  Chained(next1, prev1, IF p = 1 THEN next[s[p]] ELSE h, t)
<1> DEFINE L == Len(s)
           before == prev[s[p]]
           after == next[s[p]]
<1>1. /\ Distinct(s) /\ L \in Nat /\ 1 \in 1 .. L
      /\ \A i \in 1 .. L : s[i] \in Elem /\ s[i] # NULL
      /\ \A i, j \in 1 .. L : s[i] = s[j] => i = j
  <2>1. /\ Distinct(s) /\ L \in Nat
        /\ \A i \in 1 .. L : s[i] \in Elem /\ s[i] # NULL
        /\ \A i, j \in 1 .. L : s[i] = s[j] => i = j
    BY DistinctFacts DEF Chained
  <2>2. 1 \in 1 .. L
    BY <2>1
  <2> QED
    BY <2>1, <2>2
<1>2. /\ h = IF s = <<>> THEN NULL ELSE s[1]
      /\ \A i \in 1 .. L : next[s[i]] = IF i < L THEN s[i + 1] ELSE NULL
      /\ \A i \in 1 .. L : prev[s[i]] = IF i = 1 THEN NULL ELSE s[i - 1]
  BY DEF Chained
<1>3. /\ before = IF p = 1 THEN NULL ELSE s[p - 1]
      /\ after = IF p < L THEN s[p + 1] ELSE NULL
  BY <1>2
<1>4. /\ Distinct(t) /\ Len(t) = L - 1
      /\ \A i \in 1 .. L - 1 : t[i] = IF i < p THEN s[i] ELSE s[i + 1]
  BY DEF Removal
<1>5. \A j \in 1 .. L : j # p => /\ next1[s[j]] = IF s[j] = before THEN after ELSE next[s[j]]
                                 /\ prev1[s[j]] = IF s[j] = after THEN before ELSE prev[s[j]]
  BY <1>1 DEF Unlinks
<1> HIDE DEF before, after
<1>6. \A j \in 1 .. L : (s[j] = before <=> j = p - 1) /\ (s[j] = after <=> j = p + 1)
  <2> SUFFICES ASSUME NEW j \in 1 .. L
               PROVE  (s[j] = before <=> j = p - 1) /\ (s[j] = after <=> j = p + 1)
    OBVIOUS
  <2>1. s[j] = before <=> j = p - 1
    <3>1. CASE p = 1
      BY <1>1, <1>3, <3>1
    <3>2. CASE p # 1
      <4>1. p - 1 \in 1 .. L
        BY <1>1, <3>2
      <4> QED
        BY <1>1, <1>3, <3>2, <4>1
    <3> QED
      BY <3>1, <3>2
  <2>2. s[j] = after <=> j = p + 1
    <3>1. CASE p < L
      <4>1. p + 1 \in 1 .. L
        BY <1>1, <3>1
      <4> QED
        BY <1>1, <1>3, <3>1, <4>1
    <3>2. CASE ~(p < L)
      BY <1>1, <1>3, <3>2
    <3> QED
      BY <3>1, <3>2
  <2> QED
    BY <2>1, <2>2
<1>7. \A j \in 1 .. L : j # p =>
        /\ next1[s[j]] = IF j = p - 1 THEN after ELSE IF j < L THEN s[j + 1] ELSE NULL
        /\ prev1[s[j]] = IF j = p + 1 THEN before ELSE IF j = 1 THEN NULL ELSE s[j - 1]
  BY <1>2, <1>5, <1>6
<1>8. ASSUME NEW i \in 1 .. L - 1
      PROVE  next1[t[i]] = IF i < L - 1 THEN t[i + 1] ELSE NULL
  <2>1. CASE i < p
    <3>1. i \in 1 .. L /\ i # p /\ t[i] = s[i] /\ i < L
      BY <1>1, <1>4, <2>1
    <3>2. CASE i = p - 1
      <4>1. next1[t[i]] = after
        BY <1>7, <3>1, <3>2
      <4>2. i < L - 1 <=> p < L
        BY <1>1, <3>2
      <4>3. p < L => t[i + 1] = s[p + 1]
        <5>1. p < L => i + 1 \in 1 .. L - 1 /\ ~(i + 1 < p) /\ (i + 1) + 1 = p + 1
          BY <1>1, <3>2
        <5> QED
          BY <1>4, <5>1
      <4> QED
        BY <1>3, <4>1, <4>2, <4>3
    <3>3. CASE i # p - 1
      <4>1. i + 1 \in 1 .. L - 1 /\ i + 1 < p /\ i < L - 1
        BY <1>1, <2>1, <3>3
      <4>2. t[i + 1] = s[i + 1]
        BY <1>4, <4>1
      <4> QED
        BY <1>7, <3>1, <3>3, <4>1, <4>2
    <3> QED
      BY <3>2, <3>3
  <2>2. CASE ~(i < p)
    <3> DEFINE j == i + 1
    <3>1. j \in 1 .. L /\ j # p /\ j # p - 1 /\ t[i] = s[j]
      BY <1>1, <1>4, <2>2
    <3>2. (j < L <=> i < L - 1) /\ (i < L - 1 => j \in 1 .. L - 1 /\ ~(j < p))
      BY <1>1, <2>2
    <3>3. i < L - 1 => t[j] = s[j + 1]
      BY <1>4, <3>2
    <3> QED
      BY <1>7, <3>1, <3>2, <3>3
  <2> QED
    BY <2>1, <2>2
<1>9. ASSUME NEW i \in 1 .. L - 1
      PROVE  prev1[t[i]] = IF i = 1 THEN NULL ELSE t[i - 1]
  <2>1. CASE i < p
    <3>1. i \in 1 .. L /\ i # p /\ t[i] = s[i] /\ i # p + 1
      BY <1>1, <1>4, <2>1
    <3>2. i # 1 => i - 1 \in 1 .. L - 1 /\ i - 1 < p
      BY <1>1, <2>1
    <3>3. i # 1 => t[i - 1] = s[i - 1]
      BY <1>4, <3>2
    <3> QED
      BY <1>7, <3>1, <3>3
  <2>2. CASE ~(i < p)
    <3> DEFINE j == i + 1
    <3>1. j \in 1 .. L /\ j # p /\ j # 1 /\ t[i] = s[j] /\ j - 1 = i
      BY <1>1, <1>4, <2>2
    <3>2. CASE i = p
      <4>1. prev1[t[i]] = before
        BY <1>7, <3>1, <3>2
      <4>2. p # 1 => p - 1 \in 1 .. L - 1 /\ p - 1 < p
        BY <1>1, <3>2
      <4>3. p # 1 => t[p - 1] = s[p - 1]
        BY <1>4, <4>2
      <4> QED
        BY <1>3, <3>2, <4>1, <4>3
    <3>3. CASE i # p
      <4>1. i - 1 \in 1 .. L - 1 /\ ~(i - 1 < p) /\ (i - 1) + 1 = i /\ i # 1 /\ j # p + 1
        BY <1>1, <2>2, <3>3
      <4>2. t[i - 1] = s[i]
        BY <1>4, <4>1
      <4> QED
        BY <1>7, <3>1, <4>1, <4>2
    <3> QED
      BY <3>2, <3>3
  <2> QED
    BY <2>1, <2>2
<1> DEFINE h1 == IF p = 1 THEN after ELSE h
<1>10. h1 = IF t = <<>> THEN NULL ELSE t[1]
  <2>0. L \in Nat /\ L >= 1 /\ p \in Nat /\ 1 <= p /\ p <= L
    BY <1>1
  <2>1. t = <<>> <=> L = 1
    <3>1. t = <<>> <=> Len(t) = 0
      BY <1>4, DistinctFacts
    <3>2. L - 1 = 0 <=> L = 1
      BY <2>0
    <3> QED
      BY <1>4, <3>1, <3>2
  <2>2. s # <<>> /\ h = s[1]
    <3>1. s # <<>>
      BY <1>1, DistinctFacts
    <3> QED
      BY <1>2, <3>1
  <2>3. CASE L = 1
    BY <1>1, <1>3, <2>1, <2>3
  <2>4. CASE L # 1
    <3>1. 1 \in 1 .. L - 1 /\ 1 + 1 = 2
      <4> HIDE DEF L
      <4> QED
        BY <2>0, <2>4
    <3>2. t[1] = IF 1 < p THEN s[1] ELSE s[2]
      BY <1>4, <3>1
    <3>3. p = 1 => p < L /\ p + 1 = 2
      BY <1>1, <2>4
    <3>4. p # 1 <=> 1 < p
      BY <1>1
    <3> QED
      BY <1>3, <2>1, <2>2, <2>4, <3>2, <3>3, <3>4
  <2> QED
    BY <2>3, <2>4
<1>11. Chained(next1, prev1, h1, t)
  BY <1>4, <1>8, <1>9, <1>10 DEF Chained
<1> QED
  BY <1>11 DEF after

\* The last element after a removal.
LEMMA LastOfRemoval ==
  ASSUME NEW next, NEW prev, NEW h, NEW s, Chained(next, prev, h, s), NEW p \in 1 .. Len(s),
         NEW t, Removal(s, p, t)
  PROVE  /\ t = <<>> <=> prev[s[p]] = NULL /\ next[s[p]] = NULL
         /\ t # <<>> => t[Len(t)] = IF s[Len(s)] = s[p] THEN prev[s[p]] ELSE s[Len(s)]
<1> DEFINE L == Len(s)
<1>1. /\ Distinct(s) /\ L \in Nat /\ L \in 1 .. L
      /\ \A i, j \in 1 .. L : s[i] = s[j] => i = j
  <2>1. /\ Distinct(s) /\ L \in Nat
        /\ \A i, j \in 1 .. L : s[i] = s[j] => i = j
    BY DistinctFacts DEF Chained
  <2>2. L \in 1 .. L
    BY <2>1
  <2> QED
    BY <2>1, <2>2
<1>2. /\ Distinct(t) /\ Len(t) = L - 1
      /\ \A i \in 1 .. L - 1 : t[i] = IF i < p THEN s[i] ELSE s[i + 1]
  BY DEF Removal
<1>3. t = <<>> <=> L = 1
  BY <1>1, <1>2, DistinctFacts
<1>4. /\ prev[s[p]] = IF p = 1 THEN NULL ELSE s[p - 1]
      /\ p = 1 <=> prev[s[p]] = NULL
      /\ p < L <=> next[s[p]] # NULL
  BY Neighbours
<1>5. L = 1 <=> p = 1 /\ ~(p < L)
  <2>1. L \in Nat /\ p \in Nat /\ 1 <= p /\ p <= L
    BY <1>1
  <2> HIDE DEF L
  <2> QED
    BY <2>1
<1>6. ASSUME t # <<>>
      PROVE  t[Len(t)] = IF s[L] = s[p] THEN prev[s[p]] ELSE s[L]
  <2>1. L - 1 \in 1 .. L - 1 /\ (L - 1) + 1 = L
    BY <1>1, <1>3, <1>6
  <2>2. t[L - 1] = IF L - 1 < p THEN s[L - 1] ELSE s[L]
    BY <1>2, <2>1
  <2>3. L - 1 < p <=> p = L
    BY <1>1
  <2>4. s[L] = s[p] <=> p = L
    BY <1>1
  <2>5. p = L => p # 1
    BY <1>1, <1>3, <1>6
  <2> QED
    BY <1>2, <1>4, <2>2, <2>3, <2>4, <2>5
<1> QED
  BY <1>3, <1>4, <1>5, <1>6

\* What HASH_SRT makes of the app order.
LEMMA ChainSort ==
  ASSUME NEW next \in [Elem -> Link], NEW prev \in [Elem -> Link], NEW h, NEW s, s # <<>>,
         Chained(next, prev, h, s)
  PROVE  LET r == SortFrom([next |-> next, prev |-> prev], h, "app")
         IN /\ r.n \in Pointers
            /\ Chained(r.n.next, r.n.prev, r.head, Sorted(s))
            /\ Range(Sorted(s)) = Range(s)
            /\ r.tail = Sorted(s)[Len(Sorted(s))]
<1> DEFINE n == [next |-> next, prev |-> prev]
           r == SortFrom(n, h, "app")
<1>1. n \in Pointers /\ n.next = next /\ n.prev = prev
  BY DEF Pointers
<1> HIDE DEF n
<1>2. IsList(n, h, s, "app")
  BY <1>1 DEF IsList, Chained, Follows, EndOf, PrevOfHead
<1>3. "app" \in Kinds
  BY DEF Kinds
<1>4. /\ r.n \in Pointers
      /\ IsList(r.n, r.head, Sorted(s), "app")
      /\ Range(Sorted(s)) = Range(s)
      /\ r.tail = Sorted(s)[Len(Sorted(s))]
  BY <1>1, <1>2, <1>3, MergeSortCorrect
<1> HIDE DEF r
<1>5. Chained(r.n.next, r.n.prev, r.head, Sorted(s))
  BY <1>4 DEF IsList, Chained, Follows, EndOf, PrevOfHead
<1> QED
  BY <1>4, <1>5 DEF r, n

-----------------------------------------------------------------------------
(***************************************************************************)
(* The chains of a table: chain b hangs from bucket b, is as long as the   *)
(* bucket counts, and has the elements of S that hash to it.               *)
(***************************************************************************)
BucketOf(e, num_bkts) == HASH_TO_BKT(Hashv(e), num_bkts)

Chains(buckets, p, chain, S) ==
  /\ buckets \in Seq(Bucket) /\ Len(buckets) > 0
  /\ chain \in [1 .. Len(buckets) -> Seq(Elem)]
  /\ S \subseteq Elem
  /\ \A b \in 1 .. Len(buckets) : /\ Chained(p.hh_next, p.hh_prev, buckets[b].hh_head, chain[b])
                                  /\ buckets[b].count = Len(chain[b])
  /\ \A b \in 1 .. Len(buckets), e \in Elem :
       e \in Range(chain[b]) <=> e \in S /\ BucketOf(e, Len(buckets)) = b

\* What a program is.
LEMMA BuildIs ==
  ASSUME build \in Builds
  PROVE  /\ Threshold \in Nat \ {0} /\ HASH_BLOOM \in Nat
         /\ build.Selections \subseteq SUBSET Elem
         /\ Threshold > 1 \/ build.Selections = {}
         /\ \A e \in Elem : KeyOf[e] \in Range(KeyOf) /\ Hashv(e) \in Nat
         /\ \A k \in Range(KeyOf) : HashOf[k] \in Nat
         /\ Range(KeyOf) = {KeyOf[e] : e \in Elem}
<1>1. build \in [HashOf : [Range(KeyOf) -> Nat], Threshold : Nat \ {0}, BLOOM : Nat,
                 Selections : SUBSET SUBSET Elem]
  BY UtHashAssumption
<1>2. Threshold > 1 \/ build.Selections = {}
  BY UtHashAssumption DEF Threshold
<1>3. Range(KeyOf) = {KeyOf[e] : e \in Elem}
  BY UtHashAssumption DEF Range
<1>4. HashOf \in [Range(KeyOf) -> Nat]
  BY <1>1 DEF HashOf
<1>5. \A e \in Elem : KeyOf[e] \in Range(KeyOf) /\ Hashv(e) \in Nat
  BY <1>3, <1>4 DEF Hashv
<1> QED
  BY <1>1, <1>2, <1>3, <1>4, <1>5 DEF Threshold, HASH_BLOOM

\* A hash value has a bucket.
LEMMA ToBucket ==
  ASSUME NEW hashv \in Nat, NEW num_bkts \in Nat \ {0}
  PROVE  HASH_TO_BKT(hashv, num_bkts) \in 1 .. num_bkts
<1>1. hashv % num_bkts \in 0 .. num_bkts - 1
  OBVIOUS
<1> QED
  BY <1>1 DEF HASH_TO_BKT

\* An element has a bucket.
LEMMA BucketOfIs ==
  ASSUME build \in Builds, NEW e \in Elem, NEW num_bkts \in Nat \ {0}
  PROVE  BucketOf(e, num_bkts) \in 1 .. num_bkts
<1>1. Hashv(e) \in Nat
  BY BuildIs
<1> QED
  BY <1>1, ToBucket DEF BucketOf

\* What is new in the handles when e is pushed to the front of a bucket's chain.
LEMMA PushedIs ==
  ASSUME NEW bkt \in Bucket, NEW p \in Handles, NEW e \in Elem, bkt.hh_head # e
  PROVE  LET p1 == Pushed(bkt, p, e)
         IN /\ p1 \in Handles /\ p1.next = p.next /\ p1.prev = p.prev
            /\ \A x \in Elem : p1.hh_next[x] = IF x = e THEN bkt.hh_head ELSE p.hh_next[x]
            /\ \A x \in Elem : p1.hh_prev[x] = IF x = e THEN NULL
                                               ELSE IF x = bkt.hh_head THEN e ELSE p.hh_prev[x]
<1> DEFINE q == [p EXCEPT !.hh_next[e] = bkt.hh_head, !.hh_prev[e] = NULL]
           p1 == Pushed(bkt, p, e)
<1>1. bkt.hh_head \in Link /\ NULL \in Link /\ e \in Link /\ NULL \notin Elem
  BY MergeSortAssumption DEF Bucket, Link
<1>2. /\ q \in Handles /\ q.next = p.next /\ q.prev = p.prev
      /\ q.hh_next = [p.hh_next EXCEPT ![e] = bkt.hh_head]
      /\ q.hh_prev = [p.hh_prev EXCEPT ![e] = NULL]
  <2>1. p.hh_next \in [Elem -> Link] /\ p.hh_prev \in [Elem -> Link]
        /\ p.next \in [Elem -> Link] /\ p.prev \in [Elem -> Link]
    BY DEF Handles
  <2>2. q = [prev |-> p.prev, next |-> p.next, hh_prev |-> [p.hh_prev EXCEPT ![e] = NULL],
             hh_next |-> [p.hh_next EXCEPT ![e] = bkt.hh_head]]
    <3> DEFINE q0 == [p EXCEPT !.hh_next[e] = bkt.hh_head]
    <3>1. q0 = [prev |-> p.prev, next |-> p.next, hh_prev |-> p.hh_prev,
                hh_next |-> [p.hh_next EXCEPT ![e] = bkt.hh_head]]
      BY DEF Handles
    <3>2. q = [q0 EXCEPT !.hh_prev[e] = NULL]
      BY DEF Handles
    <3> HIDE DEF q0, q
    <3> QED
      BY <3>1, <3>2
  <2> HIDE DEF q
  <2>3. [p.hh_prev EXCEPT ![e] = NULL] \in [Elem -> Link] /\ [p.hh_next EXCEPT ![e] = bkt.hh_head] \in [Elem -> Link]
    BY <1>1, <2>1
  <2> QED
    BY <2>1, <2>2, <2>3 DEF Handles
<1>3. p1 = IF bkt.hh_head = NULL THEN q ELSE [q EXCEPT !.hh_prev[bkt.hh_head] = e]
  BY DEF Pushed
<1> HIDE DEF q, p1
<1>4. CASE bkt.hh_head = NULL
  BY <1>1, <1>2, <1>3, <1>4 DEF p1, Handles
<1>5. CASE bkt.hh_head # NULL
  <2>1. bkt.hh_head \in Elem
    BY <1>1, <1>5 DEF Link
  <2>2. p1 = [prev |-> q.prev, next |-> q.next, hh_prev |-> [q.hh_prev EXCEPT ![bkt.hh_head] = e],
              hh_next |-> q.hh_next]
    BY <1>2, <1>3, <1>5 DEF Handles
  <2>3. [q.hh_prev EXCEPT ![bkt.hh_head] = e] \in [Elem -> Link]
    BY <1>1, <1>2, <2>1 DEF Handles
  <2>4. p1 \in Handles /\ p1.next = p.next /\ p1.prev = p.prev /\ p1.hh_next = q.hh_next
        /\ p1.hh_prev = [q.hh_prev EXCEPT ![bkt.hh_head] = e]
    BY <1>2, <2>2, <2>3 DEF Handles
  <2>5. p.hh_next \in [Elem -> Link] /\ p.hh_prev \in [Elem -> Link] /\ q.hh_prev \in [Elem -> Link]
    BY <1>2 DEF Handles
  <2>6. \A x \in Elem : p1.hh_next[x] = IF x = e THEN bkt.hh_head ELSE p.hh_next[x]
    BY <1>2, <2>4, <2>5
  <2>7. \A x \in Elem : p1.hh_prev[x] = IF x = e THEN NULL
                                        ELSE IF x = bkt.hh_head THEN e ELSE p.hh_prev[x]
    BY <1>2, <2>1, <2>4, <2>5
  <2> QED
    BY <2>4, <2>6, <2>7 DEF p1
<1> QED
  BY <1>4, <1>5

\* What the chains of a table are, one by one.
LEMMA ChainsFacts ==
  ASSUME build \in Builds, NEW buckets, NEW p, NEW chain, NEW S, Chains(buckets, p, chain, S)
  PROVE  /\ Len(buckets) \in Nat \ {0}
         /\ \A b \in 1 .. Len(buckets) : /\ buckets[b] \in Bucket
                                         /\ Distinct(chain[b]) /\ chain[b] \in Seq(Elem)
                                         /\ Range(chain[b]) = {e \in S : BucketOf(e, Len(buckets)) = b}
         /\ \A e \in S : /\ e \in Elem
                         /\ BucketOf(e, Len(buckets)) \in 1 .. Len(buckets)
                         /\ e \in Range(chain[BucketOf(e, Len(buckets))])
<1>1. buckets \in Seq(Bucket) /\ Len(buckets) > 0 /\ S \subseteq Elem
  BY DEF Chains
<1>2. Len(buckets) \in Nat \ {0}
  BY <1>1, LenProperties
<1>3. \A b \in 1 .. Len(buckets) : buckets[b] \in Bucket
  BY <1>1, ElementOfSeq
<1>4. ASSUME NEW b \in 1 .. Len(buckets)
      PROVE  /\ Distinct(chain[b]) /\ chain[b] \in Seq(Elem)
             /\ Range(chain[b]) = {e \in S : BucketOf(e, Len(buckets)) = b}
  <2>1. Chained(p.hh_next, p.hh_prev, buckets[b].hh_head, chain[b])
    BY DEF Chains
  <2>2. Distinct(chain[b])
    BY <2>1 DEF Chained
  <2>3. chain[b] \in Seq(Elem) /\ Range(chain[b]) \subseteq Elem
    BY <2>2, DistinctFacts
  <2>4. \A e \in Elem : e \in Range(chain[b]) <=> e \in S /\ BucketOf(e, Len(buckets)) = b
    BY DEF Chains
  <2> QED
    BY <1>1, <2>2, <2>3, <2>4
<1>5. \A e \in S : e \in Elem /\ BucketOf(e, Len(buckets)) \in 1 .. Len(buckets)
  BY <1>1, <1>2, BucketOfIs
<1>6. \A e \in S : e \in Range(chain[BucketOf(e, Len(buckets))])
  BY <1>5 DEF Chains
<1> QED
  BY <1>2, <1>3, <1>4, <1>5, <1>6

\* Chains are the same when none of their elements is touched.
LEMMA ChainsFrame ==
  ASSUME build \in Builds, NEW buckets, NEW p, NEW chain, NEW S, Chains(buckets, p, chain, S), NEW p1,
         \A x \in S : p1.hh_next[x] = p.hh_next[x] /\ p1.hh_prev[x] = p.hh_prev[x]
  PROVE  Chains(buckets, p1, chain, S)
<1>1. \A b \in 1 .. Len(buckets) : Range(chain[b]) = {e \in S : BucketOf(e, Len(buckets)) = b}
  BY ChainsFacts
<1>2. ASSUME NEW b \in 1 .. Len(buckets)
      PROVE  Chained(p1.hh_next, p1.hh_prev, buckets[b].hh_head, chain[b])
  <2>1. \A x \in Range(chain[b]) : p1.hh_next[x] = p.hh_next[x] /\ p1.hh_prev[x] = p.hh_prev[x]
    BY <1>1
  <2>2. Chained(p.hh_next, p.hh_prev, buckets[b].hh_head, chain[b])
    BY DEF Chains
  <2> QED
    BY <2>1, <2>2, ChainFrame
<1> QED
  BY <1>2 DEF Chains

\* New buckets have no elements.
LEMMA NewBuckets ==
  ASSUME NEW num_bkts \in Nat \ {0}, NEW p
  PROVE  /\ Buckets(num_bkts) \in Seq(Bucket) /\ Len(Buckets(num_bkts)) = num_bkts
         /\ \A b \in 1 .. num_bkts : Buckets(num_bkts)[b] = EmptyBucket
         /\ Chains(Buckets(num_bkts), p, [b \in 1 .. num_bkts |-> <<>>], {})
<1> DEFINE bs == Buckets(num_bkts)
           c == [b \in 1 .. num_bkts |-> <<>>]
<1>1. EmptyBucket \in Bucket /\ EmptyBucket.hh_head = NULL /\ EmptyBucket.count = 0
  BY DEF EmptyBucket, Bucket, Link
<1>2. bs \in Seq(Bucket) /\ Len(bs) = num_bkts /\ \A b \in 1 .. num_bkts : bs[b] = EmptyBucket
  BY <1>1 DEF Buckets
<1>3. <<>> \in Seq(Elem) /\ Range(<<>>) = {} /\ Len(<<>>) = 0 /\ Chained(p.hh_next, p.hh_prev, NULL, <<>>)
  BY EmptyIsChained, EmptySeq
<1> HIDE DEF bs
<1>4. c \in [1 .. Len(bs) -> Seq(Elem)]
  BY <1>2, <1>3
<1>5. \A b \in 1 .. Len(bs) : c[b] = <<>> /\ bs[b].hh_head = NULL /\ bs[b].count = 0
  BY <1>1, <1>2
<1> HIDE DEF c
<1>6. \A b \in 1 .. Len(bs) : /\ Chained(p.hh_next, p.hh_prev, bs[b].hh_head, c[b])
                              /\ bs[b].count = Len(c[b])
  BY <1>3, <1>5
<1>7. \A b \in 1 .. Len(bs), e \in Elem : e \in Range(c[b]) <=> e \in {} /\ BucketOf(e, Len(bs)) = b
  BY <1>3, <1>5
<1>8. Len(bs) > 0
  BY <1>2
<1>9. Chains(bs, p, c, {})
  BY <1>2, <1>4, <1>6, <1>7, <1>8 DEF Chains
<1> QED
  BY <1>2, <1>9 DEF bs, c

\* An element pushed to the chain of its bucket.
LEMMA PushKeeps ==
  ASSUME build \in Builds, NEW buckets, NEW p \in Handles, NEW chain, NEW S, Chains(buckets, p, chain, S),
         NEW e \in Elem, e \notin S, NEW b, b = BucketOf(e, Len(buckets)),
         NEW bkt \in Bucket, bkt.hh_head = e, bkt.count = buckets[b].count + 1
  PROVE  \E c : Chains([buckets EXCEPT ![b] = bkt], Pushed(buckets[b], p, e), c, S \cup {e})
<1> DEFINE bs == [buckets EXCEPT ![b] = bkt]
           p1 == Pushed(buckets[b], p, e)
           c == [chain EXCEPT ![b] = <<e>> \o chain[b]]
           L == Len(buckets)
           hd == buckets[b].hh_head
<1>1. /\ L \in Nat \ {0} /\ buckets \in Seq(Bucket) /\ S \subseteq Elem
      /\ b \in 1 .. L /\ chain \in [1 .. L -> Seq(Elem)]
      /\ \A i \in 1 .. L : /\ buckets[i] \in Bucket
                           /\ Distinct(chain[i]) /\ chain[i] \in Seq(Elem)
                           /\ Range(chain[i]) = {x \in S : BucketOf(x, L) = i}
  <2>1. /\ L \in Nat \ {0}
        /\ \A i \in 1 .. L : /\ buckets[i] \in Bucket
                             /\ Distinct(chain[i]) /\ chain[i] \in Seq(Elem)
                             /\ Range(chain[i]) = {x \in S : BucketOf(x, L) = i}
    BY ChainsFacts
  <2>2. b \in 1 .. L
    BY <2>1, BucketOfIs
  <2>3. buckets \in Seq(Bucket) /\ S \subseteq Elem /\ chain \in [1 .. L -> Seq(Elem)]
    BY DEF Chains
  <2> QED
    BY <2>1, <2>2, <2>3
<1>2. \A i \in 1 .. L : /\ Chained(p.hh_next, p.hh_prev, buckets[i].hh_head, chain[i])
                        /\ buckets[i].count = Len(chain[i])
  BY DEF Chains
<1>3. bs \in Seq(Bucket) /\ Len(bs) = L /\ \A i \in 1 .. L : bs[i] = IF i = b THEN bkt ELSE buckets[i]
  BY <1>1, ExceptSeq
<1>4. e \notin Range(chain[b]) /\ hd # e /\ (hd = NULL \/ hd \in Range(chain[b]))
  <2>1. e \notin Range(chain[b])
    BY <1>1
  <2>2. hd = NULL \/ hd \in Range(chain[b])
    BY <1>1, <1>2, ChainHead
  <2> QED
    BY <2>1, <2>2, MergeSortAssumption
<1>5. /\ \A x \in Elem : p1.hh_next[x] = IF x = e THEN hd ELSE p.hh_next[x]
      /\ \A x \in Elem : p1.hh_prev[x] = IF x = e THEN NULL ELSE IF x = hd THEN e ELSE p.hh_prev[x]
  BY <1>1, <1>4, PushedIs
<1> HIDE DEF p1, bs
<1>6. /\ Chained(p1.hh_next, p1.hh_prev, e, <<e>> \o chain[b])
      /\ Range(<<e>> \o chain[b]) = Range(chain[b]) \cup {e}
      /\ Len(<<e>> \o chain[b]) = Len(chain[b]) + 1
  <2>1. p1.hh_next[e] = hd /\ p1.hh_prev[e] = NULL
    BY <1>5
  <2>2. \A x \in Range(chain[b]) : /\ p1.hh_next[x] = p.hh_next[x]
                                   /\ p1.hh_prev[x] = IF x = hd THEN e ELSE p.hh_prev[x]
    BY <1>1, <1>4, <1>5
  <2>3. Chained(p.hh_next, p.hh_prev, hd, chain[b])
    BY <1>1, <1>2
  <2> DEFINE s == chain[b]
             next == p.hh_next
             prev == p.hh_prev
             next1 == p1.hh_next
             prev1 == p1.hh_prev
  <2>4. e \notin Range(s)
    BY <1>4
  <2> HIDE DEF hd, s, next, prev, next1, prev1
  <2>5. Chained(next1, prev1, e, <<e>> \o s) /\ Range(<<e>> \o s) = Range(s) \cup {e}
        /\ Len(<<e>> \o s) = Len(s) + 1
    <3>1. next1[e] = hd /\ prev1[e] = NULL
      BY <2>1 DEF next1, prev1
    <3>2. \A x \in Range(s) : next1[x] = next[x] /\ prev1[x] = IF x = hd THEN e ELSE prev[x]
      BY <2>2 DEF next1, prev1, next, prev, s
    <3>3. Chained(next, prev, hd, s)
      BY <2>3 DEF next, prev, s
    <3> QED
      BY <2>4, <3>1, <3>2, <3>3, ChainPush
  <2> QED
    BY <2>5 DEF next1, prev1, s
<1>7. c \in [1 .. L -> Seq(Elem)] /\ \A i \in 1 .. L : c[i] = IF i = b THEN <<e>> \o chain[b] ELSE chain[i]
  <2>1. <<e>> \o chain[b] \in Seq(Elem)
    BY <1>6 DEF Chained, Distinct
  <2> QED
    BY <1>1, <2>1
<1> HIDE DEF c
<1>8. ASSUME NEW i \in 1 .. L
      PROVE  Chained(p1.hh_next, p1.hh_prev, bs[i].hh_head, c[i]) /\ bs[i].count = Len(c[i])
  <2>1. CASE i = b
    BY <1>2, <1>3, <1>6, <1>7, <2>1
  <2>2. CASE i # b
    <3>1. \A x \in Range(chain[i]) : x \in Elem /\ x # e /\ x \notin Range(chain[b])
      BY <1>1, <2>2
    <3>2. \A x \in Range(chain[i]) : x # hd
      BY <1>4, <3>1, MergeSortAssumption
    <3>3. \A x \in Range(chain[i]) : p1.hh_next[x] = p.hh_next[x] /\ p1.hh_prev[x] = p.hh_prev[x]
      BY <1>5, <3>1, <3>2
    <3>4. Chained(p.hh_next, p.hh_prev, buckets[i].hh_head, chain[i])
      BY <1>2
    <3>5. Chained(p1.hh_next, p1.hh_prev, buckets[i].hh_head, chain[i])
      BY <3>3, <3>4, ChainFrame
    <3> QED
      BY <1>2, <1>3, <1>7, <2>2, <3>5
  <2> QED
    BY <2>1, <2>2
<1>9. ASSUME NEW i \in 1 .. L, NEW x \in Elem
      PROVE  x \in Range(c[i]) <=> x \in S \cup {e} /\ BucketOf(x, L) = i
  <2>1. CASE i = b
    BY <1>1, <1>6, <1>7, <2>1
  <2>2. CASE i # b
    BY <1>1, <1>7, <2>2
  <2> QED
    BY <2>1, <2>2
<1>10. Chains(bs, p1, c, S \cup {e})
  BY <1>1, <1>3, <1>7, <1>8, <1>9 DEF Chains
<1> QED
  BY <1>10 DEF bs, p1

\* An element taken out of a chain, and the neighbours it had.
LEMMA ChainWithout ==
  ASSUME NEW next, NEW prev, NEW h, NEW s, Chained(next, prev, h, s), NEW e \in Range(s),
         NEW next1, NEW prev1, Unlinks(next, prev, e, next1, prev1)
  PROVE  /\ Chained(next1, prev1, IF prev[e] = NULL THEN next[e] ELSE h, Without(s, e))
         /\ h = e <=> prev[e] = NULL
         /\ prev[e] \in (Range(s) \ {e}) \cup {NULL} /\ next[e] \in (Range(s) \ {e}) \cup {NULL}
         /\ Len(Without(s, e)) = Len(s) - 1
         /\ Range(Without(s, e)) = Range(s) \ {e}
         /\ Without(s, e) = <<>> <=> prev[e] = NULL /\ next[e] = NULL
         /\ Without(s, e) # <<>> =>
              Without(s, e)[Len(Without(s, e))] = IF s[Len(s)] = e THEN prev[e] ELSE s[Len(s)]
<1>1. Distinct(s)
  BY DEF Chained
<1>2. PICK p \in 1 .. Len(s) : e = s[p]
  BY <1>1, DistinctFacts
<1> DEFINE t == Without(s, s[p])
<1>3. Removal(s, p, t)
  BY <1>1, <1>2, WithoutIs
<1> HIDE DEF t
<1>4. Unlinks(next, prev, s[p], next1, prev1)
  BY <1>2
<1>5. Chained(next1, prev1, IF p = 1 THEN next[s[p]] ELSE h, t)
  BY <1>3, <1>4, ChainRemove
<1>6. /\ p = 1 <=> prev[s[p]] = NULL
      /\ h = s[p] <=> p = 1
      /\ prev[s[p]] \in (Range(s) \ {s[p]}) \cup {NULL}
      /\ next[s[p]] \in (Range(s) \ {s[p]}) \cup {NULL}
  BY Neighbours
<1>7. /\ t = <<>> <=> prev[s[p]] = NULL /\ next[s[p]] = NULL
      /\ t # <<>> => t[Len(t)] = IF s[Len(s)] = s[p] THEN prev[s[p]] ELSE s[Len(s)]
  BY <1>3, LastOfRemoval
<1>8. Len(t) = Len(s) - 1 /\ Range(t) = Range(s) \ {s[p]}
  BY <1>3 DEF Removal
<1>9. t = Without(s, e)
  BY <1>2 DEF t
<1> QED
  BY <1>2, <1>5, <1>6, <1>7, <1>8, <1>9

(* What an element taken out of its chain, or of the app order, leaves of the *)
(* handles.                                                                   *)
Rechained(p, before, after) ==
  [p EXCEPT !.hh_next = IF before = NULL THEN @ ELSE [@ EXCEPT ![before] = after],
            !.hh_prev = IF after = NULL THEN @ ELSE [@ EXCEPT ![after] = before]]
Relinked(p, before, after) ==
  [p EXCEPT !.next = IF before = NULL THEN @ ELSE [@ EXCEPT ![before] = after],
            !.prev = IF after = NULL THEN @ ELSE [@ EXCEPT ![after] = before]]

\* Setting two links, where there is something to set.
LEMMA TwoLinks ==
  ASSUME NEW f \in [Elem -> Link], NEW x0 \in Link, NEW y \in Link
  PROVE  LET g == IF x0 = NULL THEN f ELSE [f EXCEPT ![x0] = y]
         IN g \in [Elem -> Link] /\ \A x \in Elem : g[x] = IF x = x0 THEN y ELSE f[x]
<1>1. x0 = NULL \/ x0 \in Elem
  BY DEF Link
<1>2. NULL \notin Elem
  BY MergeSortAssumption
<1>3. CASE x0 = NULL
  BY <1>2, <1>3
<1>4. CASE x0 # NULL
  BY <1>1, <1>4
<1> QED
  BY <1>3, <1>4

\* An element leaves its chain.
LEMMA RechainedIs ==
  ASSUME NEW p \in Handles, NEW e \in Elem
  PROVE  LET p1 == Rechained(p, p.hh_prev[e], p.hh_next[e])
         IN /\ p1 \in Handles /\ p1.next = p.next /\ p1.prev = p.prev
            /\ Unlinks(p.hh_next, p.hh_prev, e, p1.hh_next, p1.hh_prev)
<1> DEFINE before == p.hh_prev[e]
           after == p.hh_next[e]
           hn == IF before = NULL THEN p.hh_next ELSE [p.hh_next EXCEPT ![before] = after]
           hp == IF after = NULL THEN p.hh_prev ELSE [p.hh_prev EXCEPT ![after] = before]
           p1 == Rechained(p, before, after)
<1>1. /\ p.hh_next \in [Elem -> Link] /\ p.hh_prev \in [Elem -> Link]
      /\ p.next \in [Elem -> Link] /\ p.prev \in [Elem -> Link]
      /\ before \in Link /\ after \in Link
  BY DEF Handles
<1>2. p1 = [p EXCEPT !.hh_next = hn, !.hh_prev = hp]
  BY DEF Rechained, Handles
<1> HIDE DEF p1
<1>3. hn \in [Elem -> Link] /\ \A x \in Elem : hn[x] = IF x = before THEN after ELSE p.hh_next[x]
  <2> HIDE DEF before, after
  <2> QED
    BY <1>1, TwoLinks
<1>4. hp \in [Elem -> Link] /\ \A x \in Elem : hp[x] = IF x = after THEN before ELSE p.hh_prev[x]
  <2> HIDE DEF before, after
  <2> QED
    BY <1>1, TwoLinks
<1> HIDE DEF hn, hp
<1>5. p1 = [prev |-> p.prev, next |-> p.next, hh_prev |-> hp, hh_next |-> hn]
  BY <1>2 DEF Handles
<1>6. p1 \in Handles /\ p1.next = p.next /\ p1.prev = p.prev /\ p1.hh_next = hn /\ p1.hh_prev = hp
  <2>1. hn \in [Elem -> Link] /\ hp \in [Elem -> Link]
    BY <1>3, <1>4
  <2> HIDE DEF before, after
  <2> QED
    BY <1>1, <1>5, <2>1 DEF Handles
<1>7. Unlinks(p.hh_next, p.hh_prev, e, p1.hh_next, p1.hh_prev)
  BY <1>3, <1>4, <1>6 DEF Unlinks
<1> QED
  BY <1>6, <1>7 DEF p1

\* An element leaves the app order.
LEMMA RelinkedIs ==
  ASSUME NEW p \in Handles, NEW e \in Elem
  PROVE  LET p1 == Relinked(p, p.prev[e], p.next[e])
         IN /\ p1 \in Handles /\ p1.hh_next = p.hh_next /\ p1.hh_prev = p.hh_prev
            /\ Unlinks(p.next, p.prev, e, p1.next, p1.prev)
<1> DEFINE before == p.prev[e]
           after == p.next[e]
           nx == IF before = NULL THEN p.next ELSE [p.next EXCEPT ![before] = after]
           pv == IF after = NULL THEN p.prev ELSE [p.prev EXCEPT ![after] = before]
           p1 == Relinked(p, before, after)
<1>1. /\ p.hh_next \in [Elem -> Link] /\ p.hh_prev \in [Elem -> Link]
      /\ p.next \in [Elem -> Link] /\ p.prev \in [Elem -> Link]
      /\ before \in Link /\ after \in Link
  BY DEF Handles
<1>2. p1 = [p EXCEPT !.next = nx, !.prev = pv]
  BY DEF Relinked, Handles
<1> HIDE DEF p1
<1>3. nx \in [Elem -> Link] /\ \A x \in Elem : nx[x] = IF x = before THEN after ELSE p.next[x]
  <2> HIDE DEF before, after
  <2> QED
    BY <1>1, TwoLinks
<1>4. pv \in [Elem -> Link] /\ \A x \in Elem : pv[x] = IF x = after THEN before ELSE p.prev[x]
  <2> HIDE DEF before, after
  <2> QED
    BY <1>1, TwoLinks
<1> HIDE DEF nx, pv
<1>5. p1 = [prev |-> pv, next |-> nx, hh_prev |-> p.hh_prev, hh_next |-> p.hh_next]
  BY <1>2 DEF Handles
<1>6. p1 \in Handles /\ p1.next = nx /\ p1.prev = pv /\ p1.hh_next = p.hh_next /\ p1.hh_prev = p.hh_prev
  <2>1. nx \in [Elem -> Link] /\ pv \in [Elem -> Link]
    BY <1>3, <1>4
  <2> HIDE DEF before, after
  <2> QED
    BY <1>1, <1>5, <2>1 DEF Handles
<1>7. Unlinks(p.next, p.prev, e, p1.next, p1.prev)
  BY <1>3, <1>4, <1>6 DEF Unlinks
<1> QED
  BY <1>6, <1>7 DEF p1

\* What a bucket is without e, an element of its chain.
Unchained(bkt, e, after) ==
  [hh_head |-> IF bkt.hh_head = e THEN after ELSE bkt.hh_head,
   count |-> bkt.count - 1, expand_mult |-> bkt.expand_mult]

\* An element taken out of the chain of its bucket.
LEMMA DeleteKeeps ==
  ASSUME build \in Builds, NEW buckets, NEW p \in Handles, NEW chain, NEW S, Chains(buckets, p, chain, S),
         NEW e \in S, NEW b, b = BucketOf(e, Len(buckets)),
         NEW p1 \in Handles, Unlinks(p.hh_next, p.hh_prev, e, p1.hh_next, p1.hh_prev),
         NEW bkt, bkt = Unchained(buckets[b], e, p.hh_next[e])
  PROVE  /\ b \in 1 .. Len(buckets) /\ bkt \in Bucket
         /\ \E c : Chains([buckets EXCEPT ![b] = bkt], p1, c, S \ {e})
<1>0. bkt = [hh_head |-> IF buckets[b].hh_head = e THEN p.hh_next[e] ELSE buckets[b].hh_head,
             count |-> buckets[b].count - 1, expand_mult |-> buckets[b].expand_mult]
  BY DEF Unchained
<1> DEFINE bs == [buckets EXCEPT ![b] = bkt]
           L == Len(buckets)
           hd == buckets[b].hh_head
           s == chain[b]
           next == p.hh_next
           prev == p.hh_prev
           next1 == p1.hh_next
           prev1 == p1.hh_prev
<1>1. /\ L \in Nat \ {0} /\ buckets \in Seq(Bucket) /\ S \subseteq Elem
      /\ b \in 1 .. L /\ chain \in [1 .. L -> Seq(Elem)] /\ e \in Range(s) /\ e \in Elem
      /\ \A i \in 1 .. L : /\ buckets[i] \in Bucket
                           /\ Distinct(chain[i]) /\ chain[i] \in Seq(Elem)
                           /\ Range(chain[i]) = {x \in S : BucketOf(x, L) = i}
  <2>1. /\ L \in Nat \ {0}
        /\ \A i \in 1 .. L : /\ buckets[i] \in Bucket
                             /\ Distinct(chain[i]) /\ chain[i] \in Seq(Elem)
                             /\ Range(chain[i]) = {x \in S : BucketOf(x, L) = i}
        /\ \A x \in S : BucketOf(x, L) \in 1 .. L /\ x \in Range(chain[BucketOf(x, L)])
    BY ChainsFacts
  <2>2. buckets \in Seq(Bucket) /\ S \subseteq Elem /\ chain \in [1 .. L -> Seq(Elem)]
    BY DEF Chains
  <2> QED
    BY <2>1, <2>2
<1>2. \A i \in 1 .. L : /\ Chained(next, prev, buckets[i].hh_head, chain[i])
                        /\ buckets[i].count = Len(chain[i])
  BY DEF Chains
<1>3. /\ Distinct(s) /\ s \in Seq(Elem) /\ Chained(next, prev, hd, s) /\ buckets[b].count = Len(s)
      /\ Len(s) \in Nat /\ Range(s) = {s[i] : i \in 1 .. Len(s)}
  <2>1. Distinct(s) /\ s \in Seq(Elem) /\ Chained(next, prev, hd, s) /\ buckets[b].count = Len(s)
    BY <1>1, <1>2
  <2> HIDE DEF s
  <2> QED
    BY <2>1, DistinctFacts
<1> DEFINE t == Without(s, e)
           h1 == IF hd = e THEN p.hh_next[e] ELSE hd
<1>4. Chained(next, prev, hd, s) /\ e \in Range(s) /\ Unlinks(next, prev, e, next1, prev1)
  BY <1>1, <1>3
<1>5. /\ Chained(next1, prev1, IF prev[e] = NULL THEN next[e] ELSE hd, t)
      /\ hd = e <=> prev[e] = NULL
      /\ prev[e] \in (Range(s) \ {e}) \cup {NULL} /\ next[e] \in (Range(s) \ {e}) \cup {NULL}
      /\ Len(t) = Len(s) - 1 /\ Range(t) = Range(s) \ {e}
  <2> HIDE DEF s, hd, next, prev, next1, prev1
  <2> QED
    BY <1>4, ChainWithout
<1> HIDE DEF t
<1>7. Chained(next1, prev1, h1, t)
  BY <1>5
<1>8. t \in Seq(Elem)
  BY <1>7 DEF Chained, Distinct
<1>9. bkt \in Bucket /\ bkt.hh_head = h1 /\ bkt.count = Len(t)
  <2>1. h1 \in Link /\ Len(t) \in Nat
    BY <1>7, <1>8, ChainHead, LenProperties
  <2>2. buckets[b].expand_mult \in Nat
    BY <1>1 DEF Bucket
  <2> QED
    BY <1>0, <1>3, <1>5, <2>1, <2>2 DEF Bucket
<1>10. bs \in Seq(Bucket) /\ Len(bs) = L /\ \A i \in 1 .. L : bs[i] = IF i = b THEN bkt ELSE buckets[i]
  BY <1>1, <1>9, ExceptSeq
<1> DEFINE c == [chain EXCEPT ![b] = t]
<1>11. c \in [1 .. L -> Seq(Elem)] /\ \A i \in 1 .. L : c[i] = IF i = b THEN t ELSE chain[i]
  BY <1>1, <1>8
<1> HIDE DEF c, bs
<1>12. ASSUME NEW i \in 1 .. L
       PROVE  Chained(next1, prev1, bs[i].hh_head, c[i]) /\ bs[i].count = Len(c[i])
  <2>1. CASE i = b
    BY <1>7, <1>9, <1>10, <1>11, <2>1
  <2>2. CASE i # b
    <3>1. \A x \in Range(chain[i]) : x \in Elem /\ x \notin Range(s)
      BY <1>1, <2>2
    <3>2. \A x \in Range(chain[i]) : x # prev[e] /\ x # next[e]
      BY <1>5, <3>1, MergeSortAssumption
    <3>3. \A x \in Range(chain[i]) : next1[x] = next[x] /\ prev1[x] = prev[x]
      BY <1>4, <3>1, <3>2 DEF Unlinks
    <3>4. Chained(next, prev, buckets[i].hh_head, chain[i])
      BY <1>2
    <3> HIDE DEF next, prev, next1, prev1
    <3>5. Chained(next1, prev1, buckets[i].hh_head, chain[i])
      BY <3>3, <3>4, ChainFrame
    <3> QED
      BY <1>2, <1>10, <1>11, <2>2, <3>5
  <2> QED
    BY <2>1, <2>2
<1>13. ASSUME NEW i \in 1 .. L, NEW x \in Elem
       PROVE  x \in Range(c[i]) <=> x \in S \ {e} /\ BucketOf(x, L) = i
  <2>1. CASE i = b
    BY <1>1, <1>5, <1>11, <2>1
  <2>2. CASE i # b
    BY <1>1, <1>11, <2>2
  <2> QED
    BY <2>1, <2>2
<1>14. Chains(bs, p1, c, S \ {e})
  BY <1>1, <1>10, <1>11, <1>12, <1>13 DEF Chains
<1> QED
  BY <1>1, <1>9, <1>14 DEF bs

-----------------------------------------------------------------------------
\* What a walk over the buckets has after k of them.
ByBucketUpTo(y, S, num_bkts, k) ==
  /\ y.b = k
  /\ Distinct(y.out) /\ Range(y.out) = {e \in S : BucketOf(e, num_bkts) <= k}

\* The elements of the chains, bucket by bucket: each of them once.
LEMMA ByBucketIs ==
  ASSUME build \in Builds, NEW w, NEW chain, NEW S, Chains(w.t.buckets, w.p, chain, S)
  PROVE  Distinct(ByBucket(w)) /\ Range(ByBucket(w)) = S
<1> DEFINE bs == w.t.buckets
           N == Len(bs)
           hn == w.p.hh_next
           turn == [y \in [b : Nat, out : Seq(Elem)] |->
                      IF y.b = N THEN y
                      ELSE [b |-> y.b + 1, out |-> y.out \o Chain(hn, bs[y.b + 1].hh_head)]]
           x == [b |-> 0, out |-> <<>>]
           R == {v \in [b : Nat, out : Seq(Elem)] \X (0 .. N) : ByBucketUpTo(v[1], S, N, N - v[2])}
<1>1. /\ N \in Nat \ {0} /\ S \subseteq Elem
      /\ \A b \in 1 .. N : /\ Distinct(chain[b]) /\ chain[b] \in Seq(Elem)
                           /\ Range(chain[b]) = {e \in S : BucketOf(e, N) = b}
      /\ \A e \in S : BucketOf(e, N) \in 1 .. N
  <2>1. S \subseteq Elem
    BY DEF Chains
  <2> QED
    BY <2>1, ChainsFacts
<1>2. \A b \in 1 .. N : Chain(hn, bs[b].hh_head) = chain[b]
  <2> SUFFICES ASSUME NEW b \in 1 .. N
               PROVE  Chain(hn, bs[b].hh_head) = chain[b]
    OBVIOUS
  <2>1. Chained(hn, w.p.hh_prev, bs[b].hh_head, chain[b])
    BY DEF Chains
  <2> QED
    BY <2>1, ChainIs
<1> HIDE DEF hn, bs
<1>3. <<x, N>> \in R
  <2>1. <<>> \in Seq(Elem) /\ Distinct(<<>>) /\ Range(<<>>) = {}
    BY EmptyIsChained, EmptySeq
  <2>2. x \in [b : Nat, out : Seq(Elem)] /\ N \in 0 .. N /\ N - N = 0
    BY <1>1, <2>1
  <2> HIDE DEF N
  <2>3. {e \in S : BucketOf(e, N) <= 0} = {}
    BY <1>1
  <2>4. ByBucketUpTo(x, S, N, 0)
    BY <2>1, <2>3 DEF ByBucketUpTo
  <2> HIDE DEF x
  <2> QED
    BY <2>2, <2>4
<1>4. \A y : \A k \in 1 .. N : <<y, k>> \in R => <<turn[y], k - 1>> \in R
  <2> SUFFICES ASSUME NEW y, NEW k \in 1 .. N, <<y, k>> \in R
               PROVE  <<turn[y], k - 1>> \in R
    OBVIOUS
  <2> HIDE DEF N
  <2>1. y \in [b : Nat, out : Seq(Elem)] /\ ByBucketUpTo(y, S, N, N - k)
    OBVIOUS
  <2> DEFINE b1 == y.b + 1
             z == [b |-> b1, out |-> y.out \o chain[b1]]
  <2>2. /\ y.b = N - k /\ y.b # N /\ b1 \in 1 .. N /\ b1 = N - (k - 1) /\ b1 \in Nat
        /\ k - 1 \in 0 .. N
    BY <1>1, <2>1 DEF ByBucketUpTo
  <2>3. turn[y] = z
    BY <1>2, <2>1, <2>2
  <2>4. Distinct(y.out) /\ Range(y.out) = {e \in S : BucketOf(e, N) <= y.b}
    BY <2>1, <2>2 DEF ByBucketUpTo
  <2>5. Distinct(chain[b1]) /\ Range(chain[b1]) = {e \in S : BucketOf(e, N) = b1}
    BY <1>1, <2>2
  <2>6. Range(y.out) \cap Range(chain[b1]) = {}
    BY <1>1, <2>2, <2>4, <2>5
  <2>7. Joined(y.out, chain[b1], y.out \o chain[b1])
    <3> DEFINE s1 == y.out
               s2 == chain[b1]
    <3> HIDE DEF s1, s2
    <3>1. Distinct(s1) /\ Distinct(s2) /\ Range(s1) \cap Range(s2) = {}
      BY <2>4, <2>5, <2>6 DEF s1, s2
    <3>2. Joined(s1, s2, s1 \o s2)
      BY <3>1, JoinIs
    <3> QED
      BY <3>2 DEF s1, s2
  <2>8. Distinct(z.out) /\ Range(z.out) = {e \in S : BucketOf(e, N) <= b1} /\ z.b = b1
    <3>1. Distinct(z.out) /\ Range(z.out) = Range(y.out) \cup Range(chain[b1])
      BY <2>7 DEF Joined
    <3>2. \A e \in S : BucketOf(e, N) <= b1 <=> BucketOf(e, N) <= y.b \/ BucketOf(e, N) = b1
      BY <1>1, <2>2
    <3> HIDE DEF b1
    <3>3. Range(z.out) = {e \in S : BucketOf(e, N) <= b1}
      BY <2>4, <2>5, <3>1, <3>2
    <3> QED
      BY <3>1, <3>3
  <2>9. z \in [b : Nat, out : Seq(Elem)]
    BY <2>2, <2>8 DEF Distinct
  <2> HIDE DEF z, turn
  <2>10. ByBucketUpTo(z, S, N, N - (k - 1))
    BY <2>2, <2>8 DEF ByBucketUpTo
  <2> QED
    BY <2>2, <2>3, <2>9, <2>10
<1> HIDE DEF turn, x, R
<1>5. <<Repeat(turn, x, N), 0>> \in R
  <2>1. N \in Nat
    BY <1>1
  <2> HIDE DEF N
  <2> QED
    BY <1>3, <1>4, <2>1, RepeatRule
<1>6. ByBucket(w) = Repeat(turn, x, N).out
  BY DEF ByBucket, turn, x, bs, hn
<1> DEFINE y == Repeat(turn, x, N)
<1> HIDE DEF y, N
<1>7. ByBucketUpTo(y, S, N, N - 0)
  BY <1>5 DEF R, y
<1>8. N - 0 = N /\ {e \in S : BucketOf(e, N) <= N} = S
  BY <1>1
<1> QED
  BY <1>6, <1>7, <1>8 DEF ByBucketUpTo, y

-----------------------------------------------------------------------------
\* A product is as large as a factor when the other is positive.
LEMMA Multiple ==
  ASSUME NEW m \in Nat, NEW a \in Nat
  PROVE  (m + 1) * a \in Nat /\ (m + 1) * a >= a
<1>1. m * a \in Nat
  OBVIOUS
<1>2. (m + 1) * a = m * a + a
  OBVIOUS
<1> DEFINE x == m * a
<1>3. x \in Nat /\ (m + 1) * a = x + a
  BY <1>1, <1>2
<1> HIDE DEF x
<1> QED
  BY <1>3

\* A quotient.
LEMMA Quotient ==
  ASSUME NEW a \in Nat, NEW d \in Nat \ {0}
  PROVE  /\ a \div d \in Nat /\ a % d \in 0 .. d - 1
         /\ a = d * (a \div d) + (a % d)
  OBVIOUS

\* A number is less than the next multiple of its divisor.
LEMMA NextMultiple ==
  ASSUME NEW a \in Nat, NEW d \in Nat \ {0}
  PROVE  a < (a \div d + 1) * (d + 1)
<1> DEFINE q == a \div d
           r == a % d
<1>1. q \in Nat /\ r \in 0 .. d - 1 /\ a = d * q + r
  BY Quotient
<1> HIDE DEF q, r
<1>2. (q + 1) * (d + 1) = (d * q + d) + (q + 1)
  BY <1>1
<1>3. d * q \in Nat
  BY <1>1
<1> DEFINE x == d * q
<1>4. x \in Nat /\ a = x + r /\ (q + 1) * (d + 1) = (x + d) + (q + 1)
  BY <1>1, <1>2, <1>3
<1> HIDE DEF x
<1>5. a < (q + 1) * (d + 1)
  BY <1>1, <1>4
<1> QED
  BY <1>5 DEF q

\* The ideal chain length of a table with elements is positive.
LEMMA IdealChainIs ==
  ASSUME NEW t, t.num_items \in Nat, Len(t.buckets) \in Nat \ {0}
  PROVE  IdealChain(t) \in Nat /\ (t.num_items > 0 => IdealChain(t) > 0)
<1> DEFINE a == t.num_items
           d == 2 * Len(t.buckets)
           q == a \div d
           r == a % d
<1>1. a \in Nat /\ d \in Nat \ {0}
  OBVIOUS
<1>2. IdealChain(t) = q + (IF r # 0 THEN 1 ELSE 0)
  BY DEF IdealChain
<1> HIDE DEF a, d
<1>3. q \in Nat /\ r \in 0 .. d - 1 /\ a = d * q + r
  BY <1>1, Quotient
<1> HIDE DEF q, r
<1>4. q = 0 => a = r
  BY <1>1, <1>3
<1>5. IdealChain(t) \in Nat /\ (a > 0 => IdealChain(t) > 0)
  <2>1. CASE r = 0
    BY <1>1, <1>2, <1>3, <1>4, <2>1
  <2>2. CASE r # 0
    BY <1>1, <1>2, <1>3, <2>2
  <2> QED
    BY <2>1, <2>2
<1> QED
  BY <1>5 DEF a

\* No chain is longer than an expansion leaves it, expand_mult times and a part of the ideal.
Limited(buckets, ideal) ==
  \A b \in 1 .. Len(buckets) : buckets[b].count < (buckets[b].expand_mult + 1) * (ideal + 1)

\* What an expansion has done after k elements of the table s.
RedistributedUpTo(y, p, s, num_bkts, ideal, k) ==
  /\ y.done = k
  /\ y.p.next = p.next /\ y.p.prev = p.prev
  /\ Len(y.buckets) = num_bkts
  /\ Limited(y.buckets, ideal)
  /\ \E chain : Chains(y.buckets, y.p, chain, {s[i] : i \in 1 .. k})

Redistributions == [buckets : Seq(Bucket), p : Handles, nonideal : Nat, done : Nat]

\* One more element goes into its new bucket.
LEMMA RedistributeKeeps ==
  ASSUME build \in Builds, NEW s, Distinct(s), NEW k \in 0 .. Len(s) - 1, NEW p, NEW num_bkts,
         NEW ideal \in Nat \ {0}, NEW y \in Redistributions,
         RedistributedUpTo(y, p, s, num_bkts, ideal, k), NEW z, z = Redistribute(y, s[k + 1], ideal)
  PROVE  z \in Redistributions /\ RedistributedUpTo(z, p, s, num_bkts, ideal, k + 1)
<1> DEFINE e == s[k + 1]
           S == {s[i] : i \in 1 .. k}
           bs == y.buckets
           b == BucketOf(e, Len(bs))
           count == bs[b].count + 1
           mult == IF count > ideal THEN count \div ideal ELSE bs[b].expand_mult
           bkt == [hh_head |-> e, count |-> count, expand_mult |-> mult]
<1>1. Len(s) \in Nat /\ k \in Nat /\ k + 1 \in 1 .. Len(s) /\ e \in Elem /\ e \notin S
  <2>1. Len(s) \in Nat /\ \A i, j \in 1 .. Len(s) : s[i] = s[j] => i = j
    BY DistinctFacts
  <2>2. k \in Nat /\ k + 1 \in 1 .. Len(s) /\ \A i \in 1 .. k : i \in 1 .. Len(s) /\ i # k + 1
    BY <2>1
  <2>3. e \in Elem
    BY <2>2, DistinctFacts
  <2> QED
    BY <2>1, <2>2, <2>3
<1>2. PICK chain : Chains(bs, y.p, chain, S)
  BY DEF RedistributedUpTo
<1>3. bs \in Seq(Bucket) /\ y.p \in Handles /\ y.nonideal \in Nat /\ y.done = k
  BY DEF Redistributions, RedistributedUpTo
<1> HIDE DEF e, S, bs
<1>4. Len(bs) \in Nat \ {0} /\ b \in 1 .. Len(bs) /\ bs[b] \in Bucket
  <2>1. Len(bs) \in Nat \ {0} /\ \A i \in 1 .. Len(bs) : bs[i] \in Bucket
    BY <1>2, ChainsFacts
  <2>2. b \in 1 .. Len(bs)
    BY <1>1, <2>1, BucketOfIs
  <2> QED
    BY <2>1, <2>2
<1>5. count \in Nat /\ bs[b].expand_mult \in Nat
  BY <1>4 DEF Bucket
<1>6. z = [buckets |-> [bs EXCEPT ![b] = bkt], p |-> Pushed(bs[b], y.p, e),
           nonideal |-> y.nonideal + (IF count > ideal THEN 1 ELSE 0), done |-> k + 1]
  BY <1>3 DEF Redistribute, BucketOf, bs, e
<1> HIDE DEF b, count
<1>7. mult \in Nat /\ count < (mult + 1) * (ideal + 1)
  <2>1. CASE count > ideal
    <3>1. count \div ideal \in Nat
      BY <1>5, Quotient
    <3>2. count < (count \div ideal + 1) * (ideal + 1)
      BY <1>5, NextMultiple
    <3> QED
      BY <2>1, <3>1, <3>2
  <2>2. CASE ~(count > ideal)
    <3> DEFINE m == bs[b].expand_mult
               a == ideal + 1
    <3>1. m \in Nat /\ a \in Nat /\ mult = m
      BY <1>5, <2>2
    <3> HIDE DEF m, mult
    <3>2. (m + 1) * a \in Nat /\ (m + 1) * a >= a
      <4> HIDE DEF a
      <4> QED
        BY <3>1, Multiple
    <3>3. count < (m + 1) * a
      <4>1. count < a
        BY <1>5, <2>2
      <4> DEFINE v == (m + 1) * a
      <4> HIDE DEF v
      <4>2. v \in Nat /\ v >= a
        BY <3>2 DEF v
      <4>3. count < v
        BY <1>5, <3>1, <4>1, <4>2
      <4> QED
        BY <4>3 DEF v
    <3> QED
      BY <3>1, <3>3
  <2> QED
    BY <2>1, <2>2
<1> HIDE DEF mult
<1>8. bkt \in Bucket /\ bkt.hh_head = e /\ bkt.count = count /\ bkt.expand_mult = mult
  BY <1>1, <1>5, <1>7 DEF Bucket, Link
<1> HIDE DEF bkt
<1>9. /\ [bs EXCEPT ![b] = bkt] \in Seq(Bucket) /\ Len([bs EXCEPT ![b] = bkt]) = Len(bs)
      /\ \A i \in 1 .. Len(bs) : [bs EXCEPT ![b] = bkt][i] = IF i = b THEN bkt ELSE bs[i]
  BY <1>3, <1>4, <1>8, ExceptSeq
<1>10. \E c : Chains([bs EXCEPT ![b] = bkt], Pushed(bs[b], y.p, e), c, S \cup {e})
  <2>1. bkt.count = bs[b].count + 1 /\ b = BucketOf(e, Len(bs))
    BY <1>8 DEF count, b
  <2> QED
    BY <1>1, <1>2, <1>3, <1>8, <2>1, PushKeeps
<1>11. Pushed(bs[b], y.p, e) \in Handles /\ Pushed(bs[b], y.p, e).next = y.p.next /\ Pushed(bs[b], y.p, e).prev = y.p.prev
  <2>1. bs[b].hh_head # e
    <3>1. Chained(y.p.hh_next, y.p.hh_prev, bs[b].hh_head, chain[b]) /\ Range(chain[b]) \subseteq S
      <4>1. Range(chain[b]) \subseteq S
        BY <1>2, <1>4, ChainsFacts
      <4> QED
        BY <1>2, <1>4, <4>1 DEF Chains
    <3>2. bs[b].hh_head = NULL \/ bs[b].hh_head \in Range(chain[b])
      BY <3>1, ChainHead
    <3> QED
      BY <1>1, <3>1, <3>2, MergeSortAssumption
  <2> QED
    BY <1>1, <1>3, <1>4, <2>1, PushedIs
<1>12. S \cup {e} = {s[i] : i \in 1 .. k + 1}
  <2>1. 1 .. k + 1 = (1 .. k) \cup {k + 1}
    BY <1>1
  <2> QED
    BY <2>1 DEF S, e
<1> DEFINE bs1 == [bs EXCEPT ![b] = bkt]
           p1 == Pushed(bs[b], y.p, e)
           more == IF count > ideal THEN 1 ELSE 0
<1>13. y.nonideal + more \in Nat
  BY <1>3
<1> HIDE DEF bs1, p1, more
<1>14. z \in Redistributions /\ z.buckets = bs1 /\ z.p = p1 /\ z.done = k + 1
  <2>1. z = [buckets |-> bs1, p |-> p1, nonideal |-> y.nonideal + more, done |-> k + 1]
    BY <1>6 DEF bs1, p1, more
  <2>2. bs1 \in Seq(Bucket) /\ p1 \in Handles
    BY <1>9, <1>11 DEF bs1, p1
  <2> QED
    BY <1>1, <1>13, <2>1, <2>2 DEF Redistributions
<1>15. Limited(bs1, ideal)
  <2> SUFFICES ASSUME NEW i \in 1 .. Len(bs)
               PROVE  bs1[i].count < (bs1[i].expand_mult + 1) * (ideal + 1)
    BY <1>9 DEF Limited, bs1
  <2>1. CASE i = b
    BY <1>7, <1>8, <1>9, <2>1 DEF bs1
  <2>2. CASE i # b
    <3>1. bs1[i] = bs[i]
      BY <1>9, <2>2 DEF bs1
    <3> QED
      BY <3>1 DEF RedistributedUpTo, Limited, bs
  <2> QED
    BY <2>1, <2>2
<1>16. /\ z.p.next = p.next /\ z.p.prev = p.prev /\ Len(z.buckets) = num_bkts
  BY <1>9, <1>11, <1>14 DEF RedistributedUpTo, bs1, p1, bs
<1>17. \E c : Chains(z.buckets, z.p, c, {s[i] : i \in 1 .. k + 1})
  BY <1>10, <1>12, <1>14 DEF bs1, p1
<1> QED
  BY <1>14, <1>15, <1>16, <1>17 DEF RedistributedUpTo

\* All elements go into twice as many buckets.
LEMMA RedistributedIs ==
  ASSUME build \in Builds, NEW w, w.p \in Handles, NEW chain, NEW S, Chains(w.t.buckets, w.p, chain, S),
         NEW ideal \in Nat \ {0}
  PROVE  LET y == Redistributed(w, ideal)
         IN /\ y \in Redistributions
            /\ y.p.next = w.p.next /\ y.p.prev = w.p.prev
            /\ Len(y.buckets) > 0
            /\ Limited(y.buckets, ideal)
            /\ \E c : Chains(y.buckets, y.p, c, S)
<1> DEFINE s == ByBucket(w)
           N == Len(s)
           num_bkts == 2 * Len(w.t.buckets)
           p == w.p
           turn == [y \in Redistributions |-> IF y.done = N THEN y ELSE Redistribute(y, s[y.done + 1], ideal)]
           x == [buckets |-> Buckets(num_bkts), p |-> p, nonideal |-> 0, done |-> 0]
           R == {v \in Redistributions \X (0 .. N) : RedistributedUpTo(v[1], p, s, num_bkts, ideal, N - v[2])}
<1>1. Distinct(s) /\ Range(s) = S
  BY ByBucketIs
<1>2. num_bkts \in Nat \ {0}
  <2>1. Len(w.t.buckets) \in Nat \ {0}
    BY ChainsFacts
  <2> QED
    BY <2>1
<1>3. Redistributed(w, ideal) = Repeat(turn, x, N)
  BY DEF Redistributed, Redistributions
<1> HIDE DEF s, num_bkts
<1>4. N \in Nat /\ Range(s) = {s[i] : i \in 1 .. N}
  BY <1>1, DistinctFacts
<1> HIDE DEF N
<1>5. <<x, N>> \in R
  <2> DEFINE bs == Buckets(num_bkts)
  <2>1. /\ bs \in Seq(Bucket) /\ Len(bs) = num_bkts
        /\ \A b \in 1 .. num_bkts : bs[b] = EmptyBucket
        /\ Chains(bs, p, [b \in 1 .. num_bkts |-> <<>>], {})
    BY <1>2, NewBuckets
  <2> HIDE DEF bs, p
  <2>2. Limited(bs, ideal)
    <3>1. EmptyBucket.count = 0 /\ EmptyBucket.expand_mult = 0
      BY DEF EmptyBucket
    <3>2. 0 < (0 + 1) * (ideal + 1)
      OBVIOUS
    <3> QED
      BY <2>1, <3>1, <3>2 DEF Limited
  <2>3. x \in Redistributions
    <3>1. p \in Handles
      BY DEF p
    <3> QED
      BY <2>1, <3>1 DEF Redistributions, bs
  <2>4. {s[i] : i \in 1 .. 0} = {}
    OBVIOUS
  <2>5. \E c : Chains(x.buckets, x.p, c, {s[i] : i \in 1 .. 0})
    BY <2>1, <2>4 DEF bs
  <2>6. RedistributedUpTo(x, p, s, num_bkts, ideal, 0)
    BY <2>1, <2>2, <2>5 DEF RedistributedUpTo, bs
  <2>7. N - N = 0 /\ N \in 0 .. N
    BY <1>4
  <2> HIDE DEF x
  <2> QED
    BY <2>3, <2>6, <2>7
<1>6. \A y : \A k \in 1 .. N : <<y, k>> \in R => <<turn[y], k - 1>> \in R
  <2> SUFFICES ASSUME NEW y, NEW k \in 1 .. N, <<y, k>> \in R
               PROVE  <<turn[y], k - 1>> \in R
    OBVIOUS
  <2> DEFINE k1 == N - k
  <2>1. y \in Redistributions /\ RedistributedUpTo(y, p, s, num_bkts, ideal, k1)
    OBVIOUS
  <2>2. k1 \in 0 .. N - 1 /\ k1 # N /\ k - 1 \in 0 .. N /\ k1 + 1 = N - (k - 1)
    BY <1>4
  <2>3. y.done = k1
    BY <2>1 DEF RedistributedUpTo
  <2> DEFINE z == Redistribute(y, s[k1 + 1], ideal)
  <2>4. turn[y] = z
    BY <2>1, <2>2, <2>3
  <2> HIDE DEF k1, turn, p
  <2>5. z \in Redistributions /\ RedistributedUpTo(z, p, s, num_bkts, ideal, k1 + 1)
    <3>1. k1 \in 0 .. Len(s) - 1
      BY <2>2 DEF N
    <3> QED
      BY <1>1, <2>1, <3>1, RedistributeKeeps
  <2> HIDE DEF z
  <2> QED
    BY <2>2, <2>4, <2>5
<1> HIDE DEF turn, x, R
<1>7. <<Repeat(turn, x, N), 0>> \in R
  BY <1>4, <1>5, <1>6, RepeatRule
<1> DEFINE y == Repeat(turn, x, N)
<1> HIDE DEF y
<1>8. y \in Redistributions /\ RedistributedUpTo(y, p, s, num_bkts, ideal, N - 0)
  BY <1>7 DEF R, y
<1>9. {s[i] : i \in 1 .. N - 0} = S
  BY <1>1, <1>4
<1>10. /\ y \in Redistributions
       /\ y.p.next = w.p.next /\ y.p.prev = w.p.prev
       /\ Len(y.buckets) > 0
       /\ Limited(y.buckets, ideal)
       /\ \E c : Chains(y.buckets, y.p, c, S)
  <2> DEFINE U == {s[i] : i \in 1 .. N - 0}
  <2>1. /\ y \in Redistributions
        /\ y.p.next = p.next /\ y.p.prev = p.prev
        /\ Len(y.buckets) = num_bkts
        /\ Limited(y.buckets, ideal)
        /\ \E c : Chains(y.buckets, y.p, c, U)
    BY <1>8 DEF RedistributedUpTo
  <2>2. U = S
    BY <1>9
  <2> HIDE DEF U
  <2>3. \E c : Chains(y.buckets, y.p, c, S)
    BY <2>1, <2>2
  <2>4. Len(y.buckets) > 0
    BY <1>2, <2>1
  <2> QED
    BY <2>1, <2>3, <2>4
<1>11. Redistributed(w, ideal) = y
  BY <1>3 DEF y
<1> QED
  BY <1>10, <1>11

-----------------------------------------------------------------------------
\* As long as a table may be expanded, its chains are bounded.
LengthBound(bkt, ideal) ==
  bkt.count < (bkt.expand_mult + 1) * Threshold \/ bkt.count < (bkt.expand_mult + 1) * (ideal + 1)
Bounded(t) == ~t.noexpand => \A b \in 1 .. Len(t.buckets) : LengthBound(t.buckets[b], t.ideal)

\* What no change of the buckets changes.
SameTable(t, t1) == t1.head = t.head /\ t1.tail = t.tail /\ t1.num_items = t.num_items /\ t1.bloom = t.bloom

\* A table after a change of its chains to those of S.
Rebuilt(w, w1, S) ==
  /\ w1.t \in Table /\ w1.p \in Handles
  /\ SameTable(w.t, w1.t) /\ w1.p.next = w.p.next /\ w1.p.prev = w.p.prev
  /\ Bounded(w1.t)
  /\ \E c : Chains(w1.t.buckets, w1.p, c, S)

\* The buckets are doubled.
LEMMA ExpandKeeps ==
  ASSUME build \in Builds, NEW w, w.t \in Table, w.p \in Handles, w.t.num_items > 0,
         NEW S, \E c : Chains(w.t.buckets, w.p, c, S)
  PROVE  Rebuilt(w, HASH_EXPAND_BUCKETS(w), S)
<1> DEFINE ideal == IdealChain(w.t)
           y == Redistributed(w, ideal)
           ineff == IF y.nonideal > w.t.num_items \div 2 THEN w.t.ineff + 1 ELSE 0
           w1 == HASH_EXPAND_BUCKETS(w)
<1>1. PICK c : Chains(w.t.buckets, w.p, c, S)
  OBVIOUS
<1>2. ideal \in Nat \ {0}
  <2>1. Len(w.t.buckets) \in Nat \ {0}
    BY <1>1, ChainsFacts
  <2>2. w.t.num_items \in Nat
    BY DEF Table
  <2> QED
    BY <2>1, <2>2, IdealChainIs
<1> HIDE DEF ideal
<1>3. /\ y \in Redistributions
      /\ y.p.next = w.p.next /\ y.p.prev = w.p.prev
      /\ Limited(y.buckets, ideal)
      /\ \E d : Chains(y.buckets, y.p, d, S)
  BY <1>1, <1>2, RedistributedIs
<1>4. w1 = [t |-> [w.t EXCEPT !.buckets = y.buckets, !.ideal = ideal, !.nonideal = y.nonideal,
                              !.ineff = ineff, !.noexpand = @ \/ ineff > 1],
            p |-> y.p]
  BY DEF HASH_EXPAND_BUCKETS, ideal
<1> HIDE DEF y
<1>5. y.buckets \in Seq(Bucket) /\ y.p \in Handles /\ y.nonideal \in Nat
  BY <1>3 DEF Redistributions
<1>6. ineff \in Nat
  BY DEF Table
<1> HIDE DEF ineff, w1
<1> DEFINE t1 == w1.t
           noexpand == w.t.noexpand \/ ineff > 1
<1>7. w1.p = y.p /\ t1 = [head |-> w.t.head, tail |-> w.t.tail, buckets |-> y.buckets,
                          num_items |-> w.t.num_items, ideal |-> ideal, nonideal |-> y.nonideal,
                          ineff |-> ineff, noexpand |-> noexpand, bloom |-> w.t.bloom]
  BY <1>4 DEF Table
<1>8. noexpand \in BOOLEAN
  BY DEF Table
<1> HIDE DEF noexpand, t1
<1>9. t1 \in Table
  BY <1>2, <1>5, <1>6, <1>7, <1>8 DEF Table
<1>10. SameTable(w.t, t1) /\ t1.buckets = y.buckets /\ t1.ideal = ideal
  BY <1>7 DEF SameTable
<1>11. Bounded(t1)
  BY <1>3, <1>10 DEF Bounded, LengthBound, Limited
<1>12. w1.p \in Handles /\ w1.p.next = w.p.next /\ w1.p.prev = w.p.prev
  BY <1>3, <1>5, <1>7
<1>13. \E d : Chains(t1.buckets, w1.p, d, S)
  BY <1>3, <1>7, <1>10
<1>14. Rebuilt(w, w1, S)
  BY <1>9, <1>10, <1>11, <1>12, <1>13 DEF Rebuilt, t1
<1> QED
  BY <1>14 DEF w1

\* One bucket of a table is changed.
WithBucket(t, b, bkt) == [t EXCEPT !.buckets = [t.buckets EXCEPT ![b] = bkt]]

\* What it is then.
LEMMA WithBucketFields ==
  ASSUME NEW t \in Table, NEW b \in 1 .. Len(t.buckets), NEW bkt \in Bucket
  PROVE  LET t1 == WithBucket(t, b, bkt)
         IN /\ t1 \in Table /\ SameTable(t, t1)
            /\ t1.buckets = [t.buckets EXCEPT ![b] = bkt]
            /\ t1.noexpand = t.noexpand /\ t1.ideal = t.ideal
<1> DEFINE t1 == WithBucket(t, b, bkt)
           bs == [t.buckets EXCEPT ![b] = bkt]
<1>1. t.buckets \in Seq(Bucket)
  BY DEF Table
<1>2. bs \in Seq(Bucket)
  BY <1>1, ExceptSeq
<1>3. t1 = [t EXCEPT !.buckets = bs]
  BY DEF WithBucket
<1> HIDE DEF t1, bs
<1>4. t1 = [head |-> t.head, tail |-> t.tail, buckets |-> bs,
            num_items |-> t.num_items, ideal |-> t.ideal, nonideal |-> t.nonideal,
            ineff |-> t.ineff, noexpand |-> t.noexpand, bloom |-> t.bloom]
  BY <1>3 DEF Table
<1>5. t1 \in Table /\ SameTable(t, t1) /\ t1.buckets = bs /\ t1.noexpand = t.noexpand /\ t1.ideal = t.ideal
  BY <1>2, <1>4 DEF Table, SameTable
<1> QED
  BY <1>5 DEF t1, bs

\* Its chains are bounded when that bucket's is.
LEMMA WithBucketIs ==
  ASSUME NEW t \in Table, NEW b \in 1 .. Len(t.buckets), NEW bkt \in Bucket,
         ~t.noexpand => LengthBound(bkt, t.ideal), Bounded(t)
  PROVE  LET t1 == WithBucket(t, b, bkt)
         IN /\ t1 \in Table /\ SameTable(t, t1) /\ Bounded(t1)
            /\ t1.buckets = [t.buckets EXCEPT ![b] = bkt]
<1> DEFINE t1 == WithBucket(t, b, bkt)
           bs == [t.buckets EXCEPT ![b] = bkt]
<1>1. t.buckets \in Seq(Bucket)
  BY DEF Table
<1>2. /\ bs \in Seq(Bucket) /\ Len(bs) = Len(t.buckets)
      /\ \A i \in 1 .. Len(t.buckets) : bs[i] = IF i = b THEN bkt ELSE t.buckets[i]
  BY <1>1, ExceptSeq
<1>5. t1 \in Table /\ SameTable(t, t1) /\ t1.buckets = bs /\ t1.noexpand = t.noexpand /\ t1.ideal = t.ideal
  BY WithBucketFields
<1> HIDE DEF t1, bs
<1>6. Bounded(t1)
  <2> SUFFICES ASSUME ~t.noexpand, NEW i \in 1 .. Len(t.buckets)
               PROVE  LengthBound(bs[i], t.ideal)
    BY <1>2, <1>5 DEF Bounded
  <2>1. CASE i = b
    BY <1>2, <2>1
  <2>2. CASE i # b
    BY <1>2, <2>2 DEF Bounded
  <2> QED
    BY <2>1, <2>2
<1> QED
  BY <1>5, <1>6 DEF t1, bs

\* HASH_ADD_TO_BKT: the element goes into its bucket, which may be too long then.
LEMMA AddToBktKeeps ==
  ASSUME build \in Builds, NEW w, w.t \in Table, w.p \in Handles, Bounded(w.t),
         NEW S, \E c : Chains(w.t.buckets, w.p, c, S), NEW e \in Elem, e \notin S,
         w.t.num_items > 0 \/ (S = {} /\ Threshold > 1)
  PROVE  Rebuilt(w, HASH_ADD_TO_BKT(w, e), S \cup {e})
<1> DEFINE t == w.t
           bs == t.buckets
           b == BucketOf(e, Len(bs))
           bkt == [hh_head |-> e, count |-> bs[b].count + 1, expand_mult |-> bs[b].expand_mult]
           t1 == WithBucket(t, b, bkt)
           p1 == Pushed(bs[b], w.p, e)
           w1 == [t |-> t1, p |-> p1]
           limit == (bs[b].expand_mult + 1) * Threshold
           long == bs[b].count + 1 >= limit
<1>1. PICK chain : Chains(bs, w.p, chain, S)
  OBVIOUS
<1>2. HASH_ADD_TO_BKT(w, e) = IF long /\ ~t.noexpand THEN HASH_EXPAND_BUCKETS(w1) ELSE w1
  <2>1. t1 = [t EXCEPT !.buckets[b] = bkt]
    BY DEF WithBucket, Table
  <2> QED
    BY <2>1 DEF HASH_ADD_TO_BKT, BucketOf
<1>3. /\ Len(bs) \in Nat \ {0} /\ b \in 1 .. Len(bs) /\ bs[b] \in Bucket /\ Range(chain[b]) \subseteq S
      /\ Chained(w.p.hh_next, w.p.hh_prev, bs[b].hh_head, chain[b]) /\ bs[b].count = Len(chain[b])
  <2>1. /\ Len(bs) \in Nat \ {0}
        /\ \A i \in 1 .. Len(bs) : bs[i] \in Bucket /\ Range(chain[i]) \subseteq S
    BY <1>1, ChainsFacts
  <2>2. b \in 1 .. Len(bs)
    BY <2>1, BucketOfIs
  <2> QED
    BY <1>1, <2>1, <2>2 DEF Chains
<1> HIDE DEF b
<1>4. bs[b].count \in Nat /\ bs[b].expand_mult \in Nat /\ Threshold \in Nat /\ Threshold > 0
  BY <1>3, BuildIs DEF Bucket
<1>5. bkt \in Bucket /\ bkt.hh_head = e /\ bkt.count = bs[b].count + 1 /\ bkt.expand_mult = bs[b].expand_mult
  BY <1>4 DEF Bucket, Link
<1>6. limit \in Nat /\ limit >= Threshold
  <2> DEFINE m == bs[b].expand_mult
             a == Threshold
  <2>1. m \in Nat /\ a \in Nat
    BY <1>4
  <2> HIDE DEF m, a
  <2>2. (m + 1) * a \in Nat /\ (m + 1) * a >= a
    BY <2>1, Multiple
  <2> QED
    BY <2>2 DEF m, a
<1> HIDE DEF limit
<1>7. \E c : Chains([bs EXCEPT ![b] = bkt], p1, c, S \cup {e})
  <2>1. b = BucketOf(e, Len(bs))
    BY DEF b
  <2> HIDE DEF bkt, bs, t
  <2> QED
    BY <1>1, <1>5, <2>1, PushKeeps
<1>8. p1 \in Handles /\ p1.next = w.p.next /\ p1.prev = w.p.prev
  <2>1. bs[b].hh_head = NULL \/ bs[b].hh_head \in Range(chain[b])
    BY <1>3, ChainHead
  <2>2. bs[b].hh_head # e
    BY <1>3, <2>1, MergeSortAssumption
  <2> QED
    BY <1>3, <2>2, PushedIs
<1>9. CASE ~long \/ t.noexpand
  <2>1. ~t.noexpand => LengthBound(bkt, t.ideal)
    <3>1. ~long => bs[b].count + 1 < limit
      BY <1>4, <1>6
    <3> QED
      BY <1>5, <1>9, <3>1 DEF LengthBound, limit
  <2>2. /\ t1 \in Table /\ SameTable(t, t1) /\ Bounded(t1) /\ t1.buckets = [bs EXCEPT ![b] = bkt]
    <3> HIDE DEF bkt
    <3> QED
      BY <1>3, <1>5, <2>1, WithBucketIs
  <2> HIDE DEF p1, t1, bkt
  <2>3. HASH_ADD_TO_BKT(w, e) = w1 /\ w1.t = t1 /\ w1.p = p1
    BY <1>2, <1>9
  <2>4. \E c : Chains(t1.buckets, p1, c, S \cup {e})
    BY <1>7, <2>2
  <2> HIDE DEF w1
  <2>5. Rebuilt(w, w1, S \cup {e})
    BY <1>8, <2>2, <2>3, <2>4 DEF Rebuilt
  <2> QED
    BY <2>3, <2>5
<1>10. CASE long /\ ~t.noexpand
  <2>2. t1 \in Table /\ SameTable(t, t1) /\ t1.buckets = [bs EXCEPT ![b] = bkt]
    <3> HIDE DEF bkt
    <3> QED
      BY <1>3, <1>5, WithBucketFields
  <2>3. t1 \in Table /\ SameTable(t, t1) /\ t1.buckets = [bs EXCEPT ![b] = bkt] /\ t1.num_items = t.num_items
    BY <2>2 DEF SameTable
  <2>4. t.num_items > 0
    <3> SUFFICES ASSUME S = {}, Threshold > 1
                 PROVE  FALSE
      OBVIOUS
    <3>1. Range(chain[b]) = {} /\ Distinct(chain[b])
      BY <1>3 DEF Chained
    <3>2. chain[b] = <<>>
      <4> DEFINE s == chain[b]
      <4>1. Distinct(s) /\ Range(s) = {}
        BY <3>1
      <4> HIDE DEF s
      <4>2. s = <<>>
        <5>1. Len(s) \in Nat /\ (s # <<>> => 1 \in 1 .. Len(s)) /\ \A i \in 1 .. Len(s) : s[i] \in Range(s)
          BY <4>1, DistinctFacts
        <5> QED
          BY <4>1, <5>1
      <4> QED
        BY <4>2 DEF s
    <3>3. bs[b].count = 0
      BY <1>3, <3>2, EmptySeq
    <3>4. bs[b].count + 1 >= limit
      BY <1>10
    <3> QED
      BY <1>4, <1>6, <3>3, <3>4
  <2> HIDE DEF p1, t1, bkt
  <2>5. w1.t = t1 /\ w1.p = p1 /\ HASH_ADD_TO_BKT(w, e) = HASH_EXPAND_BUCKETS(w1)
    BY <1>2, <1>10
  <2>6. \E c : Chains(w1.t.buckets, w1.p, c, S \cup {e})
    BY <1>7, <2>3, <2>5
  <2> HIDE DEF w1
  <2>7. Rebuilt(w1, HASH_EXPAND_BUCKETS(w1), S \cup {e})
    <3>1. w1.t \in Table /\ w1.p \in Handles /\ w1.t.num_items > 0
      BY <1>8, <2>3, <2>4, <2>5
    <3> QED
      BY <2>6, <3>1, ExpandKeeps
  <2> QED
    BY <1>8, <2>3, <2>5, <2>7 DEF Rebuilt, SameTable
<1> QED
  BY <1>9, <1>10

\* HASH_DEL_IN_BKT: the element leaves its bucket.
LEMMA DelInBktKeeps ==
  ASSUME build \in Builds, NEW w, w.t \in Table, w.p \in Handles, Bounded(w.t),
         NEW S, \E c : Chains(w.t.buckets, w.p, c, S), NEW e \in S
  PROVE  Rebuilt(w, HASH_DEL_IN_BKT(w, e), S \ {e})
<1> DEFINE t == w.t
           p == w.p
           bs == t.buckets
           b == BucketOf(e, Len(bs))
           bkt == Unchained(bs[b], e, p.hh_next[e])
           t1 == WithBucket(t, b, bkt)
           p1 == Rechained(p, p.hh_prev[e], p.hh_next[e])
           w1 == [t |-> t1, p |-> p1]
<1>1. PICK chain : Chains(bs, p, chain, S)
  OBVIOUS
<1>2. e \in Elem /\ bs[b] \in Bucket /\ b \in 1 .. Len(bs)
  <2>1. e \in Elem /\ b \in 1 .. Len(bs) /\ \A i \in 1 .. Len(bs) : bs[i] \in Bucket
    BY <1>1, ChainsFacts
  <2> QED
    BY <2>1
<1>3. HASH_DEL_IN_BKT(w, e) = w1
  <2>1. t1 = [t EXCEPT !.buckets[b] = bkt]
    BY DEF WithBucket, Table
  <2> QED
    BY <2>1 DEF HASH_DEL_IN_BKT, BucketOf, Rechained, Unchained
<1>4. p1 \in Handles /\ p1.next = p.next /\ p1.prev = p.prev /\ Unlinks(p.hh_next, p.hh_prev, e, p1.hh_next, p1.hh_prev)
  BY <1>2, RechainedIs
<1> HIDE DEF p1
<1>5. bkt \in Bucket /\ \E c : Chains([bs EXCEPT ![b] = bkt], p1, c, S \ {e})
  <2>1. /\ b = BucketOf(e, Len(bs))
        /\ bkt = Unchained(bs[b], e, p.hh_next[e])
        /\ p \in Handles /\ Chains(bs, p, chain, S)
    BY <1>1
  <2> HIDE DEF bkt, b, bs, t, p
  <2> QED
    BY <1>4, <2>1, DeleteKeeps
<1>6. ~t.noexpand => LengthBound(bkt, t.ideal)
  <2> SUFFICES ASSUME ~t.noexpand
               PROVE  LengthBound(bkt, t.ideal)
    OBVIOUS
  <2> DEFINE x == (bs[b].expand_mult + 1) * Threshold
             y == (bs[b].expand_mult + 1) * (t.ideal + 1)
             n == bs[b].count
  <2>1. x \in Int /\ y \in Int /\ n \in Nat
    <3> DEFINE m == bs[b].expand_mult
               a == Threshold
               d == t.ideal + 1
    <3>0. t.ideal \in Nat
      BY DEF Table
    <3>1. m \in Nat /\ n \in Nat /\ a \in Nat /\ d \in Nat
      <4>1. a \in Nat
        BY BuildIs
      <4>2. m \in Nat /\ n \in Nat
        BY <1>2 DEF Bucket
      <4> QED
        BY <3>0, <4>1, <4>2
    <3> HIDE DEF m, a, d, n
    <3>2. (m + 1) * a \in Nat /\ (m + 1) * d \in Nat
      BY <3>1, Multiple
    <3> QED
      BY <3>1, <3>2 DEF m, a, d
  <2>2. n < x \/ n < y
    BY <1>2 DEF Bounded, LengthBound
  <2>3. bkt.count = n - 1 /\ bkt.expand_mult = bs[b].expand_mult
    BY DEF Unchained
  <2>4. LengthBound(bkt, t.ideal) <=> n - 1 < x \/ n - 1 < y
    BY <2>3 DEF LengthBound
  <2> HIDE DEF x, y, n
  <2> QED
    BY <2>1, <2>2, <2>4
<1> HIDE DEF bkt
<1>7. t1 \in Table /\ SameTable(t, t1) /\ Bounded(t1) /\ t1.buckets = [bs EXCEPT ![b] = bkt]
  BY <1>2, <1>5, <1>6, WithBucketIs
<1> HIDE DEF t1
<1>8. w1.t = t1 /\ w1.p = p1 /\ \E c : Chains(t1.buckets, p1, c, S \ {e})
  BY <1>5, <1>7
<1> HIDE DEF w1
<1>9. Rebuilt(w, w1, S \ {e})
  BY <1>4, <1>7, <1>8 DEF Rebuilt
<1> QED
  BY <1>3, <1>9

-----------------------------------------------------------------------------
\* An element put behind last in the app order, or alone when last is NULL.
AppAfter(p, e, last) ==
  [prev |-> [p.prev EXCEPT ![e] = last],
   next |-> IF last = NULL THEN [p.next EXCEPT ![e] = NULL]
            ELSE [p.next EXCEPT ![e] = NULL, ![last] = e],
   hh_prev |-> p.hh_prev, hh_next |-> p.hh_next]

\* What that leaves of the handles.
LEMMA AppAfterIs ==
  ASSUME NEW p \in Handles, NEW e \in Elem, NEW last \in Link, last # e
  PROVE  LET p1 == AppAfter(p, e, last)
         IN /\ p1 \in Handles /\ p1.hh_next = p.hh_next /\ p1.hh_prev = p.hh_prev
            /\ \A x \in Elem : p1.next[x] = IF x = e THEN NULL ELSE IF x = last THEN e ELSE p.next[x]
            /\ \A x \in Elem : p1.prev[x] = IF x = e THEN last ELSE p.prev[x]
<1> DEFINE nx == IF last = NULL THEN [p.next EXCEPT ![e] = NULL]
                 ELSE [p.next EXCEPT ![e] = NULL, ![last] = e]
           pv == [p.prev EXCEPT ![e] = last]
           p1 == AppAfter(p, e, last)
<1>1. /\ p.hh_next \in [Elem -> Link] /\ p.hh_prev \in [Elem -> Link]
      /\ p.next \in [Elem -> Link] /\ p.prev \in [Elem -> Link]
      /\ NULL \in Link /\ e \in Link /\ NULL \notin Elem
  BY MergeSortAssumption DEF Handles, Link
<1>2. pv \in [Elem -> Link] /\ \A x \in Elem : pv[x] = IF x = e THEN last ELSE p.prev[x]
  BY <1>1
<1>3. nx \in [Elem -> Link]
      /\ \A x \in Elem : nx[x] = IF x = e THEN NULL ELSE IF x = last THEN e ELSE p.next[x]
  <2>1. CASE last = NULL
    BY <1>1, <2>1
  <2>2. CASE last # NULL
    <3>1. last \in Elem
      BY <2>2 DEF Link
    <3>2. nx = [[p.next EXCEPT ![e] = NULL] EXCEPT ![last] = e]
      BY <2>2
    <3> QED
      BY <1>1, <3>1, <3>2
  <2> QED
    BY <2>1, <2>2
<1>4. p1 = [prev |-> pv, next |-> nx, hh_prev |-> p.hh_prev, hh_next |-> p.hh_next]
  BY DEF AppAfter
<1> HIDE DEF nx, pv, p1
<1>5. p1 \in Handles /\ p1.next = nx /\ p1.prev = pv /\ p1.hh_next = p.hh_next /\ p1.hh_prev = p.hh_prev
  BY <1>1, <1>2, <1>3, <1>4 DEF Handles
<1> QED
  BY <1>2, <1>3, <1>5 DEF p1

\* The last element of an app order, or NULL.
LastOf(s) == IF s = <<>> THEN NULL ELSE s[Len(s)]

\* The head of an app order h, s that e goes to the end of.
HeadWith(h, s, e) == IF s = <<>> THEN e ELSE h

\* The app order of the handles p, and whether two have the same chains.
InOrder(p, h, s) == Chained(p.next, p.prev, h, s)
SameChains(p, p1) == p1.hh_next = p.hh_next /\ p1.hh_prev = p.hh_prev

\* What an element appended to a sequence gives.
LEMMA Appended ==
  ASSUME NEW s, Distinct(s), NEW e \in Elem, e \notin Range(s)
  PROVE  /\ Distinct(Append(s, e)) /\ Append(s, e) # <<>>
         /\ Len(Append(s, e)) = Len(s) + 1 /\ Len(s) \in Nat
         /\ Range(Append(s, e)) = Range(s) \cup {e}
         /\ LastOf(Append(s, e)) = e
<1> DEFINE t == Append(s, e)
<1>1. Insertion(s, Len(s) + 1, e, t)
  BY AppendIs
<1>2. Len(s) \in Nat
  BY DistinctFacts
<1> HIDE DEF t
<1>3. Distinct(t) /\ t # <<>> /\ Len(t) = Len(s) + 1 /\ Range(t) = Range(s) \cup {e} /\ t[Len(s) + 1] = e
  BY <1>1 DEF Insertion
<1>4. LastOf(t) = e
  BY <1>3 DEF LastOf
<1> QED
  BY <1>2, <1>3, <1>4 DEF t

\* An app order with one more element.
LEMMA AppOrder ==
  ASSUME NEW p \in Handles, NEW h, NEW s, InOrder(p, h, s),
         NEW e \in Elem, e \notin Range(s), NEW p1, p1 = AppAfter(p, e, LastOf(s))
  PROVE  p1 \in Handles /\ SameChains(p, p1) /\ InOrder(p1, HeadWith(h, s, e), Append(s, e))
<1> DEFINE last == LastOf(s)
           next == p.next
           prev == p.prev
           next1 == p1.next
           prev1 == p1.prev
<1>0. Chained(next, prev, h, s)
  BY DEF InOrder
<1>1. last \in Link /\ last # e /\ (s # <<>> => last \in Range(s)) /\ Range(s) \subseteq Elem /\ Distinct(s)
  <2>1. /\ s # <<>> => Len(s) \in 1 .. Len(s)
        /\ Range(s) \subseteq Elem /\ Distinct(s)
        /\ \A i \in 1 .. Len(s) : s[i] \in Range(s)
    BY <1>0, DistinctFacts DEF Chained
  <2>2. s # <<>> => last \in Range(s)
    BY <2>1 DEF LastOf
  <2>3. s = <<>> => last = NULL
    BY DEF LastOf
  <2> QED
    BY <2>1, <2>2, <2>3, MergeSortAssumption DEF Link
<1>2. /\ p1 \in Handles /\ p1.hh_next = p.hh_next /\ p1.hh_prev = p.hh_prev
      /\ \A x \in Elem : next1[x] = IF x = e THEN NULL ELSE IF x = last THEN e ELSE next[x]
      /\ \A x \in Elem : prev1[x] = IF x = e THEN last ELSE prev[x]
  <2> DEFINE p2 == AppAfter(p, e, last)
  <2> HIDE DEF last
  <2>1. /\ p2 \in Handles /\ p2.hh_next = p.hh_next /\ p2.hh_prev = p.hh_prev
        /\ \A x \in Elem : p2.next[x] = IF x = e THEN NULL ELSE IF x = last THEN e ELSE p.next[x]
        /\ \A x \in Elem : p2.prev[x] = IF x = e THEN last ELSE p.prev[x]
    BY <1>1, AppAfterIs
  <2>2. p1 = p2
    BY DEF last
  <2> HIDE DEF p2
  <2> QED
    BY <2>1, <2>2
<1>3. next1[e] = NULL /\ prev1[e] = last
  BY <1>2
<1>4. \A x \in Range(s) : next1[x] = (IF x = last THEN e ELSE next[x]) /\ prev1[x] = prev[x]
  BY <1>1, <1>2
<1> HIDE DEF last, next, prev, next1, prev1
<1>6. CASE s = <<>>
  <2>1. Append(s, e) = <<e>>
    BY <1>6
  <2>2. last = NULL
    BY <1>6 DEF LastOf, last
  <2>3. Chained(next1, prev1, e, <<e>>)
    BY <1>3, <2>2, ChainOne
  <2> QED
    BY <1>2, <1>6, <2>1, <2>3 DEF next1, prev1, HeadWith, InOrder, SameChains
<1>7. CASE s # <<>>
  <2>1. last = s[Len(s)]
    BY <1>7 DEF LastOf, last
  <2>2. Chained(next1, prev1, h, Append(s, e))
    BY <1>0, <1>3, <1>4, <1>7, <2>1, ChainAppend
  <2> QED
    BY <1>2, <1>7, <2>2 DEF next1, prev1, HeadWith, InOrder, SameChains
<1> QED
  BY <1>6, <1>7

\* The fields of a table that the changes of its buckets leave alone.
WithEnds(t, head1, tail1, num_items, bloom) ==
  [head |-> head1, tail |-> tail1, buckets |-> t.buckets, num_items |-> num_items, ideal |-> t.ideal,
   nonideal |-> t.nonideal, ineff |-> t.ineff, noexpand |-> t.noexpand, bloom |-> bloom]

\* What they are then; an update of some of them is one of all.
LEMMA WithEndsIs ==
  ASSUME NEW t \in Table, NEW h \in Elem, NEW l \in Elem, NEW n \in Nat, NEW f \in SUBSET Bits
  PROVE  LET t1 == WithEnds(t, h, l, n, f)
         IN /\ t1 \in Table /\ t1.head = h /\ t1.tail = l /\ t1.num_items = n /\ t1.bloom = f
            /\ t1.buckets = t.buckets /\ (Bounded(t1) <=> Bounded(t))
<1> DEFINE t1 == WithEnds(t, h, l, n, f)
<1>1. /\ t1 \in Table /\ t1.head = h /\ t1.tail = l /\ t1.num_items = n /\ t1.bloom = f
      /\ t1.buckets = t.buckets /\ t1.noexpand = t.noexpand /\ t1.ideal = t.ideal
  BY DEF WithEnds, Table
<1> HIDE DEF t1
<1>2. Bounded(t1) <=> Bounded(t)
  BY <1>1 DEF Bounded
<1> QED
  BY <1>1, <1>2 DEF t1

\* Updates of the fields of a table.
LEMMA TailUpdate ==
  ASSUME NEW t \in Table, NEW x, NEW y
  PROVE  [t EXCEPT !.tail = x, !.head = y] = WithEnds(t, y, x, t.num_items, t.bloom)
<1> DEFINE u == [t EXCEPT !.tail = x]
<1>1. u = WithEnds(t, t.head, x, t.num_items, t.bloom)
  BY DEF WithEnds, Table
<1>2. [t EXCEPT !.tail = x, !.head = y] = [u EXCEPT !.head = y]
  BY DEF Table
<1> HIDE DEF u
<1> QED
  BY <1>1, <1>2 DEF WithEnds

\* A new head and a new tail.
LEMMA HeadUpdate ==
  ASSUME NEW t \in Table, NEW x, NEW y
  PROVE  [t EXCEPT !.head = x, !.tail = y] = WithEnds(t, x, y, t.num_items, t.bloom)
<1> DEFINE u == [t EXCEPT !.head = x]
<1>1. u = WithEnds(t, x, t.tail, t.num_items, t.bloom)
  BY DEF WithEnds, Table
<1>2. [t EXCEPT !.head = x, !.tail = y] = [u EXCEPT !.tail = y]
  BY DEF Table
<1> HIDE DEF u
<1> QED
  BY <1>1, <1>2 DEF WithEnds

\* The other fields that the macros assign, one or two at a time.
LEMMA Updates ==
  ASSUME NEW t \in Table, NEW x
  PROVE  /\ [t EXCEPT !.tail = x, !.num_items = @ + 1] = WithEnds(t, t.head, x, t.num_items + 1, t.bloom)
         /\ [t EXCEPT !.num_items = x] = WithEnds(t, t.head, t.tail, x, t.bloom)
         /\ [t EXCEPT !.bloom = x] = WithEnds(t, t.head, t.tail, t.num_items, x)
<1>1. [t EXCEPT !.tail = x, !.num_items = @ + 1] = WithEnds(t, t.head, x, t.num_items + 1, t.bloom)
  <2> DEFINE u == [t EXCEPT !.tail = x]
  <2>1. u = WithEnds(t, t.head, x, t.num_items, t.bloom)
    BY DEF WithEnds, Table
  <2>2. [t EXCEPT !.tail = x, !.num_items = @ + 1] = [u EXCEPT !.num_items = @ + 1]
    BY DEF Table
  <2> HIDE DEF u
  <2> QED
    BY <2>1, <2>2 DEF WithEnds
<1>2. [t EXCEPT !.num_items = x] = WithEnds(t, t.head, t.tail, x, t.bloom)
  BY DEF WithEnds, Table
<1>3. [t EXCEPT !.bloom = x] = WithEnds(t, t.head, t.tail, t.num_items, x)
  BY DEF WithEnds, Table
<1> QED
  BY <1>1, <1>2, <1>3

\* A new table.
LEMMA MakeTableIs ==
  ASSUME build \in Builds, NEW e \in Elem, NEW p
  PROVE  LET t == HASH_MAKE_TABLE(e)
         IN /\ t \in Table /\ t.head = e /\ t.tail = e /\ t.num_items = 0 /\ t.bloom = {}
            /\ Bounded(t)
            /\ \E c : Chains(t.buckets, p, c, {})
<1> DEFINE t == HASH_MAKE_TABLE(e)
           bs == Buckets(InitialBuckets)
<1>1. InitialBuckets \in Nat \ {0} /\ Threshold \in Nat \ {0}
  BY UtHashAssumption, BuildIs
<1>2. /\ bs \in Seq(Bucket) /\ Len(bs) = InitialBuckets
      /\ \A b \in 1 .. InitialBuckets : bs[b] = EmptyBucket
      /\ \E c : Chains(bs, p, c, {})
  BY <1>1, NewBuckets
<1> HIDE DEF bs
<1>3. t = [head |-> e, tail |-> e, buckets |-> bs, num_items |-> 0,
           ideal |-> 0, nonideal |-> 0, ineff |-> 0, noexpand |-> FALSE, bloom |-> {}]
  BY DEF HASH_MAKE_TABLE, bs
<1> HIDE DEF t
<1>4. t \in Table /\ t.head = e /\ t.tail = e /\ t.num_items = 0 /\ t.bloom = {} /\ t.buckets = bs
  BY <1>2, <1>3 DEF Table
<1>5. Bounded(t)
  <2>1. EmptyBucket.count = 0 /\ EmptyBucket.expand_mult = 0
    BY DEF EmptyBucket
  <2>2. 0 < (0 + 1) * Threshold
    BY <1>1
  <2> QED
    BY <1>2, <1>4, <2>1, <2>2 DEF Bounded, LengthBound
<1> QED
  BY <1>2, <1>4, <1>5 DEF t

-----------------------------------------------------------------------------
(***************************************************************************)
(* A table w with the elements s in app order.                             *)
(***************************************************************************)
Holds(w, s) ==
  /\ w.t \in Table /\ w.p \in Handles
  /\ s # <<>> /\ Chained(w.p.next, w.p.prev, w.t.head, s)
  /\ w.t.num_items = Len(s)
  /\ Bounded(w.t)
  /\ \E c : Chains(w.t.buckets, w.p, c, Range(s))

(* Its tail is the last of them, and the filter has the bits of all: what a *)
(* selection lacks.                                                         *)
Complete(t, s) ==
  /\ t.tail = s[Len(s)]
  /\ \A e \in Range(s) : BloomBit(Hashv(e)) \in t.bloom

\* What a macro works on is a record of a table and its handles.
IsPair(w) == w = [t |-> w.t, p |-> w.p]

\* What the macros on buckets give is a pair again.
LEMMA BktPairs ==
  ASSUME NEW w, NEW e
  PROVE  IsPair(HASH_ADD_TO_BKT(w, e)) /\ IsPair(HASH_DEL_IN_BKT(w, e))
<1>1. \A v : IsPair(HASH_EXPAND_BUCKETS(v))
  BY DEF IsPair, HASH_EXPAND_BUCKETS
<1>2. \A t, p : IsPair([t |-> t, p |-> p])
  BY DEF IsPair
<1>3. IsPair(HASH_ADD_TO_BKT(w, e))
  BY <1>1, <1>2 DEF HASH_ADD_TO_BKT
<1>4. IsPair(HASH_DEL_IN_BKT(w, e))
  BY <1>2 DEF HASH_DEL_IN_BKT
<1> QED
  BY <1>3, <1>4

\* The table of the chains of a macro, and what it is without elements.
Empty(w, s) == w.t = NoTable /\ s = <<>>

\* The head of a table tells whether there is one.
LEMMA HeadTells ==
  ASSUME NEW w, NEW s
  PROVE  /\ Empty(w, s) => w.t.head = NULL
         /\ Holds(w, s) => w.t.head \in Elem /\ w.t.head # NULL /\ w.t \in Table
         /\ NULL \notin Elem
<1>1. NULL \notin Elem
  BY MergeSortAssumption
<1>2. Empty(w, s) => w.t.head = NULL
  BY DEF Empty, NoTable
<1>3. Holds(w, s) => w.t.head \in Elem
  BY DEF Holds, Table
<1> QED
  BY <1>1, <1>2, <1>3 DEF Holds

\* HASH_ADD_KEYPTR: the element goes behind the last one and into its bucket.
LEMMA AddKeeps ==
  ASSUME build \in Builds, NEW w, w.p \in Handles, NEW s,
         Empty(w, s) \/ (Holds(w, s) /\ Complete(w.t, s)), NEW e \in Elem, e \notin Range(s)
  PROVE  LET w1 == HASH_ADD_KEYPTR(w, e)
         IN Holds(w1, Append(s, e)) /\ Complete(w1.t, Append(s, e)) /\ IsPair(w1)
<1> DEFINE empty == w.t.head = NULL
           t == IF empty THEN HASH_MAKE_TABLE(e) ELSE w.t
           last == LastOf(s)
           p == AppAfter(w.p, e, last)
           t0 == WithEnds(t, t.head, e, t.num_items + 1, t.bloom)
           w0 == [t |-> t0, p |-> p]
           wb == HASH_ADD_TO_BKT(w0, e)
           bloom == wb.t.bloom \cup {BloomBit(Hashv(e))}
           t2 == WithEnds(wb.t, wb.t.head, wb.t.tail, wb.t.num_items, bloom)
           w1 == HASH_ADD_KEYPTR(w, e)
           s1 == Append(s, e)
           S == Range(s)
<1>1. /\ Distinct(s) /\ (empty <=> s = <<>>) /\ (empty <=> ~Holds(w, s))
      /\ Distinct(<<>>) /\ Range(<<>>) = {} /\ Len(<<>>) = 0
  <2>1. Distinct(<<>>) /\ Range(<<>>) = {} /\ Len(<<>>) = 0
    BY EmptyIsChained
  <2>2. CASE Empty(w, s)
    <3>1. s = <<>> /\ empty
      BY <2>2, HeadTells DEF Empty
    <3>2. ~Holds(w, s)
      BY <3>1 DEF Holds
    <3> QED
      BY <2>1, <3>1, <3>2
  <2>3. CASE Holds(w, s)
    <3>1. s # <<>> /\ Distinct(s)
      BY <2>3 DEF Holds, Chained
    <3>2. ~empty
      BY <2>3, HeadTells
    <3> QED
      BY <2>1, <2>3, <3>1, <3>2
  <2> QED
    BY <2>2, <2>3
<1>2. /\ t \in Table /\ Bounded(t) /\ t.num_items = Len(s)
      /\ \E c : Chains(t.buckets, w.p, c, S)
      /\ t.head = (IF s = <<>> THEN e ELSE w.t.head)
  <2>1. CASE empty
    <3>1. /\ t \in Table /\ t.head = e /\ t.num_items = 0 /\ Bounded(t)
          /\ \E c : Chains(t.buckets, w.p, c, {})
      BY <2>1, MakeTableIs
    <3> HIDE DEF t
    <3>2. s = <<>> /\ S = {} /\ Len(s) = 0
      BY <1>1, <2>1
    <3> QED
      BY <3>1, <3>2
  <2>2. CASE ~empty
    <3>1. t = w.t /\ Holds(w, s)
      BY <1>1, <2>2
    <3> HIDE DEF t
    <3> QED
      BY <1>1, <2>2, <3>1 DEF Holds
  <2> QED
    BY <2>1, <2>2
<1>3. Chained(w.p.next, w.p.prev, IF s = <<>> THEN NULL ELSE w.t.head, s)
  <2>1. CASE s = <<>>
    <3>1. Chained(w.p.next, w.p.prev, NULL, <<>>)
      BY EmptyIsChained
    <3> QED
      BY <2>1, <3>1
  <2>2. CASE s # <<>>
    BY <1>1, <2>2 DEF Holds
  <2> QED
    BY <2>1, <2>2
<1>4. /\ p \in Handles /\ p.hh_next = w.p.hh_next /\ p.hh_prev = w.p.hh_prev
      /\ Chained(p.next, p.prev, t.head, s1)
  <2> DEFINE h == IF s = <<>> THEN NULL ELSE w.t.head
             q == w.p
  <2>1. InOrder(q, h, s) /\ q \in Handles
    BY <1>3 DEF InOrder
  <2>2. (IF s = <<>> THEN e ELSE h) = t.head
    BY <1>2
  <2>3. /\ p \in Handles /\ p.hh_next = q.hh_next /\ p.hh_prev = q.hh_prev
        /\ Chained(p.next, p.prev, IF s = <<>> THEN e ELSE h, s1)
    <3>1. last = LastOf(s) /\ p = AppAfter(q, e, last)
      OBVIOUS
    <3>2. p = AppAfter(q, e, LastOf(s))
      BY <3>1
    <3> DEFINE h1 == t.head
    <3>3. h1 = HeadWith(h, s, e) /\ s1 = Append(s, e)
      BY <2>2 DEF HeadWith
    <3> HIDE DEF h, q, last, p, s1, t, h1
    <3>4. p \in Handles /\ SameChains(q, p) /\ InOrder(p, HeadWith(h, s, e), Append(s, e))
      BY <2>1, <3>2, AppOrder
    <3> QED
      BY <3>3, <3>4 DEF HeadWith, InOrder, SameChains
  <2> QED
    BY <2>2, <2>3
<1>5. /\ Distinct(s1) /\ s1 # <<>> /\ Len(s1) = Len(s) + 1 /\ Len(s) \in Nat
      /\ Range(s1) = S \cup {e} /\ LastOf(s1) = e
  BY <1>1, Appended
<1> HIDE DEF p, s1, t
<1>6. /\ t0 \in Table /\ t0.head = t.head /\ t0.tail = e /\ t0.num_items = Len(s) + 1 /\ t0.bloom = t.bloom
      /\ t0.buckets = t.buckets /\ Bounded(t0)
  <2>1. t.head \in Elem /\ t.num_items + 1 \in Nat /\ t.bloom \in SUBSET Bits
    BY <1>2, <1>5 DEF Table
  <2> DEFINE h == t.head
             n == t.num_items + 1
             f == t.bloom
  <2>2. h \in Elem /\ n \in Nat /\ f \in SUBSET Bits
    BY <2>1
  <2>3. t0 = WithEnds(t, h, e, n, f)
    OBVIOUS
  <2> HIDE DEF h, n, f, t0
  <2>4. /\ t0 \in Table /\ t0.head = h /\ t0.tail = e /\ t0.num_items = n /\ t0.bloom = f
        /\ t0.buckets = t.buckets /\ (Bounded(t0) <=> Bounded(t))
    BY <1>2, <2>2, <2>3, WithEndsIs
  <2> QED
    BY <1>2, <2>4 DEF h, n, f
<1>7. \E c : Chains(t0.buckets, p, c, S)
  BY <1>2, <1>4, <1>6 DEF Chains
<1> HIDE DEF t0
<1>8. w0.t = t0 /\ w0.p = p
  OBVIOUS
<1> HIDE DEF w0, S
<1>9. Rebuilt(w0, wb, S \cup {e})
  <2>1. w0.t \in Table /\ w0.p \in Handles /\ Bounded(w0.t) /\ \E c : Chains(w0.t.buckets, w0.p, c, S)
    BY <1>4, <1>6, <1>7, <1>8
  <2>2. w0.t.num_items > 0 /\ e \notin S
    BY <1>5, <1>6, <1>8 DEF S
  <2> QED
    BY <2>1, <2>2, AddToBktKeeps
<1>10. IsPair(wb)
  BY BktPairs
<1>11. w1 = [t |-> t2, p |-> wb.p]
  <2>1. wb = HASH_ADD_TO_BKT([t |-> [t EXCEPT !.tail = e, !.num_items = @ + 1], p |-> p], e)
    <3>1. [t EXCEPT !.tail = e, !.num_items = @ + 1] = t0
      BY <1>2, Updates DEF t0
    <3> QED
      BY <3>1 DEF w0
  <2>2. w1 = [wb EXCEPT !.t = HASH_BLOOM_ADD(@, Hashv(e))]
    <3> DEFINE q == [w.p EXCEPT !.next = IF empty THEN [@ EXCEPT ![e] = NULL]
                                         ELSE [@ EXCEPT ![e] = NULL, ![t.tail] = e],
                                !.prev[e] = IF empty THEN NULL ELSE t.tail]
    <3>1. q = p
      <4>1. empty => last = NULL
        BY <1>1 DEF LastOf
      <4>2. ~empty => t.tail = last /\ last # NULL
        <5>1. ~empty => t = w.t /\ Holds(w, s) /\ Complete(w.t, s) /\ s # <<>>
          BY <1>1 DEF t, Empty
        <5>2. ~empty => t.tail = s[Len(s)] /\ s # <<>>
          BY <5>1 DEF Complete
        <5>3. ~empty => t.tail \in Elem
          BY <1>2 DEF Table
        <5> QED
          BY <5>2, <5>3, MergeSortAssumption DEF LastOf
      <4> HIDE DEF last
      <4> DEFINE nx == IF empty THEN [w.p.next EXCEPT ![e] = NULL]
                       ELSE [w.p.next EXCEPT ![e] = NULL, ![t.tail] = e]
                 pv == [w.p.prev EXCEPT ![e] = IF empty THEN NULL ELSE t.tail]
      <4>3. q = [prev |-> pv, next |-> nx, hh_prev |-> w.p.hh_prev, hh_next |-> w.p.hh_next]
        <5> DEFINE u == [w.p EXCEPT !.next = nx]
        <5>1. u = [prev |-> w.p.prev, next |-> nx, hh_prev |-> w.p.hh_prev, hh_next |-> w.p.hh_next]
          <6> HIDE DEF nx
          <6> QED
            BY DEF Handles
        <5>2. q = [u EXCEPT !.prev[e] = IF empty THEN NULL ELSE t.tail]
          BY DEF Handles
        <5> HIDE DEF u, nx, q
        <5> QED
          BY <5>1, <5>2
      <4>4. nx = (IF last = NULL THEN [w.p.next EXCEPT ![e] = NULL]
                  ELSE [w.p.next EXCEPT ![e] = NULL, ![last] = e])
            /\ pv = [w.p.prev EXCEPT ![e] = last]
        BY <4>1, <4>2
      <4> HIDE DEF nx, pv, q
      <4> QED
        BY <4>3, <4>4 DEF p, AppAfter
    <3> HIDE DEF q
    <3> QED
      BY <2>1, <3>1 DEF HASH_ADD_KEYPTR, t, q
  <2>3. HASH_BLOOM_ADD(wb.t, Hashv(e)) = t2
    <3>1. wb.t \in Table
      BY <1>9 DEF Rebuilt
    <3> DEFINE tb == wb.t
    <3>2. [tb EXCEPT !.bloom = bloom] = WithEnds(tb, tb.head, tb.tail, tb.num_items, bloom)
      <4> HIDE DEF bloom, wb, tb
      <4> QED
        BY <3>1, Updates DEF tb
    <3> HIDE DEF wb
    <3>3. HASH_BLOOM_ADD(tb, Hashv(e)) = [tb EXCEPT !.bloom = bloom]
      BY <3>1 DEF HASH_BLOOM_ADD, Table
    <3> QED
      BY <3>2, <3>3
  <2> HIDE DEF wb, w1, t2
  <2>4. w1 = [[t |-> wb.t, p |-> wb.p] EXCEPT !.t = t2]
    BY <1>10, <2>2, <2>3 DEF IsPair
  <2> QED
    BY <2>4
<1>12. BloomBit(Hashv(e)) \in Bits
  <2>1. KeyOf[e] \in Range(KeyOf)
    BY BuildIs
  <2> QED
    BY <2>1 DEF Hashv, Bits
<1> HIDE DEF wb
<1>13. /\ wb.t \in Table /\ wb.p \in Handles /\ Bounded(wb.t)
       /\ wb.t.head = t.head /\ wb.t.tail = e /\ wb.t.num_items = Len(s) + 1 /\ wb.t.bloom = t.bloom
       /\ wb.p.next = p.next /\ wb.p.prev = p.prev
       /\ \E c : Chains(wb.t.buckets, wb.p, c, S \cup {e})
  BY <1>6, <1>8, <1>9 DEF Rebuilt, SameTable
<1>14. /\ t2 \in Table /\ t2.head = t.head /\ t2.tail = e /\ t2.num_items = Len(s) + 1
       /\ t2.bloom = t.bloom \cup {BloomBit(Hashv(e))}
       /\ t2.buckets = wb.t.buckets /\ Bounded(t2)
  <2> DEFINE tb == wb.t
             h == tb.head
             l == tb.tail
             n == tb.num_items
  <2>1. tb \in Table /\ h \in Elem /\ l \in Elem /\ n \in Nat /\ bloom \in SUBSET Bits
    BY <1>12, <1>13 DEF Table
  <2>2. t2 = WithEnds(tb, h, l, n, bloom) /\ bloom = t.bloom \cup {BloomBit(Hashv(e))}
    BY <1>13
  <2> HIDE DEF tb, h, l, n, bloom, t2
  <2>3. /\ t2 \in Table /\ t2.head = h /\ t2.tail = l /\ t2.num_items = n /\ t2.bloom = bloom
        /\ t2.buckets = tb.buckets /\ (Bounded(t2) <=> Bounded(tb))
    BY <2>1, <2>2, WithEndsIs
  <2> QED
    BY <1>13, <2>2, <2>3 DEF tb, h, l, n
<1> HIDE DEF t2, w1
<1>15. w1.t = t2 /\ w1.p = wb.p /\ IsPair(w1)
  BY <1>11 DEF IsPair
<1>16. Holds(w1, s1)
  BY <1>4, <1>5, <1>13, <1>14, <1>15 DEF Holds, S
<1>17. Complete(w1.t, s1)
  <2>1. s1[Len(s1)] = e
    BY <1>5 DEF LastOf
  <2>2. \A x \in S : BloomBit(Hashv(x)) \in t.bloom
    <3>1. CASE s = <<>>
      BY <1>1, <3>1 DEF S
    <3>2. CASE s # <<>>
      BY <1>1, <3>2 DEF Empty, Complete, S, t
    <3> QED
      BY <3>1, <3>2
  <2> QED
    BY <1>5, <1>14, <1>15, <2>1, <2>2 DEF Complete
<1> QED
  BY <1>15, <1>16, <1>17 DEF w1, s1

\* HASH_DELETE: the element leaves the app order and its bucket, or takes the table with it.
LEMMA DeletionKeeps ==
  ASSUME build \in Builds, NEW w, IsPair(w), NEW s, Holds(w, s), Complete(w.t, s), NEW e \in Range(s)
  PROVE  LET w1 == HASH_DELETE(w, e)
             s1 == Without(s, e)
         IN /\ w1.p \in Handles /\ IsPair(w1)
            /\ Empty(w1, s1) \/ (Holds(w1, s1) /\ Complete(w1.t, s1))
            /\ Distinct(s1) /\ Range(s1) = Range(s) \ {e}
<1> DEFINE t == w.t
           before == w.p.prev[e]
           after == w.p.next[e]
           tail == IF t.tail = e THEN before ELSE t.tail
           hd == IF before = NULL THEN after ELSE t.head
           p == Relinked(w.p, before, after)
           t0 == WithEnds(t, hd, tail, t.num_items, t.bloom)
           w0 == [t |-> t0, p |-> p]
           wb == HASH_DEL_IN_BKT(w0, e)
           t2 == WithEnds(wb.t, wb.t.head, wb.t.tail, wb.t.num_items - 1, wb.t.bloom)
           w1 == HASH_DELETE(w, e)
           s1 == Without(s, e)
           S == Range(s)
<1>1. /\ t \in Table /\ w.p \in Handles /\ Distinct(s) /\ t.num_items = Len(s) /\ Bounded(t)
      /\ Chained(w.p.next, w.p.prev, t.head, s)
      /\ \E c : Chains(t.buckets, w.p, c, S)
      /\ t.tail = s[Len(s)]
  BY DEF Holds, Complete, Chained
<1>2. e \in Elem /\ S \subseteq Elem /\ Len(s) \in Nat
  BY <1>1, DistinctFacts
<1>3. /\ p \in Handles /\ p.hh_next = w.p.hh_next /\ p.hh_prev = w.p.hh_prev
      /\ Unlinks(w.p.next, w.p.prev, e, p.next, p.prev)
  BY <1>1, <1>2, RelinkedIs
<1>4. /\ Chained(p.next, p.prev, hd, s1)
      /\ Len(s1) = Len(s) - 1 /\ Range(s1) = S \ {e}
      /\ s1 = <<>> <=> before = NULL /\ after = NULL
      /\ s1 # <<>> => s1[Len(s1)] = tail
  <2> DEFINE next == w.p.next
             prev == w.p.prev
             next1 == p.next
             prev1 == p.prev
             h == t.head
  <2>1. Chained(next, prev, h, s) /\ Unlinks(next, prev, e, next1, prev1)
    BY <1>1, <1>3
  <2>2. /\ Chained(next1, prev1, IF prev[e] = NULL THEN next[e] ELSE h, s1)
        /\ Len(s1) = Len(s) - 1 /\ Range(s1) = S \ {e}
        /\ s1 = <<>> <=> prev[e] = NULL /\ next[e] = NULL
        /\ s1 # <<>> => s1[Len(s1)] = IF s[Len(s)] = e THEN prev[e] ELSE s[Len(s)]
    <3> HIDE DEF next, prev, next1, prev1, h
    <3> QED
      BY <2>1, ChainWithout
  <2> QED
    BY <1>1, <2>2
<1>5. Distinct(s1)
  BY <1>4 DEF Chained
<1> HIDE DEF p, before, after, s1
<1>6. CASE s1 = <<>>
  <2>1. w1 = [w EXCEPT !.t = NoTable]
    BY <1>4, <1>6 DEF HASH_DELETE, before, after
  <2>2. w = [t |-> t, p |-> w.p]
    BY DEF IsPair
  <2> HIDE DEF w1, t
  <2>3. w1 = [t |-> NoTable, p |-> w.p]
    BY <2>1, <2>2
  <2>4. w1.p \in Handles /\ IsPair(w1) /\ Empty(w1, s1)
    BY <1>1, <1>6, <2>3 DEF IsPair, Empty
  <2> QED
    BY <1>4, <1>5, <2>4 DEF w1, s1
<1>7. CASE s1 # <<>>
  <2>1. tail \in Elem /\ hd \in Elem
    <3>1. hd \in Elem
      BY <1>4, <1>7, ChainHead
    <3>2. s1[Len(s1)] \in Elem
      BY <1>5, <1>7, DistinctFacts
    <3> QED
      BY <1>4, <1>7, <3>1, <3>2
  <2> HIDE DEF tail, hd
  <2>2. /\ t0 \in Table /\ t0.head = hd /\ t0.tail = tail /\ t0.num_items = Len(s) /\ t0.bloom = t.bloom
        /\ t0.buckets = t.buckets /\ Bounded(t0)
    <3> DEFINE n == t.num_items
               f == t.bloom
    <3>1. n \in Nat /\ f \in SUBSET Bits /\ t0 = WithEnds(t, hd, tail, n, f)
      BY <1>1 DEF Table
    <3> HIDE DEF n, f, t0, t
    <3>2. /\ t0 \in Table /\ t0.head = hd /\ t0.tail = tail /\ t0.num_items = n /\ t0.bloom = f
          /\ t0.buckets = t.buckets /\ (Bounded(t0) <=> Bounded(t))
      BY <1>1, <2>1, <3>1, WithEndsIs
    <3> QED
      BY <1>1, <3>2 DEF n, f
  <2>3. \E c : Chains(t0.buckets, p, c, S)
    <3>1. PICK c : Chains(t.buckets, w.p, c, S)
      BY <1>1
    <3> DEFINE bs == t.buckets
    <3>2. Chains(bs, w.p, c, S) /\ t0.buckets = bs
      BY <2>2, <3>1
    <3> HIDE DEF t0, t, S, bs
    <3>3. Chains(bs, p, c, S)
      BY <1>3, <3>2 DEF Chains
    <3> QED
      BY <3>2, <3>3
  <2>4. t0 = [t EXCEPT !.tail = tail, !.head = hd]
    <3>1. t \in Table
      BY <1>1
    <3> HIDE DEF t, t0
    <3>2. [t EXCEPT !.tail = tail, !.head = hd] = WithEnds(t, hd, tail, t.num_items, t.bloom)
      BY <3>1, TailUpdate
    <3> QED
      BY <3>2 DEF t0
  <2> HIDE DEF t0
  <2>5. w0.t = t0 /\ w0.p = p
    OBVIOUS
  <2>6. w1 = [wb EXCEPT !.t.num_items = @ - 1]
    <3>1. before # NULL \/ after # NULL
      BY <1>4, <1>7
    <3>2. t0 = [t EXCEPT !.tail = IF @ = e THEN before ELSE @, !.head = IF before = NULL THEN after ELSE @]
      BY <2>4 DEF tail, hd
    <3>3. wb = HASH_DEL_IN_BKT([t |-> [t EXCEPT !.tail = IF @ = e THEN before ELSE @,
                                               !.head = IF before = NULL THEN after ELSE @],
                                p |-> [w.p EXCEPT !.next = IF before = NULL THEN @ ELSE [@ EXCEPT ![before] = after],
                                                  !.prev = IF after = NULL THEN @ ELSE [@ EXCEPT ![after] = before]]], e)
      BY <3>2 DEF w0, p, Relinked
    <3> HIDE DEF wb
    <3> QED
      BY <3>1, <3>3 DEF HASH_DELETE, before, after
  <2>7. IsPair(wb)
    BY BktPairs
  <2> HIDE DEF w0, S
  <2>8. Rebuilt(w0, wb, S \ {e})
    <3>1. w0.t \in Table /\ w0.p \in Handles /\ Bounded(w0.t) /\ \E c : Chains(w0.t.buckets, w0.p, c, S)
      BY <1>3, <2>2, <2>3, <2>5
    <3>2. e \in S
      BY DEF S
    <3> QED
      BY <3>1, <3>2, DelInBktKeeps
  <2> HIDE DEF wb, w1
  <2>9. /\ wb.t \in Table /\ wb.p \in Handles /\ Bounded(wb.t)
        /\ wb.t.head = hd /\ wb.t.tail = tail /\ wb.t.num_items = Len(s) /\ wb.t.bloom = t.bloom
        /\ wb.p.next = p.next /\ wb.p.prev = p.prev
        /\ \E c : Chains(wb.t.buckets, wb.p, c, S \ {e})
    BY <2>2, <2>5, <2>8 DEF Rebuilt, SameTable
  <2>10. w1 = [t |-> t2, p |-> wb.p]
    <3> DEFINE tb == wb.t
               n == tb.num_items - 1
    <3>1. wb = [t |-> tb, p |-> wb.p]
      BY <2>7 DEF IsPair
    <3>2. [tb EXCEPT !.num_items = n] = t2
      <4>1. tb \in Table
        BY <2>9
      <4> HIDE DEF tb, n
      <4>2. [tb EXCEPT !.num_items = n] = WithEnds(tb, tb.head, tb.tail, n, tb.bloom)
        BY <4>1, Updates
      <4> QED
        BY <4>2 DEF tb, n
    <3>3. w1 = [wb EXCEPT !.t = [tb EXCEPT !.num_items = n]]
      BY <2>6, <3>1
    <3> HIDE DEF tb, n, t2
    <3> QED
      BY <3>1, <3>2, <3>3
  <2>11. /\ t2 \in Table /\ t2.head = hd /\ t2.tail = tail /\ t2.num_items = Len(s) - 1
         /\ t2.bloom = t.bloom /\ t2.buckets = wb.t.buckets /\ Bounded(t2)
    <3> DEFINE tb == wb.t
               n == tb.num_items - 1
               f == tb.bloom
    <3>1. Len(s) - 1 \in Nat
      <4>1. Len(s1) \in Nat
        BY <1>5, DistinctFacts
      <4> QED
        BY <1>4, <4>1
    <3>2. tb \in Table /\ n \in Nat /\ f \in SUBSET Bits
      BY <2>9, <3>1 DEF Table
    <3>3. t2 = WithEnds(tb, hd, tail, n, f)
      BY <2>9
    <3> HIDE DEF tb, n, f, t2
    <3>4. /\ t2 \in Table /\ t2.head = hd /\ t2.tail = tail /\ t2.num_items = n /\ t2.bloom = f
          /\ t2.buckets = tb.buckets /\ (Bounded(t2) <=> Bounded(tb))
      BY <2>1, <3>2, <3>3, WithEndsIs
    <3> QED
      BY <2>9, <3>4 DEF tb, n, f
  <2> HIDE DEF t2, t
  <2>12. w1.t = t2 /\ w1.p = wb.p /\ IsPair(w1)
    BY <2>10 DEF IsPair
  <2>13. Holds(w1, s1)
    BY <1>4, <1>7, <2>9, <2>11, <2>12 DEF Holds, S
  <2>14. Complete(w1.t, s1)
    <3>1. \A x \in Range(s) : BloomBit(Hashv(x)) \in t.bloom
      BY DEF Complete, t
    <3> QED
      BY <1>4, <1>7, <2>11, <2>12, <3>1 DEF Complete, S
  <2> QED
    BY <1>4, <1>5, <2>9, <2>12, <2>13, <2>14 DEF w1, s1, S
<1> QED
  BY <1>6, <1>7

-----------------------------------------------------------------------------
\* No two elements of a table have one key.
DistinctKeys(s) == \A x, y \in Range(s) : KeyOf[x] = KeyOf[y] => x = y

\* The first element with a key is the one that has it.
LEMMA FirstWithIs ==
  ASSUME NEW s, Distinct(s), NEW val, DistinctKeys(s)
  PROVE  /\ \A x \in Range(s) : KeyOf[x] = val => FirstWith(s, KeyOf, val) = x
         /\ (\A x \in Range(s) : KeyOf[x] # val) => FirstWith(s, KeyOf, val) = NULL
<1> DEFINE found == {i \in DOMAIN s : KeyOf[s[i]] = val}
<1>1. /\ Len(s) \in Nat /\ Range(s) = {s[i] : i \in 1 .. Len(s)} /\ s \in Seq(Elem)
      /\ \A i, j \in 1 .. Len(s) : s[i] = s[j] => i = j
      /\ \A i \in 1 .. Len(s) : s[i] \in Range(s)
  BY DistinctFacts
<1>2. DOMAIN s = 1 .. Len(s)
  BY <1>1, LenProperties
<1>3. FirstWith(s, KeyOf, val) = IF found = {} THEN NULL ELSE s[Min(found)]
  BY DEF FirstWith
<1>4. ASSUME NEW x \in Range(s), KeyOf[x] = val
      PROVE  FirstWith(s, KeyOf, val) = x
  <2>1. PICK i \in 1 .. Len(s) : x = s[i]
    BY <1>1
  <2>2. found = {i}
    <3>1. \A j \in 1 .. Len(s) : KeyOf[s[j]] = val => j = i
      BY <1>1, <1>4, <2>1 DEF DistinctKeys
    <3> QED
      BY <1>2, <1>4, <2>1, <3>1
  <2>3. Min({i}) = i
    <3>1. i \in Int /\ i <= i
      BY <1>1
    <3>2. \A y \in {i} : y = i
      OBVIOUS
    <3> QED
      BY <3>1, <3>2 DEF Min
  <2> QED
    BY <1>3, <2>1, <2>2, <2>3
<1>5. ASSUME \A x \in Range(s) : KeyOf[x] # val
      PROVE  FirstWith(s, KeyOf, val) = NULL
  BY <1>1, <1>2, <1>3, <1>5
<1> QED
  BY <1>4, <1>5

\* HASH_FIND_IN_BKT finds the element with the key, in the bucket of the key.
LEMMA FindInBkt ==
  ASSUME build \in Builds, NEW w, NEW s, Holds(w, s), DistinctKeys(s), NEW key \in Range(KeyOf)
  PROVE  /\ \A x \in Range(s) : KeyOf[x] = key => HASH_FIND_IN_BKT(w, key) = x
         /\ (\A x \in Range(s) : KeyOf[x] # key) => HASH_FIND_IN_BKT(w, key) = NULL
<1> DEFINE bs == w.t.buckets
           N == Len(bs)
           b == HASH_TO_BKT(HashOf[key], N)
           S == Range(s)
           find == HASH_FIND_IN_BKT(w, key)
<1>1. PICK c : Chains(bs, w.p, c, S)
  BY DEF Holds
<1>2. /\ N \in Nat \ {0}
      /\ \A i \in 1 .. N : Distinct(c[i]) /\ Range(c[i]) = {e \in S : BucketOf(e, N) = i}
  BY <1>1, ChainsFacts
<1>3. b \in 1 .. N
  <2>1. HashOf[key] \in Nat
    BY BuildIs
  <2> HIDE DEF N
  <2> QED
    BY <1>2, <2>1, ToBucket
<1> DEFINE chain == c[b]
           hd == bs[b].hh_head
           hn == w.p.hh_next
           hp == w.p.hh_prev
<1>4. Chained(hn, hp, hd, chain)
  BY <1>1, <1>3 DEF Chains
<1>5. find = FirstWith(Chain(hn, hd), KeyOf, key)
  BY DEF HASH_FIND_IN_BKT
<1>6. Distinct(chain) /\ Range(chain) = {e \in S : BucketOf(e, N) = b}
  BY <1>2, <1>3
<1>7. \A x \in S : KeyOf[x] = key => BucketOf(x, N) = b
  BY DEF BucketOf, Hashv
<1> HIDE DEF hn, hd, hp, chain, find, S, b
<1>8. Chain(hn, hd) = chain
  BY <1>4, ChainIs
<1>9. DistinctKeys(chain)
  BY <1>6 DEF DistinctKeys, S
<1>10. /\ \A x \in Range(chain) : KeyOf[x] = key => find = x
       /\ (\A x \in Range(chain) : KeyOf[x] # key) => find = NULL
  <2>1. /\ \A x \in Range(chain) : KeyOf[x] = key => FirstWith(chain, KeyOf, key) = x
        /\ (\A x \in Range(chain) : KeyOf[x] # key) => FirstWith(chain, KeyOf, key) = NULL
    BY <1>6, <1>9, FirstWithIs
  <2> QED
    BY <1>5, <1>8, <2>1
<1> QED
  BY <1>6, <1>7, <1>10 DEF find, S

\* HASH_FIND: with a filter it takes one that has the bits of the elements.
LEMMA FindIs ==
  ASSUME build \in Builds, NEW w, NEW s, Empty(w, s) \/ Holds(w, s), DistinctKeys(s),
         NEW key \in Range(KeyOf)
  PROVE  /\ HASH_BLOOM = 0 \/ Empty(w, s) \/ Complete(w.t, s) =>
              \A x \in Range(s) : KeyOf[x] = key => HASH_FIND(w, key) = x
         /\ (\A x \in Range(s) : KeyOf[x] # key) => HASH_FIND(w, key) = NULL
<1>1. CASE Empty(w, s)
  <2>1. HASH_FIND(w, key) = NULL
    BY <1>1, HeadTells DEF HASH_FIND
  <2>2. Range(s) = {}
    BY <1>1, EmptyIsChained DEF Empty
  <2> QED
    BY <2>1, <2>2
<1>2. CASE Holds(w, s)
  <2>1. w.t.head # NULL /\ ~Empty(w, s)
    BY <1>2, HeadTells
  <2>2. /\ \A x \in Range(s) : KeyOf[x] = key => HASH_FIND_IN_BKT(w, key) = x
        /\ (\A x \in Range(s) : KeyOf[x] # key) => HASH_FIND_IN_BKT(w, key) = NULL
    BY <1>2, FindInBkt
  <2>3. HASH_FIND(w, key) = IF HASH_BLOOM_TEST(w.t, HashOf[key]) THEN HASH_FIND_IN_BKT(w, key) ELSE NULL
    BY <2>1 DEF HASH_FIND
  <2>4. ASSUME HASH_BLOOM = 0 \/ Complete(w.t, s), NEW x \in Range(s), KeyOf[x] = key
        PROVE  HASH_BLOOM_TEST(w.t, HashOf[key])
    BY <2>4 DEF HASH_BLOOM_TEST, Complete, Hashv
  <2> QED
    BY <2>1, <2>2, <2>3, <2>4
<1> QED
  BY <1>1, <1>2

\* HASH_REPLACE: the element with the same key, if there is one, makes room.
LEMMA ReplaceKeeps ==
  ASSUME build \in Builds, NEW w, IsPair(w), w.p \in Handles, NEW s, DistinctKeys(s),
         Empty(w, s) \/ (Holds(w, s) /\ Complete(w.t, s)), NEW e \in Elem, e \notin Range(s)
  PROVE  LET w1 == HASH_REPLACE(w, e)
             s1 == Append(Without(s, FirstWith(s, KeyOf, KeyOf[e])), e)
         IN /\ Holds(w1, s1) /\ Complete(w1.t, s1) /\ IsPair(w1)
            /\ DistinctKeys(s1)
<1> DEFINE k == KeyOf[e]
           f == FirstWith(s, KeyOf, k)
           r == HASH_FIND(w, k)
           w0 == IF r = NULL THEN w ELSE HASH_DELETE(w, r)
           s0 == Without(s, f)
           w1 == HASH_ADD_KEYPTR(w0, e)
           s1 == Append(s0, e)
<1>1. Distinct(s) /\ NULL \notin Range(s) /\ Range(s) \subseteq Elem
  <2>1. Distinct(s)
    BY EmptyIsChained DEF Empty, Holds, Chained
  <2> QED
    BY <2>1, DistinctFacts, MergeSortAssumption
<1>2. k \in Range(KeyOf)
  BY BuildIs
<1> HIDE DEF k
<1>3. /\ \A x \in Range(s) : KeyOf[x] = k => f = x
      /\ (\A x \in Range(s) : KeyOf[x] # k) => f = NULL
  BY <1>1, FirstWithIs
<1>4. /\ \A x \in Range(s) : KeyOf[x] = k => r = x
      /\ (\A x \in Range(s) : KeyOf[x] # k) => r = NULL
  BY <1>2, FindIs
<1>5. f = r /\ (r = NULL \/ (r \in Range(s) /\ KeyOf[r] = k))
      /\ (r = NULL => \A x \in Range(s) : KeyOf[x] # k)
  BY <1>1, <1>3, <1>4
<1>6. HASH_REPLACE(w, e) = w1
  BY DEF HASH_REPLACE, k
<1> HIDE DEF f, r
<1>7. /\ w0.p \in Handles /\ IsPair(w0)
      /\ Empty(w0, s0) \/ (Holds(w0, s0) /\ Complete(w0.t, s0))
      /\ Distinct(s0) /\ Range(s0) = {x \in Range(s) : KeyOf[x] # k}
  <2>1. CASE r = NULL
    <3>1. s0 = s /\ w0 = w
      BY <1>1, <1>5, <2>1 DEF Without
    <3> HIDE DEF s0, w0
    <3> QED
      BY <1>1, <1>5, <2>1, <3>1
  <2>2. CASE r # NULL
    <3>1. r \in Range(s) /\ KeyOf[r] = k /\ Holds(w, s) /\ Complete(w.t, s)
      <4>1. ~Empty(w, s)
        BY <1>5, <2>2, EmptyIsChained DEF Empty
      <4> QED
        BY <1>5, <2>2, <4>1
    <3>2. w0 = HASH_DELETE(w, r) /\ s0 = Without(s, r)
      BY <1>5, <2>2
    <3> HIDE DEF s0, w0
    <3>3. LET v == HASH_DELETE(w, r)
              t == Without(s, r)
          IN /\ v.p \in Handles /\ IsPair(v)
             /\ Empty(v, t) \/ (Holds(v, t) /\ Complete(v.t, t))
             /\ Distinct(t) /\ Range(t) = Range(s) \ {r}
      BY <3>1, DeletionKeeps
    <3>4. \A x \in Range(s) : KeyOf[x] = k <=> x = r
      BY <3>1 DEF DistinctKeys
    <3> QED
      BY <3>2, <3>3, <3>4
  <2> QED
    BY <2>1, <2>2
<1> HIDE DEF w0, s0
<1>8. e \notin Range(s0) /\ Range(s1) = Range(s0) \cup {e}
  BY <1>7, Appended
<1>9. DistinctKeys(s1)
  BY <1>7, <1>8 DEF DistinctKeys, k
<1>10. Holds(w1, s1) /\ Complete(w1.t, s1) /\ IsPair(w1)
  BY <1>7, <1>8, AddKeeps
<1> QED
  BY <1>6, <1>9, <1>10 DEF s0, f, k

\* HASH_SRT: the app order is sorted, the buckets are not touched.
LEMMA SrtKeeps ==
  ASSUME build \in Builds, NEW w, NEW s, Holds(w, s)
  PROVE  LET w1 == HASH_SRT(w)
             s1 == Sorted(s)
         IN /\ Holds(w1, s1) /\ IsPair(w1) /\ Range(s1) = Range(s)
            /\ Complete(w.t, s) => Complete(w1.t, s1)
<1> DEFINE t == w.t
           next == w.p.next
           prev == w.p.prev
           n == [next |-> next, prev |-> prev]
           r == SortFrom(n, t.head, "app")
           t1 == WithEnds(t, r.head, r.tail, t.num_items, t.bloom)
           p1 == [prev |-> r.n.prev, next |-> r.n.next, hh_prev |-> w.p.hh_prev, hh_next |-> w.p.hh_next]
           w1 == HASH_SRT(w)
           s1 == Sorted(s)
<1>1. /\ t \in Table /\ w.p \in Handles /\ t.num_items = Len(s) /\ Bounded(t) /\ s # <<>>
      /\ Chained(next, prev, t.head, s)
  BY DEF Holds
<1>2. PICK c : Chains(t.buckets, w.p, c, Range(s))
  BY DEF Holds
<1>3. next \in [Elem -> Link] /\ prev \in [Elem -> Link]
  BY <1>1 DEF Handles
<1>4. /\ r.n \in Pointers
      /\ Chained(r.n.next, r.n.prev, r.head, s1)
      /\ Range(s1) = Range(s) /\ r.tail = s1[Len(s1)]
  <2> DEFINE h == t.head
  <2>1. Chained(next, prev, h, s)
    BY <1>1
  <2> HIDE DEF next, prev, h
  <2> QED
    BY <1>1, <1>3, <2>1, ChainSort DEF h
<1> HIDE DEF r, s1, n
<1>5. Distinct(s1) /\ Len(s1) = Len(s) /\ s1 # <<>>
  <2>1. Distinct(s) /\ Distinct(s1)
    BY <1>1, <1>4 DEF Chained
  <2>2. Cardinality(Range(s)) = Len(s) /\ Cardinality(Range(s1)) = Len(s1)
    BY <2>1, DistinctRange
  <2>3. Len(s1) = Len(s)
    BY <1>4, <2>2
  <2>4. s # <<>> => Len(s) # 0
    BY <2>1, DistinctFacts
  <2>5. s1 = <<>> => Len(s1) = 0
    BY <2>1, DistinctFacts
  <2> QED
    BY <1>1, <2>1, <2>3, <2>4, <2>5
<1>6. r.head \in Elem /\ r.tail \in Elem
  <2>1. r.head \in Elem
    <3> DEFINE nx == r.n.next
               pv == r.n.prev
               h == r.head
    <3>1. Chained(nx, pv, h, s1)
      BY <1>4
    <3> HIDE DEF nx, pv, h
    <3>2. h \in Elem
      BY <1>5, <3>1, ChainHead
    <3> QED
      BY <3>2 DEF h
  <2>2. s1[Len(s1)] \in Elem
    BY <1>5, DistinctFacts
  <2> QED
    BY <1>4, <2>1, <2>2
<1>7. w1 = [t |-> [t EXCEPT !.head = r.head, !.tail = r.tail],
            p |-> [w.p EXCEPT !.next = r.n.next, !.prev = r.n.prev]]
  BY DEF HASH_SRT, r, n
<1>8. [w.p EXCEPT !.next = r.n.next, !.prev = r.n.prev] = p1
  <2> DEFINE q == w.p
             x == r.n.next
             y == r.n.prev
             u == [q EXCEPT !.next = x]
  <2>1. q \in Handles
    BY <1>1
  <2> HIDE DEF q, x, y
  <2>2. u = [prev |-> q.prev, next |-> x, hh_prev |-> q.hh_prev, hh_next |-> q.hh_next]
    BY <2>1 DEF Handles
  <2>3. [q EXCEPT !.next = x, !.prev = y] = [u EXCEPT !.prev = y]
    BY <2>1 DEF Handles
  <2> HIDE DEF u
  <2>4. [q EXCEPT !.next = x, !.prev = y] = [prev |-> y, next |-> x, hh_prev |-> q.hh_prev, hh_next |-> q.hh_next]
    BY <2>2, <2>3
  <2> QED
    BY <2>4 DEF q, x, y
<1>9. [t EXCEPT !.head = r.head, !.tail = r.tail] = t1
  <2> DEFINE x == r.head
             y == r.tail
  <2> HIDE DEF t, x, y
  <2>1. [t EXCEPT !.head = x, !.tail = y] = WithEnds(t, x, y, t.num_items, t.bloom)
    BY <1>1, HeadUpdate
  <2> QED
    BY <2>1 DEF x, y
<1>10. p1 \in Handles /\ p1.next = r.n.next /\ p1.prev = r.n.prev
       /\ p1.hh_next = w.p.hh_next /\ p1.hh_prev = w.p.hh_prev
  <2>1. r.n.next \in [Elem -> Link] /\ r.n.prev \in [Elem -> Link]
    BY <1>4 DEF Pointers
  <2> QED
    BY <1>1, <2>1 DEF Handles
<1>11. /\ t1 \in Table /\ t1.head = r.head /\ t1.tail = r.tail /\ t1.num_items = Len(s1) /\ t1.bloom = t.bloom
       /\ t1.buckets = t.buckets /\ Bounded(t1)
  <2> DEFINE x == r.head
             y == r.tail
             m == t.num_items
             f == t.bloom
  <2>1. x \in Elem /\ y \in Elem /\ m \in Nat /\ f \in SUBSET Bits /\ t1 = WithEnds(t, x, y, m, f)
    BY <1>1, <1>6 DEF Table
  <2> HIDE DEF x, y, m, f, t1, t
  <2>2. /\ t1 \in Table /\ t1.head = x /\ t1.tail = y /\ t1.num_items = m /\ t1.bloom = f
        /\ t1.buckets = t.buckets /\ (Bounded(t1) <=> Bounded(t))
    BY <1>1, <2>1, WithEndsIs
  <2> QED
    BY <1>1, <1>5, <2>2 DEF x, y, m, f
<1> HIDE DEF t1, p1, t, w1
<1>12. w1.t = t1 /\ w1.p = p1 /\ IsPair(w1)
  BY <1>7, <1>8, <1>9 DEF IsPair
<1>13. Chains(t1.buckets, p1, c, Range(s1))
  <2> DEFINE bs == t.buckets
             S == Range(s)
  <2>1. Chains(bs, w.p, c, S)
    BY <1>2
  <2>2. t1.buckets = bs /\ Range(s1) = S
    BY <1>4, <1>11
  <2> HIDE DEF bs, S
  <2>3. Chains(bs, p1, c, S)
    BY <1>10, <2>1 DEF Chains
  <2> QED
    BY <2>2, <2>3
<1>14. Holds(w1, s1)
  BY <1>4, <1>5, <1>10, <1>11, <1>12, <1>13 DEF Holds
<1>15. Complete(w.t, s) => Complete(w1.t, s1)
  BY <1>4, <1>11, <1>12 DEF Complete, t
<1> QED
  BY <1>4, <1>12, <1>14, <1>15 DEF w1, s1

\* What a walk over s has chosen after k of its elements.
ChosenUpTo(y, s, S, k) ==
  y.done = k /\ Distinct(y.out) /\ Range(y.out) = {s[i] : i \in 1 .. k} \cap S

\* The elements of s that are in S: each of them once.
LEMMA ChosenIs ==
  ASSUME NEW s, Distinct(s), NEW S
  PROVE  Distinct(Chosen(s, S)) /\ Range(Chosen(s, S)) = Range(s) \cap S
<1> DEFINE N == Len(s)
           turn == [y \in [done : Nat, out : Seq(Elem)] |->
                      IF y.done = N THEN y
                      ELSE [done |-> y.done + 1,
                            out |-> IF s[y.done + 1] \in S THEN Append(y.out, s[y.done + 1]) ELSE y.out]]
           x == [done |-> 0, out |-> <<>>]
           R == {v \in [done : Nat, out : Seq(Elem)] \X (0 .. N) : ChosenUpTo(v[1], s, S, N - v[2])}
<1>1. /\ N \in Nat /\ Range(s) = {s[i] : i \in 1 .. N}
      /\ \A i \in 1 .. N : s[i] \in Elem
      /\ \A i, j \in 1 .. N : s[i] = s[j] => i = j
  BY DistinctFacts
<1> HIDE DEF N
<1>2. <<x, N>> \in R
  <2>1. <<>> \in Seq(Elem) /\ Distinct(<<>>) /\ Range(<<>>) = {}
    BY EmptyIsChained, EmptySeq
  <2>2. x \in [done : Nat, out : Seq(Elem)] /\ N \in 0 .. N /\ N - N = 0
    BY <1>1, <2>1
  <2>3. ChosenUpTo(x, s, S, 0)
    BY <2>1 DEF ChosenUpTo
  <2> HIDE DEF x
  <2> QED
    BY <2>2, <2>3
<1>3. \A y : \A k \in 1 .. N : <<y, k>> \in R => <<turn[y], k - 1>> \in R
  <2> SUFFICES ASSUME NEW y, NEW k \in 1 .. N, <<y, k>> \in R
               PROVE  <<turn[y], k - 1>> \in R
    OBVIOUS
  <2>1. y \in [done : Nat, out : Seq(Elem)] /\ ChosenUpTo(y, s, S, N - k)
    OBVIOUS
  <2> DEFINE k0 == y.done
             k1 == y.done + 1
             e == s[k1]
             more == IF e \in S THEN Append(y.out, e) ELSE y.out
             z == [done |-> k1, out |-> more]
  <2>2. /\ k0 = N - k /\ k0 # N /\ k1 \in 1 .. N /\ k1 = N - (k - 1) /\ k1 \in Nat
        /\ k - 1 \in 0 .. N
    BY <1>1, <2>1 DEF ChosenUpTo
  <2>3. turn[y] = z
    BY <2>1, <2>2
  <2>4. Distinct(y.out) /\ Range(y.out) = {s[i] : i \in 1 .. k0} \cap S
    BY <2>1, <2>2 DEF ChosenUpTo
  <2>5. e \in Elem /\ e \notin Range(y.out) /\ {s[i] : i \in 1 .. k1} = {s[i] : i \in 1 .. k0} \cup {e}
    <3>1. e \in Elem
      BY <1>1, <2>2
    <3>2. \A i \in 1 .. k0 : i \in 1 .. N /\ i # k1
      BY <1>1, <2>2
    <3>3. \A i \in 1 .. k0 : s[i] # e
      BY <1>1, <2>2, <3>2
    <3>4. 1 .. k1 = (1 .. k0) \cup {k1}
      BY <1>1, <2>2
    <3> HIDE DEF k0, k1
    <3>5. {s[i] : i \in 1 .. k1} = {s[i] : i \in 1 .. k0} \cup {s[k1]}
      BY <3>4
    <3> QED
      BY <2>4, <3>1, <3>3, <3>5
  <2> HIDE DEF e, k0, k1
  <2>6. Distinct(more) /\ Range(more) = {s[i] : i \in 1 .. k1} \cap S
    <3>1. CASE e \in S
      <4> DEFINE o == y.out
      <4>1. Distinct(o) /\ e \in Elem /\ e \notin Range(o)
        BY <2>4, <2>5
      <4> HIDE DEF o
      <4>2. Distinct(Append(o, e)) /\ Range(Append(o, e)) = Range(o) \cup {e}
        BY <4>1, Appended
      <4>3. more = Append(o, e) /\ Range(o) = {s[i] : i \in 1 .. k0} \cap S
        BY <2>4, <3>1 DEF o
      <4> HIDE DEF more
      <4> QED
        BY <2>5, <3>1, <4>2, <4>3
    <3>2. CASE e \notin S
      BY <2>4, <2>5, <3>2
    <3> QED
      BY <3>1, <3>2
  <2> HIDE DEF more
  <2>7. z \in [done : Nat, out : Seq(Elem)]
    BY <2>2, <2>6 DEF Distinct
  <2>8. ChosenUpTo(z, s, S, N - (k - 1))
    BY <2>2, <2>6 DEF ChosenUpTo
  <2> HIDE DEF z, turn
  <2> QED
    BY <2>2, <2>3, <2>7, <2>8
<1> HIDE DEF turn, x, R
<1>4. <<Repeat(turn, x, N), 0>> \in R
  BY <1>1, <1>2, <1>3, RepeatRule
<1>5. Chosen(s, S) = Repeat(turn, x, N).out
  BY DEF Chosen, turn, x, N
<1> DEFINE y == Repeat(turn, x, N)
<1> HIDE DEF y
<1>6. ChosenUpTo(y, s, S, N - 0)
  BY <1>4 DEF R, y
<1>7. N - 0 = N
  BY <1>1
<1> QED
  BY <1>1, <1>5, <1>6, <1>7 DEF ChosenUpTo, y

\* One selected element goes behind the last one and into its bucket.
LEMMA SelectKeeps ==
  ASSUME build \in Builds, Threshold > 1, NEW y, y.p \in Handles, NEW s, y.last = LastOf(s),
         NEW w, w = [t |-> y.t, p |-> y.p], Empty(w, s) \/ Holds(w, s),
         NEW e \in Elem, e \notin Range(s)
  PROVE  LET z == Select(y, e)
         IN /\ z = [t |-> z.t, p |-> z.p, last |-> e, done |-> y.done + 1]
            /\ Holds([t |-> z.t, p |-> z.p], Append(s, e))
            /\ e = LastOf(Append(s, e))
<1> DEFINE t == IF y.t.head = NULL THEN HASH_MAKE_TABLE(e) ELSE y.t
           p == AppAfter(y.p, e, LastOf(s))
           w0 == [t |-> t, p |-> p]
           wb == HASH_ADD_TO_BKT(w0, e)
           t2 == WithEnds(wb.t, wb.t.head, wb.t.tail, wb.t.num_items + 1, wb.t.bloom)
           z == Select(y, e)
           w1 == [t |-> z.t, p |-> z.p]
           s1 == Append(s, e)
           S == Range(s)
<1>1. /\ w.t = y.t /\ w.p = y.p
      /\ Distinct(s) /\ (y.t.head = NULL <=> s = <<>>) /\ (y.t.head = NULL <=> ~Holds(w, s))
      /\ Range(<<>>) = {} /\ Len(<<>>) = 0
  <2>1. Distinct(<<>>) /\ Range(<<>>) = {} /\ Len(<<>>) = 0
    BY EmptyIsChained
  <2>2. w.t = y.t /\ w.p = y.p
    OBVIOUS
  <2>3. CASE Empty(w, s)
    <3>1. s = <<>> /\ w.t.head = NULL
      BY <2>3, HeadTells DEF Empty
    <3>2. ~Holds(w, s)
      BY <3>1 DEF Holds
    <3> QED
      BY <2>1, <2>2, <3>1, <3>2
  <2>4. CASE Holds(w, s)
    <3>1. s # <<>> /\ Distinct(s)
      BY <2>4 DEF Holds, Chained
    <3>2. w.t.head # NULL
      BY <2>4, HeadTells
    <3> QED
      BY <2>1, <2>2, <2>4, <3>1, <3>2
  <2> QED
    BY <2>3, <2>4
<1>2. /\ t \in Table /\ Bounded(t) /\ t.num_items = Len(s)
      /\ \E c : Chains(t.buckets, y.p, c, S)
      /\ t.head = (IF s = <<>> THEN e ELSE y.t.head)
  <2>1. CASE y.t.head = NULL
    <3>1. /\ t \in Table /\ t.head = e /\ t.num_items = 0 /\ Bounded(t)
          /\ \E c : Chains(t.buckets, y.p, c, {})
      BY <2>1, MakeTableIs
    <3> HIDE DEF t
    <3>2. s = <<>> /\ S = {} /\ Len(s) = 0
      BY <1>1, <2>1
    <3> QED
      BY <3>1, <3>2
  <2>2. CASE y.t.head # NULL
    <3>1. t = w.t /\ Holds(w, s)
      BY <1>1, <2>2
    <3> HIDE DEF t
    <3> QED
      BY <1>1, <2>2, <3>1 DEF Holds
  <2> QED
    BY <2>1, <2>2
<1> HIDE DEF t
<1>3. p \in Handles /\ SameChains(y.p, p) /\ Chained(p.next, p.prev, t.head, s1)
  <2> DEFINE h == IF s = <<>> THEN NULL ELSE y.t.head
             q == y.p
  <2>1. q \in Handles /\ InOrder(q, h, s)
    <3>1. CASE s = <<>>
      <4>1. Chained(q.next, q.prev, NULL, <<>>)
        BY EmptyIsChained
      <4> QED
        BY <3>1, <4>1 DEF InOrder
    <3>2. CASE s # <<>>
      <4>1. Holds(w, s)
        BY <1>1, <3>2
      <4> QED
        BY <1>1, <3>2, <4>1 DEF Holds, InOrder
    <3> QED
      BY <3>1, <3>2
  <2>2. HeadWith(h, s, e) = t.head
    BY <1>2 DEF HeadWith
  <2>3. p = AppAfter(q, e, LastOf(s))
    OBVIOUS
  <2> HIDE DEF h, q, p, s1
  <2>4. p \in Handles /\ SameChains(q, p) /\ InOrder(p, HeadWith(h, s, e), Append(s, e))
    BY <2>1, <2>3, AppOrder
  <2> QED
    BY <2>2, <2>4 DEF q, s1, InOrder
<1>4. /\ Distinct(s1) /\ s1 # <<>> /\ Len(s1) = Len(s) + 1 /\ Len(s) \in Nat
      /\ Range(s1) = S \cup {e} /\ LastOf(s1) = e
      /\ (s # <<>> => Len(s) # 0) /\ (s = <<>> => S = {})
  <2>1. s # <<>> => Len(s) # 0
    BY <1>1, DistinctFacts
  <2>2. s = <<>> => S = {}
    BY <1>1
  <2>3. /\ Distinct(s1) /\ s1 # <<>> /\ Len(s1) = Len(s) + 1 /\ Len(s) \in Nat
        /\ Range(s1) = S \cup {e} /\ LastOf(s1) = e
    BY <1>1, Appended
  <2> QED
    BY <2>1, <2>2, <2>3
<1> HIDE DEF p, s1
<1>5. \E c : Chains(t.buckets, p, c, S)
  <2>1. PICK c : Chains(t.buckets, y.p, c, S)
    BY <1>2
  <2>2. p.hh_next = y.p.hh_next /\ p.hh_prev = y.p.hh_prev
    BY <1>3 DEF SameChains
  <2>3. Chains(t.buckets, p, c, S)
    BY <2>1, <2>2 DEF Chains
  <2> QED
    BY <2>3
<1>6. w0.t = t /\ w0.p = p
  OBVIOUS
<1>7. z = [t |-> [wb.t EXCEPT !.num_items = @ + 1], p |-> wb.p, last |-> e, done |-> y.done + 1]
  <2> DEFINE q == [y.p EXCEPT !.prev[e] = y.last,
                              !.next = IF y.last = NULL THEN [@ EXCEPT ![e] = NULL]
                                       ELSE [@ EXCEPT ![e] = NULL, ![y.last] = e]]
  <2>1. q = p
    <3> DEFINE nx == IF y.last = NULL THEN [y.p.next EXCEPT ![e] = NULL]
                     ELSE [y.p.next EXCEPT ![e] = NULL, ![y.last] = e]
               pv == [y.p.prev EXCEPT ![e] = y.last]
               u == [y.p EXCEPT !.prev[e] = y.last]
    <3>1. u = [prev |-> pv, next |-> y.p.next, hh_prev |-> y.p.hh_prev, hh_next |-> y.p.hh_next]
      BY DEF Handles
    <3>2. q = [u EXCEPT !.next = nx]
      BY DEF Handles
    <3> HIDE DEF u, nx, pv, q
    <3>3. q = [prev |-> pv, next |-> nx, hh_prev |-> y.p.hh_prev, hh_next |-> y.p.hh_next]
      BY <3>1, <3>2
    <3> QED
      BY <3>3 DEF p, AppAfter, nx, pv
  <2> HIDE DEF q
  <2>2. wb = HASH_ADD_TO_BKT([t |-> IF y.t.head = NULL THEN HASH_MAKE_TABLE(e) ELSE y.t, p |-> q], e)
    BY <2>1 DEF t
  <2> HIDE DEF wb
  <2> QED
    BY <2>2 DEF Select, q
<1> HIDE DEF w0, S
<1>8. Rebuilt(w0, wb, S \cup {e})
  <2>1. w0.t \in Table /\ w0.p \in Handles /\ Bounded(w0.t) /\ \E c : Chains(w0.t.buckets, w0.p, c, S)
    BY <1>2, <1>3, <1>5, <1>6
  <2>2. e \notin S /\ (w0.t.num_items > 0 \/ (S = {} /\ Threshold > 1))
    BY <1>2, <1>4, <1>6 DEF S
  <2> QED
    BY <2>1, <2>2, AddToBktKeeps
<1> HIDE DEF wb
<1>9. /\ wb.t \in Table /\ wb.p \in Handles /\ Bounded(wb.t)
      /\ wb.t.head = t.head /\ wb.t.num_items = Len(s)
      /\ wb.p.next = p.next /\ wb.p.prev = p.prev
      /\ \E c : Chains(wb.t.buckets, wb.p, c, S \cup {e})
  BY <1>2, <1>6, <1>8 DEF Rebuilt, SameTable
<1>10. /\ t2 \in Table /\ t2.head = t.head /\ t2.num_items = Len(s) + 1
       /\ t2.buckets = wb.t.buckets /\ Bounded(t2)
       /\ [wb.t EXCEPT !.num_items = @ + 1] = t2
  <2> DEFINE tb == wb.t
             h == tb.head
             l == tb.tail
             n == tb.num_items + 1
             f == tb.bloom
  <2>1. tb \in Table /\ h \in Elem /\ l \in Elem /\ n \in Nat /\ f \in SUBSET Bits
    BY <1>4, <1>9 DEF Table
  <2>2. t2 = WithEnds(tb, h, l, n, f)
    OBVIOUS
  <2>3. [wb.t EXCEPT !.num_items = @ + 1] = [tb EXCEPT !.num_items = n]
    BY <2>1 DEF Table
  <2> HIDE DEF tb, h, l, n, f, t2
  <2>4. /\ t2 \in Table /\ t2.head = h /\ t2.tail = l /\ t2.num_items = n /\ t2.bloom = f
        /\ t2.buckets = tb.buckets /\ (Bounded(t2) <=> Bounded(tb))
    BY <2>1, <2>2, WithEndsIs
  <2>5. [tb EXCEPT !.num_items = n] = WithEnds(tb, tb.head, tb.tail, n, tb.bloom)
    BY <2>1, Updates
  <2> QED
    BY <1>9, <2>2, <2>3, <2>4, <2>5 DEF tb, h, l, n, f
<1> HIDE DEF t2, z
<1>11. z = [t |-> t2, p |-> wb.p, last |-> e, done |-> y.done + 1]
  BY <1>7, <1>10
<1>12. z.t = t2 /\ z.p = wb.p /\ z.last = e /\ z.done = y.done + 1
  BY <1>11
<1>13. w1.t = t2 /\ w1.p = wb.p
  BY <1>12
<1> HIDE DEF w1
<1>14. Holds(w1, s1)
  BY <1>3, <1>4, <1>9, <1>10, <1>13 DEF Holds, S
<1> QED
  BY <1>4, <1>11, <1>12, <1>14 DEF z, w1, s1

\* The first k elements of a sequence.
LEMMA PrefixIs ==
  ASSUME NEW s, Distinct(s), NEW k \in 0 .. Len(s)
  PROVE  /\ Distinct(SubSeq(s, 1, k)) /\ Range(SubSeq(s, 1, k)) = {s[i] : i \in 1 .. k}
         /\ SubSeq(s, 1, k) = <<>> <=> k = 0
         /\ k = Len(s) => SubSeq(s, 1, k) = s
         /\ k < Len(s) => /\ Append(SubSeq(s, 1, k), s[k + 1]) = SubSeq(s, 1, k + 1)
                          /\ s[k + 1] \in Elem /\ s[k + 1] \notin Range(SubSeq(s, 1, k))
<1> DEFINE t == SubSeq(s, 1, k)
<1>1. /\ Len(s) \in Nat /\ s \in Seq(Elem)
      /\ \A i \in 1 .. Len(s) : s[i] \in Elem
      /\ \A i, j \in 1 .. Len(s) : s[i] = s[j] => i = j
  BY DistinctFacts
<1>2. k \in Nat /\ \A i \in 1 .. k : i \in 1 .. Len(s)
  BY <1>1
<1>3. t = [i \in 1 .. k |-> s[i]]
  BY <1>1, <1>2
<1>4. t \in Seq(Elem) /\ Len(t) = k /\ \A i \in 1 .. k : t[i] = s[i]
  BY <1>1, <1>2, <1>3
<1>5. k = Len(s) => t = s
  BY <1>1, <1>3
<1>6. k < Len(s) => Append(t, s[k + 1]) = SubSeq(s, 1, k + 1)
  BY <1>1, <1>2
<1> HIDE DEF t
<1>7. Distinct(t)
  BY <1>1, <1>2, <1>4 DEF Distinct
<1>8. Range(t) = {s[i] : i \in 1 .. k} /\ (t = <<>> <=> k = 0)
  <2>1. Range(t) = {t[i] : i \in 1 .. Len(t)} /\ (t = <<>> <=> Len(t) = 0)
    BY <1>7, DistinctFacts
  <2> QED
    BY <1>4, <2>1
<1>9. k < Len(s) => s[k + 1] \in Elem /\ s[k + 1] \notin Range(t)
  <2> SUFFICES ASSUME k < Len(s)
               PROVE  s[k + 1] \in Elem /\ s[k + 1] \notin Range(t)
    OBVIOUS
  <2>1. k + 1 \in 1 .. Len(s) /\ \A i \in 1 .. k : i # k + 1
    BY <1>1, <1>2
  <2> QED
    BY <1>1, <1>2, <1>8, <2>1
<1> QED
  BY <1>5, <1>6, <1>7, <1>8, <1>9 DEF t

\* What a selection has done after k elements of s.
Selecting == [t : Table \cup {NoTable}, p : Handles, last : Link, done : Nat]
SelectedUpTo(y, s, k) ==
  LET w == [t |-> y.t, p |-> y.p]
      chosen == SubSeq(s, 1, k)
  IN y.done = k /\ y.last = LastOf(chosen) /\ (Empty(w, chosen) \/ Holds(w, chosen))

\* One more element of s.
LEMMA SelectOne ==
  ASSUME build \in Builds, Threshold > 1, NEW s, Distinct(s), NEW k \in 0 .. Len(s) - 1,
         NEW y \in Selecting, SelectedUpTo(y, s, k), NEW z, z = Select(y, s[k + 1])
  PROVE  z \in Selecting /\ SelectedUpTo(z, s, k + 1)
<1> DEFINE e == s[k + 1]
           chosen == SubSeq(s, 1, k)
           w == [t |-> y.t, p |-> y.p]
           w1 == [t |-> z.t, p |-> z.p]
<1>1. Len(s) \in Nat /\ k \in 0 .. Len(s) /\ k \in Nat /\ k < Len(s) /\ k + 1 \in Nat
  <2>1. Len(s) \in Nat
    BY DistinctFacts
  <2> QED
    BY <2>1
<1>2. Distinct(chosen) /\ Append(chosen, e) = SubSeq(s, 1, k + 1) /\ e \in Elem /\ e \notin Range(chosen)
  BY <1>1, PrefixIs
<1>3. y.p \in Handles /\ y.done = k /\ y.last = LastOf(chosen) /\ (Empty(w, chosen) \/ Holds(w, chosen))
  BY DEF Selecting, SelectedUpTo
<1> HIDE DEF e, chosen
<1>4. /\ z = [t |-> z.t, p |-> z.p, last |-> e, done |-> y.done + 1]
      /\ Holds(w1, Append(chosen, e))
      /\ e = LastOf(Append(chosen, e))
  <2>1. z = Select(y, e)
    BY DEF e
  <2>2. w = [t |-> y.t, p |-> y.p]
    OBVIOUS
  <2> DEFINE z2 == Select(y, e)
  <2> HIDE DEF w, w1
  <2>3. /\ z2 = [t |-> z2.t, p |-> z2.p, last |-> e, done |-> y.done + 1]
        /\ Holds([t |-> z2.t, p |-> z2.p], Append(chosen, e))
        /\ e = LastOf(Append(chosen, e))
    BY <1>2, <1>3, <2>2, SelectKeeps
  <2> HIDE DEF z2
  <2>4. z = z2
    BY <2>1 DEF z2
  <2> QED
    BY <2>3, <2>4 DEF w1
<1>5. w1.t = z.t /\ w1.p = z.p
  OBVIOUS
<1> HIDE DEF w1
<1>6. z.t \in Table /\ z.p \in Handles
  BY <1>4, <1>5 DEF Holds
<1>7. z.last = e /\ z.done = k + 1 /\ e \in Link
  BY <1>2, <1>3, <1>4 DEF Link
<1>8. z \in Selecting
  <2>1. z = [t |-> z.t, p |-> z.p, last |-> e, done |-> k + 1]
    BY <1>3, <1>4
  <2> QED
    BY <1>1, <1>6, <1>7, <2>1 DEF Selecting
<1> QED
  BY <1>2, <1>4, <1>7, <1>8 DEF SelectedUpTo, w1

\* HASH_SELECT: a table of the chosen elements, in the order of the buckets of the other.
LEMMA SelectionHolds ==
  ASSUME build \in Builds, Threshold > 1, NEW dst, dst.t = NoTable, dst.p \in Handles,
         NEW src, NEW chosen, NEW s, s = Chosen(ByBucket(src), chosen), Distinct(s)
  PROVE  LET w1 == HASH_SELECT(dst, src, chosen)
         IN w1.p \in Handles /\ IsPair(w1) /\ (Empty(w1, s) \/ Holds(w1, s))
<1> DEFINE N == Len(s)
           turn == [y \in Selecting |-> IF y.done = N THEN y ELSE Select(y, s[y.done + 1])]
           x == [t |-> dst.t, p |-> dst.p, last |-> NULL, done |-> 0]
           R == {v \in Selecting \X (0 .. N) : SelectedUpTo(v[1], s, N - v[2])}
           y == Repeat(turn, x, N)
           w1 == HASH_SELECT(dst, src, chosen)
<1>1. N \in Nat
  BY DistinctFacts
<1>2. w1 = [t |-> y.t, p |-> y.p]
  BY DEF HASH_SELECT, Selecting
<1> HIDE DEF y, w1
<1>3. <<x, N>> \in R
  <2>1. SubSeq(s, 1, 0) = <<>>
    <3>1. 0 \in 0 .. Len(s)
      BY <1>1
    <3> QED
      BY <3>1, PrefixIs
  <2>2. x \in Selecting /\ x.done = 0 /\ x.last = NULL /\ [t |-> x.t, p |-> x.p].t = NoTable
    BY DEF Selecting, Link
  <2> HIDE DEF x, N
  <2>3. N - N = 0 /\ N \in 0 .. N
    BY <1>1
  <2>4. SelectedUpTo(x, s, 0)
    BY <2>1, <2>2 DEF SelectedUpTo, LastOf, Empty
  <2> QED
    BY <2>2, <2>3, <2>4
<1>4. \A v : \A k \in 1 .. N : <<v, k>> \in R => <<turn[v], k - 1>> \in R
  <2> SUFFICES ASSUME NEW v, NEW k \in 1 .. N, <<v, k>> \in R
               PROVE  <<turn[v], k - 1>> \in R
    OBVIOUS
  <2> HIDE DEF N
  <2> DEFINE k1 == N - k
  <2>1. v \in Selecting /\ SelectedUpTo(v, s, k1)
    OBVIOUS
  <2>2. k1 \in 0 .. N - 1 /\ k1 # N /\ k - 1 \in 0 .. N /\ k1 + 1 = N - (k - 1)
    BY <1>1
  <2>3. v.done = k1
    BY <2>1 DEF SelectedUpTo
  <2> DEFINE z == Select(v, s[k1 + 1])
  <2>4. turn[v] = z
    BY <2>1, <2>2, <2>3
  <2> HIDE DEF k1, turn
  <2>5. z \in Selecting /\ SelectedUpTo(z, s, k1 + 1)
    <3>1. k1 \in 0 .. Len(s) - 1
      BY <2>2 DEF N
    <3> QED
      BY <2>1, <3>1, SelectOne
  <2> HIDE DEF z
  <2> QED
    BY <2>2, <2>4, <2>5
<1> HIDE DEF turn, x, R
<1>5. <<Repeat(turn, x, N), 0>> \in R
  <2> HIDE DEF N
  <2> QED
    BY <1>1, <1>3, <1>4, RepeatRule
<1>6. y \in Selecting /\ SelectedUpTo(y, s, N - 0)
  BY <1>5 DEF R, y
<1>7. SubSeq(s, 1, N - 0) = s
  <2>1. N - 0 = N /\ N \in 0 .. Len(s) /\ N = Len(s)
    BY <1>1
  <2> HIDE DEF N
  <2> QED
    BY <2>1, PrefixIs
<1>8. w1.p = y.p /\ IsPair(w1) /\ y.p \in Handles
  BY <1>2, <1>6 DEF IsPair, Selecting
<1> HIDE DEF N
<1>9. Empty(w1, s) \/ Holds(w1, s)
  BY <1>2, <1>6, <1>7 DEF SelectedUpTo
<1> QED
  BY <1>8, <1>9 DEF w1

-----------------------------------------------------------------------------
\* The handles without those of elements outside S.
KeptHandles(p, S) ==
  [prev |-> Kept(p.prev, S), next |-> Kept(p.next, S),
   hh_prev |-> Kept(p.hh_prev, S), hh_next |-> Kept(p.hh_next, S)]

\* A field of the handles without the pointers of elements outside S.
LEMMA KeptIs ==
  ASSUME NEW f \in [Elem -> Link], NEW S
  PROVE  /\ Kept(f, S) \in [Elem -> Link]
         /\ \A x \in Elem : x \in S => Kept(f, S)[x] = f[x]
BY DEF Kept, Link

\* What is forgotten of the elements that have left a table is no part of it.
LEMMA KeptKeeps ==
  ASSUME build \in Builds, NEW w, w.p \in Handles, NEW s
  PROVE  LET w1 == [t |-> w.t, p |-> KeptHandles(w.p, Range(s))]
         IN /\ w1.p \in Handles
            /\ Empty(w, s) => Empty(w1, s)
            /\ Holds(w, s) => Holds(w1, s)
<1> DEFINE S == Range(s)
           p == w.p
           p1 == KeptHandles(p, S)
           w1 == [t |-> w.t, p |-> p1]
<1>1. /\ p.prev \in [Elem -> Link] /\ p.next \in [Elem -> Link]
      /\ p.hh_prev \in [Elem -> Link] /\ p.hh_next \in [Elem -> Link]
  BY DEF Handles
<1>2. /\ p1.prev = Kept(p.prev, S) /\ p1.next = Kept(p.next, S)
      /\ p1.hh_prev = Kept(p.hh_prev, S) /\ p1.hh_next = Kept(p.hh_next, S)
      /\ p1 = [prev |-> p1.prev, next |-> p1.next, hh_prev |-> p1.hh_prev, hh_next |-> p1.hh_next]
  BY DEF KeptHandles
<1> HIDE DEF p1
<1>3. w1.t = w.t /\ w1.p = p1
  OBVIOUS
<1> HIDE DEF w1
<1>4. /\ Kept(p.prev, S) \in [Elem -> Link] /\ Kept(p.next, S) \in [Elem -> Link]
      /\ Kept(p.hh_prev, S) \in [Elem -> Link] /\ Kept(p.hh_next, S) \in [Elem -> Link]
  BY <1>1, KeptIs
<1>5. \A x \in Elem : x \in S => /\ Kept(p.prev, S)[x] = p.prev[x] /\ Kept(p.next, S)[x] = p.next[x]
                                 /\ Kept(p.hh_prev, S)[x] = p.hh_prev[x]
                                 /\ Kept(p.hh_next, S)[x] = p.hh_next[x]
  BY <1>1, KeptIs
<1>6. p1 \in Handles
  BY <1>2, <1>4 DEF Handles
<1>7. Empty(w, s) => Empty(w1, s)
  BY <1>3 DEF Empty
<1>8. ASSUME Holds(w, s)
      PROVE  Holds(w1, s)
  <2>1. /\ w.t \in Table /\ s # <<>> /\ w.t.num_items = Len(s) /\ Bounded(w.t)
        /\ Chained(p.next, p.prev, w.t.head, s)
    BY <1>8 DEF Holds
  <2>2. PICK c : Chains(w.t.buckets, p, c, S)
    BY <1>8 DEF Holds
  <2>3. S \subseteq Elem
    BY <2>1, DistinctFacts DEF Chained
  <2>4. \A x \in S : /\ p1.prev[x] = p.prev[x] /\ p1.next[x] = p.next[x]
                     /\ p1.hh_prev[x] = p.hh_prev[x] /\ p1.hh_next[x] = p.hh_next[x]
    BY <1>2, <1>5, <2>3
  <2>5. Chained(p1.next, p1.prev, w.t.head, s)
    <3> DEFINE n == p.next
               r == p.prev
               n1 == p1.next
               r1 == p1.prev
               h == w.t.head
    <3>1. Chained(n, r, h, s) /\ \A x \in Range(s) : n1[x] = n[x] /\ r1[x] = r[x]
      BY <2>1, <2>4
    <3> HIDE DEF n, r, n1, r1, h
    <3>2. Chained(n1, r1, h, s)
      BY <3>1, ChainFrame
    <3> QED
      BY <3>2 DEF n1, r1, h
  <2>6. Chains(w.t.buckets, p1, c, S)
    <3> DEFINE bs == w.t.buckets
    <3>1. Chains(bs, p, c, S)
      BY <2>2
    <3> HIDE DEF bs, S, p
    <3>2. Chains(bs, p1, c, S)
      BY <2>4, <3>1, ChainsFrame
    <3> QED
      BY <3>2 DEF bs
  <2> QED
    BY <1>3, <1>6, <2>1, <2>5, <2>6 DEF Holds
<1> QED
  BY <1>3, <1>6, <1>7, <1>8 DEF w1, p1

\* What a table holds does not depend on other tables, only on the program.
LEMMA SameProgram ==
  ASSUME build' = build, NEW w, NEW s
  PROVE  (Holds(w, s)' <=> Holds(w, s)) /\ (Complete(w.t, s)' <=> Complete(w.t, s))
<1>1. Threshold' = Threshold /\ HashOf' = HashOf /\ HASH_BLOOM' = HASH_BLOOM
  BY DEF Threshold, HashOf, HASH_BLOOM
<1>2. \A e : Hashv(e)' = Hashv(e)
  BY <1>1 DEF Hashv
<1>3. \A v : BloomBit(v)' = BloomBit(v)
  BY <1>1 DEF BloomBit
<1>4. Bits' = Bits
  BY <1>1, <1>3 DEF Bits
<1>5. Table' = Table
  BY <1>4 DEF Table
<1>6. \A e, n : BucketOf(e, n)' = BucketOf(e, n)
  BY <1>2 DEF BucketOf
<1>7. \A bs, p, c, S : Chains(bs, p, c, S)' <=> Chains(bs, p, c, S)
  BY <1>6 DEF Chains
<1>8. \A b, i : LengthBound(b, i)' <=> LengthBound(b, i)
  BY <1>1 DEF LengthBound
<1>9. \A t : Bounded(t)' <=> Bounded(t)
  BY <1>8 DEF Bounded
<1>10. Holds(w, s)' <=> Holds(w, s)
  BY <1>5, <1>7, <1>9 DEF Holds
<1>11. Complete(w.t, s)' <=> Complete(w.t, s)
  BY <1>2, <1>3 DEF Complete
<1> QED
  BY <1>10, <1>11

\* HASH_FSCK has nothing to say of a table that holds its elements.
LEMMA HoldsIsSound ==
  ASSUME build \in Builds, NEW w, NEW s, Holds(w, s)
  PROVE  HASH_FSCK(w) /\ HASH_ITER(w) = s /\ HASH_CNT(w) = Len(s)
<1> DEFINE t == w.t
           p == w.p
           h == t.head
           n == p.next
           r == p.prev
           bs == t.buckets
           N == Len(bs)
           hn == p.hh_next
           hp == p.hh_prev
           S == Range(s)
<1>1. t \in Table /\ t.num_items = Len(s) /\ Chained(n, r, h, s)
  BY DEF Holds
<1>2. PICK c : Chains(bs, p, c, S)
  BY DEF Holds
<1>3. h # NULL
  BY HeadTells
<1>4. HASH_ITER(w) = s /\ GoesBack(s, r)
  <2>1. HASH_ITER(w) = Chain(n, h)
    BY DEF HASH_ITER
  <2> HIDE DEF n, r, h
  <2>2. Chain(n, h) = s
    BY <1>1, ChainIs
  <2>3. GoesBack(s, r)
    BY <1>1, ChainGoesBack
  <2> QED
    BY <2>1, <2>2, <2>3
<1>5. HASH_CNT(w) = Len(s)
  BY <1>1, <1>3 DEF HASH_CNT
<1>6. N \in Nat /\ DOMAIN bs = 1 .. N
  BY <1>2, LenProperties DEF Chains
<1>7. ASSUME NEW b \in 1 .. N
      PROVE  GoesBack(Chain(hn, bs[b].hh_head), hp) /\ bs[b].count = Len(Chain(hn, bs[b].hh_head))
  <2> DEFINE hd == bs[b].hh_head
             chain == c[b]
  <2>1. Chained(hn, hp, hd, chain) /\ bs[b].count = Len(chain)
    BY <1>2 DEF Chains
  <2> HIDE DEF hn, hp, hd, chain
  <2>2. Chain(hn, hd) = chain
    BY <2>1, ChainIs
  <2>3. GoesBack(chain, hp)
    BY <2>1, ChainGoesBack
  <2> QED
    BY <2>1, <2>2, <2>3 DEF hd
<1>8. Len(ByBucket(w)) = Len(s)
  <2>1. Distinct(s) /\ Distinct(ByBucket(w)) /\ Range(ByBucket(w)) = Range(s)
    <3>1. Distinct(ByBucket(w)) /\ Range(ByBucket(w)) = S
      <4>1. Chains(w.t.buckets, w.p, c, S)
        BY <1>2
      <4> HIDE DEF S
      <4> QED
        BY <4>1, ByBucketIs
    <3> QED
      BY <1>1, <3>1 DEF Chained
  <2> DEFINE u == ByBucket(w)
  <2>2. Distinct(u) /\ Range(u) = Range(s)
    BY <2>1
  <2> HIDE DEF u
  <2>3. Cardinality(Range(s)) = Len(s) /\ Cardinality(Range(u)) = Len(u)
    BY <2>1, <2>2, DistinctRange
  <2> QED
    BY <2>2, <2>3 DEF u
<1>9. HASH_FSCK(w)
  <2>1. \A b \in DOMAIN bs : /\ GoesBack(Chain(hn, bs[b].hh_head), hp)
                             /\ bs[b].count = Len(Chain(hn, bs[b].hh_head))
    BY <1>6, <1>7
  <2> QED
    BY <1>1, <1>4, <1>8, <2>1 DEF HASH_FSCK
<1> QED
  BY <1>4, <1>5, <1>9

-----------------------------------------------------------------------------
(***************************************************************************)
(* The inductive invariant: the table of a name is empty or holds the      *)
(* elements that were put into it, which have keys of their own.  Its tail *)
(* and its filter are right when it is no selection: as HASH_SELECT sets   *)
(* neither, nothing is added to a selection and nothing deleted from it.   *)
(***************************************************************************)
HashTable(h, w, s) ==
  /\ DistinctKeys(s)
  /\ Empty(w, s) \/ (Holds(w, s) /\ (h = "src" => Complete(w.t, s)))

HashInv ==
  /\ build \in Builds
  /\ tbl \in [Handle -> Table \cup {NoTable}] /\ hh \in [Handle -> Handles]
  /\ items \in [Handle -> Seq(Elem)]
  /\ \A h \in Handle : HashTable(h, Of(h), items[h])

\* It holds before the first macro.
LEMMA HashStarts ==
  ASSUME UtHashInit
  PROVE  HashInv
<1>1. NoHandles \in Handles
  BY DEF NoHandles, Nowhere, Handles, Link
<1>2. <<>> \in Seq(Elem) /\ Range(<<>>) = {}
  BY EmptyIsChained, EmptySeq
<1>3. DistinctKeys(<<>>)
  BY <1>2 DEF DistinctKeys
<1>4. \A h \in Handle : Of(h).t = NoTable /\ items[h] = <<>>
  BY DEF UtHashInit, Of
<1>5. \A h \in Handle : HashTable(h, Of(h), items[h])
  BY <1>3, <1>4 DEF HashTable, Empty
<1> QED
  BY <1>1, <1>2, <1>5 DEF HashInv, UtHashInit

\* What a program does to one table leaves the other as it is.
LEMMA BecomesKeeps ==
  ASSUME HashInv, NEW h \in Handle, NEW w, w.p \in Handles, NEW s, HashTable(h, w, s), Becomes(h, w, s)
  PROVE  HashInv'
<1> DEFINE w1 == [t |-> w.t, p |-> KeptHandles(w.p, Range(s))]
<1>1. /\ build \in Builds /\ build' = build
      /\ tbl \in [Handle -> Table \cup {NoTable}] /\ hh \in [Handle -> Handles]
      /\ items \in [Handle -> Seq(Elem)]
      /\ \A g \in Handle : HashTable(g, Of(g), items[g])
  BY DEF HashInv, Becomes
<1>2. /\ tbl' = [tbl EXCEPT ![h] = w1.t] /\ hh' = [hh EXCEPT ![h] = w1.p]
      /\ items' = [items EXCEPT ![h] = s]
  BY DEF Becomes, KeptHandles
<1>3. w1.p \in Handles /\ (Empty(w, s) => Empty(w1, s)) /\ (Holds(w, s) => Holds(w1, s))
  BY <1>1, KeptKeeps
<1>4. w1.t = w.t /\ w1 = [t |-> w1.t, p |-> w1.p]
  OBVIOUS
<1> HIDE DEF w1
<1>5. HashTable(h, w1, s)
  BY <1>3, <1>4 DEF HashTable
<1>6. w1.t \in Table \cup {NoTable} /\ s \in Seq(Elem)
  <2>1. Empty(w1, s) => w1.t = NoTable /\ s \in Seq(Elem)
    BY EmptySeq DEF Empty
  <2>2. Holds(w1, s) => w1.t \in Table /\ s \in Seq(Elem)
    BY DEF Holds, Chained, Distinct
  <2> QED
    BY <1>5, <2>1, <2>2 DEF HashTable
<1>7. /\ tbl' \in [Handle -> Table \cup {NoTable}] /\ hh' \in [Handle -> Handles]
      /\ items' \in [Handle -> Seq(Elem)]
  BY <1>1, <1>2, <1>3, <1>6
<1>8. \A g \in Handle : HashTable(g, Of(g)', items'[g])
  <2> SUFFICES ASSUME NEW g \in Handle
               PROVE  HashTable(g, Of(g)', items'[g])
    OBVIOUS
  <2>1. CASE g = h
    <3>1. tbl'[h] = w1.t /\ hh'[h] = w1.p /\ items'[h] = s
      BY <1>1, <1>2
    <3>2. [t |-> tbl'[h], p |-> hh'[h]] = w1
      BY <1>4, <3>1
    <3>3. Of(g)' = w1
      BY <2>1, <3>2 DEF Of
    <3> QED
      BY <1>5, <2>1, <3>1, <3>3
  <2>2. CASE g # h
    <3>1. tbl'[g] = tbl[g] /\ hh'[g] = hh[g] /\ items'[g] = items[g]
      BY <1>1, <1>2, <2>2
    <3>2. Of(g)' = Of(g)
      BY <3>1 DEF Of
    <3> QED
      BY <1>1, <3>1, <3>2
  <2> QED
    BY <2>1, <2>2
<1>9. Table' = Table
  BY <1>1 DEF Table, Bits, BloomBit, HASH_BLOOM, HashOf
<1>10. \A g \in Handle : HashTable(g, Of(g), items[g])'
  BY <1>1, <1>8, SameProgram DEF HashTable, Empty, DistinctKeys
<1> QED
  BY <1>1, <1>7, <1>9, <1>10 DEF HashInv

\* A step that leaves the tables alone.
LEMMA HashFrame ==
  ASSUME HashInv, UNCHANGED hashVars
  PROVE  HashInv'
<1>1. /\ build \in Builds /\ build' = build /\ tbl' = tbl /\ hh' = hh /\ items' = items
      /\ tbl \in [Handle -> Table \cup {NoTable}] /\ hh \in [Handle -> Handles]
      /\ items \in [Handle -> Seq(Elem)]
      /\ \A h \in Handle : HashTable(h, Of(h), items[h])
  BY DEF HashInv, hashVars
<1>2. Table' = Table
  BY <1>1 DEF Table, Bits, BloomBit, HASH_BLOOM, HashOf
<1>3. \A h \in Handle : HashTable(h, Of(h)', items'[h])
  BY <1>1 DEF Of
<1>4. \A h \in Handle : HashTable(h, Of(h), items[h])'
  BY <1>1, <1>3, SameProgram DEF HashTable, Empty, DistinctKeys
<1> QED
  BY <1>1, <1>2, <1>4 DEF HashInv

\* What is known of a table before a macro.
LEMMA TableIs ==
  ASSUME HashInv, NEW h \in Handle
  PROVE  /\ build \in Builds /\ IsPair(Of(h)) /\ Of(h).p \in Handles
         /\ Of(h).t = tbl[h] /\ Of(h).p = hh[h]
         /\ HashTable(h, Of(h), items[h]) /\ Distinct(items[h]) /\ Range(items[h]) \subseteq Elem
         /\ tbl[h].head = NULL <=> Empty(Of(h), items[h])
         /\ tbl[h].head # NULL <=> Holds(Of(h), items[h])
<1> DEFINE w == Of(h)
           s == items[h]
<1>1. build \in Builds /\ hh[h] \in Handles /\ HashTable(h, w, s)
  BY DEF HashInv
<1>2. w = [t |-> tbl[h], p |-> hh[h]] /\ w.t = tbl[h] /\ w.p = hh[h]
  BY DEF Of
<1>3. IsPair(w)
  BY <1>2 DEF IsPair
<1> HIDE DEF w, s
<1>4. Distinct(s)
  <2>1. Empty(w, s) => Distinct(s)
    BY EmptyIsChained DEF Empty
  <2>2. Holds(w, s) => Distinct(s)
    BY DEF Holds, Chained
  <2> QED
    BY <1>1, <2>1, <2>2 DEF HashTable
<1>5. Range(s) \subseteq Elem
  BY <1>4, DistinctFacts
<1>6. Empty(w, s) \/ Holds(w, s)
  BY <1>1 DEF HashTable
<1>7. (Empty(w, s) => w.t.head = NULL) /\ (Holds(w, s) => w.t.head # NULL)
  BY HeadTells
<1> QED
  BY <1>1, <1>2, <1>3, <1>4, <1>5, <1>6, <1>7 DEF w, s

\* HASH_ADD_KEYPTR and HASH_REPLACE, where the program uses them.
LEMMA HashAddition ==
  ASSUME ~SelectionChanges, HashInv, NEW h \in Handle, NEW e \in Elem, HashAdd(h, e) \/ HashReplace(h, e)
  PROVE  HashInv'
<1> DEFINE w == Of(h)
           s == items[h]
<1>1. h = "src"
  BY DEF HashAdd, HashReplace, Changes
<1>2. /\ build \in Builds /\ IsPair(w) /\ w.p \in Handles /\ DistinctKeys(s)
      /\ Distinct(s) /\ (Empty(w, s) \/ (Holds(w, s) /\ Complete(w.t, s)))
  <2>1. /\ build \in Builds /\ IsPair(w) /\ w.p \in Handles /\ HashTable(h, w, s) /\ Distinct(s)
    BY TableIs
  <2> QED
    BY <1>1, <2>1 DEF HashTable
<1>3. CASE HashAdd(h, e)
  <2> DEFINE w1 == HASH_ADD_KEYPTR(w, e)
             s1 == Append(s, e)
  <2>1. KeyOf[e] \notin {KeyOf[x] : x \in Range(s)} /\ Becomes(h, w1, s1)
    BY <1>3 DEF HashAdd, Keys
  <2> HIDE DEF w, s
  <2>2. e \notin Range(s)
    BY <2>1
  <2>3. Range(s1) = Range(s) \cup {e}
    BY <1>2, <2>2, Appended
  <2>4. Holds(w1, s1) /\ Complete(w1.t, s1)
    BY <1>2, <2>2, AddKeeps
  <2>5. DistinctKeys(s1)
    BY <1>2, <2>1, <2>3 DEF DistinctKeys
  <2>6. w1.p \in Handles /\ HashTable(h, w1, s1)
    BY <2>4, <2>5 DEF HashTable, Holds
  <2> HIDE DEF w1, s1
  <2> QED
    BY <2>1, <2>6, BecomesKeeps
<1>4. CASE HashReplace(h, e)
  <2> DEFINE w1 == HASH_REPLACE(w, e)
             s1 == Append(Without(s, FirstWith(s, KeyOf, KeyOf[e])), e)
  <2>1. e \notin Range(s) /\ Becomes(h, w1, s1)
    BY <1>4 DEF HashReplace, In
  <2> HIDE DEF w, s
  <2>2. Holds(w1, s1) /\ Complete(w1.t, s1) /\ DistinctKeys(s1)
    BY <1>2, <2>1, ReplaceKeeps
  <2> HIDE DEF w1, s1
  <2>3. w1.p \in Handles /\ HashTable(h, w1, s1)
    BY <2>2 DEF HashTable, Holds
  <2> QED
    BY <2>1, <2>3, BecomesKeeps
<1> QED
  BY <1>3, <1>4

\* HASH_DELETE, where the program uses it.
LEMMA HashDeletion ==
  ASSUME ~SelectionChanges, HashInv, NEW h \in Handle, NEW e \in Elem, HashDelete(h, e)
  PROVE  HashInv'
<1> DEFINE w == Of(h)
           s == items[h]
           w1 == HASH_DELETE(w, e)
           s1 == Without(s, e)
<1>1. h = "src" /\ e \in Range(s) /\ Becomes(h, w1, s1)
  BY DEF HashDelete, Changes, In
<1>2. build \in Builds /\ IsPair(w) /\ HashTable(h, w, s)
  BY TableIs
<1> HIDE DEF w, s
<1>3. Holds(w, s) /\ Complete(w.t, s) /\ DistinctKeys(s)
  <2>1. ~Empty(w, s)
    BY <1>1, EmptyIsChained DEF Empty
  <2> QED
    BY <1>1, <1>2, <2>1 DEF HashTable
<1>4. /\ w1.p \in Handles
      /\ Empty(w1, s1) \/ (Holds(w1, s1) /\ Complete(w1.t, s1))
      /\ Range(s1) = Range(s) \ {e}
  BY <1>1, <1>2, <1>3, DeletionKeeps
<1> HIDE DEF w1, s1
<1>5. HashTable(h, w1, s1)
  BY <1>3, <1>4 DEF HashTable, DistinctKeys
<1> QED
  BY <1>1, <1>4, <1>5, BecomesKeeps

\* HASH_SRT and HASH_CLEAR, where the program uses them.
LEMMA HashSorting ==
  ASSUME HashInv, NEW h \in Handle, HashSort(h) \/ HASH_CLEAR(h)
  PROVE  HashInv'
<1> DEFINE w == Of(h)
           s == items[h]
<1>1. /\ build \in Builds /\ w.p \in Handles /\ w.p = hh[h] /\ HashTable(h, w, s)
      /\ tbl[h].head # NULL <=> Holds(w, s)
  BY TableIs
<1>2. CASE HashSort(h)
  <2> DEFINE w1 == HASH_SRT(w)
             s1 == Sorted(s)
  <2>1. tbl[h].head # NULL /\ Becomes(h, w1, s1)
    BY <1>2 DEF HashSort
  <2> HIDE DEF w, s
  <2>2. Holds(w, s)
    BY <1>1, <2>1
  <2>3. Holds(w1, s1) /\ Range(s1) = Range(s) /\ (Complete(w.t, s) => Complete(w1.t, s1))
    BY <1>1, <2>2, SrtKeeps
  <2>4. ~Empty(w, s)
    BY <2>2, HeadTells
  <2> HIDE DEF w1, s1
  <2>5. w1.p \in Handles /\ HashTable(h, w1, s1)
    BY <1>1, <2>3, <2>4 DEF HashTable, Holds, DistinctKeys
  <2> QED
    BY <2>1, <2>5, BecomesKeeps
<1>3. CASE HASH_CLEAR(h)
  <2> DEFINE w1 == [t |-> NoTable, p |-> hh[h]]
  <2>1. Becomes(h, w1, <<>>)
    BY <1>3 DEF HASH_CLEAR
  <2>2. w1.p \in Handles /\ Empty(w1, <<>>)
    BY <1>1 DEF Empty
  <2>3. DistinctKeys(<<>>)
    BY EmptyIsChained DEF DistinctKeys
  <2> HIDE DEF w1
  <2>4. HashTable(h, w1, <<>>)
    BY <2>2, <2>3 DEF HashTable
  <2> QED
    BY <2>1, <2>2, <2>4, BecomesKeeps
<1> QED
  BY <1>2, <1>3

\* HASH_SELECT, where the program uses it.
LEMMA HashSelection ==
  ASSUME HashInv, NEW chosen \in build.Selections, SelectInto(chosen)
  PROVE  HashInv'
<1> DEFINE dst == Of("dst")
           src == Of("src")
           items1 == items["src"]
           w1 == HASH_SELECT(dst, src, chosen)
           s1 == Chosen(ByBucket(src), chosen)
<1>1. /\ tbl["src"].head # NULL /\ tbl["dst"].head = NULL
      /\ Becomes("dst", w1, s1)
  BY DEF SelectInto
<1>2. "src" \in Handle /\ "dst" \in Handle /\ "dst" # "src"
  BY DEF Handle
<1>3. build \in Builds /\ dst.t = NoTable /\ dst.p \in Handles
  <2>1. /\ build \in Builds /\ Of("dst").p \in Handles
        /\ tbl["dst"].head = NULL <=> Empty(Of("dst"), items["dst"])
    BY <1>2, TableIs
  <2> QED
    BY <1>1, <2>1 DEF Empty
<1>4. HashTable("src", src, items1) /\ Holds(src, items1)
  <2>1. /\ HashTable("src", Of("src"), items["src"])
        /\ tbl["src"].head # NULL <=> Holds(Of("src"), items["src"])
    BY <1>2, TableIs
  <2> QED
    BY <1>1, <2>1
<1>5. Threshold > 1
  BY <1>3, BuildIs
<1> HIDE DEF dst, src, items1
<1>6. Distinct(ByBucket(src)) /\ Range(ByBucket(src)) = Range(items1)
  <2>1. PICK c : Chains(src.t.buckets, src.p, c, Range(items1))
    BY <1>4 DEF Holds
  <2> QED
    BY <1>3, <2>1, ByBucketIs
<1>7. Distinct(s1) /\ Range(s1) = Range(items1) \cap chosen
  <2> DEFINE s == ByBucket(src)
  <2>1. Distinct(s) /\ Range(s) = Range(items1)
    BY <1>6
  <2> HIDE DEF s
  <2>2. Distinct(Chosen(s, chosen)) /\ Range(Chosen(s, chosen)) = Range(s) \cap chosen
    BY <2>1, ChosenIs
  <2> QED
    BY <2>1, <2>2 DEF s
<1>8. DistinctKeys(s1)
  BY <1>4, <1>7 DEF HashTable, DistinctKeys
<1>9. w1.p \in Handles /\ (Empty(w1, s1) \/ Holds(w1, s1))
  BY <1>3, <1>5, <1>7, SelectionHolds
<1> HIDE DEF w1, s1
<1>10. HashTable("dst", w1, s1)
  BY <1>2, <1>8, <1>9 DEF HashTable
<1> QED
  BY <1>1, <1>2, <1>9, <1>10, BecomesKeeps

-----------------------------------------------------------------------------
\* Every macro keeps the invariant, and the containers of the other kinds do not touch the tables.
LEMMA HashStep ==
  ASSUME ~SelectionChanges, HashInv, [ContainersNext]_containerVars
  PROVE  HashInv'
<1>1. CASE UtHashNext
  <2>1. CASE \E h \in Handle : \E e \in Elem : HashAdd(h, e) \/ HashReplace(h, e)
    BY <2>1, HashAddition
  <2>2. CASE \E h \in Handle : \E e \in Elem : HashDelete(h, e)
    BY <2>2, HashDeletion
  <2>3. CASE \E h \in Handle : HashSort(h) \/ HASH_CLEAR(h)
    BY <2>3, HashSorting
  <2>4. CASE \E chosen \in build.Selections : SelectInto(chosen)
    BY <2>4, HashSelection
  <2> QED
    BY <1>1, <2>1, <2>2, <2>3, <2>4 DEF UtHashNext
<1>2. CASE UNCHANGED hashVars
  BY <1>2, HashFrame
<1> QED
  BY <1>1, <1>2 DEF ContainersNext, containerVars

(***************************************************************************)
(* The inductive invariant of the tables holds, whatever macros the        *)
(* program uses, as long as it adds nothing to a selection and deletes     *)
(* nothing from it.                                                        *)
(***************************************************************************)
THEOREM HashInvariant ==
  ASSUME ~SelectionChanges
  PROVE  ContainersSpec => []HashInv
<1>1. ContainersInit => HashInv
  BY HashStarts DEF ContainersInit
<1>2. HashInv /\ [ContainersNext]_containerVars => HashInv'
  BY HashStep
<1> QED
  BY <1>1, <1>2, PTL DEF ContainersSpec

(***************************************************************************)
(* HASH_FSCK finds nothing, for any elements, keys, hash functions,        *)
(* thresholds and numbers of buckets: through all expansions, sorts and    *)
(* selections, chains and app order are well linked and counts are right.  *)
(***************************************************************************)
THEOREM TablesNeverOops ==
  ASSUME ~SelectionChanges
  PROVE  ContainersSpec => []NeverOops
<1>1. HashInv => NeverOops
  <2> SUFFICES ASSUME HashInv, NEW h \in Handle
               PROVE  HASH_FSCK(Of(h))
    BY DEF NeverOops
  <2> DEFINE w == Of(h)
             s == items[h]
  <2>1. build \in Builds /\ w.t = tbl[h] /\ (w.t.head # NULL => Holds(w, s))
    BY TableIs
  <2> HIDE DEF w, s
  <2>2. CASE Holds(w, s)
    BY <2>1, <2>2, HoldsIsSound DEF w
  <2>3. CASE w.t.head = NULL
    BY <2>3 DEF HASH_FSCK, w
  <2> QED
    BY <2>1, <2>2, <2>3
<1> QED
  BY <1>1, HashInvariant, PTL

(***************************************************************************)
(* A table is what was put into it, and a key is found where an element of *)
(* the table has it and nowhere else.                                      *)
(***************************************************************************)
THEOREM TablesHoldItems ==
  ASSUME ~SelectionChanges
  PROVE  ContainersSpec => []HoldsItems
<1>1. ASSUME HashInv, NEW h \in Handle
      PROVE  LET w == Of(h)
             IN /\ HASH_CNT(w) = Len(items[h])
                /\ w.t.head # NULL => HASH_ITER(w) = items[h]
                /\ h = "src" \/ HASH_BLOOM = 0 => \A e \in Range(items[h]) : HASH_FIND(w, KeyOf[e]) = e
                /\ \A k \in Range(KeyOf) \ Keys(h) : HASH_FIND(w, k) = NULL
  <2> DEFINE w == Of(h)
             s == items[h]
  <2>1. /\ build \in Builds /\ w.t = tbl[h] /\ HashTable(h, w, s) /\ Range(s) \subseteq Elem
        /\ tbl[h].head = NULL <=> Empty(w, s)
        /\ tbl[h].head # NULL <=> Holds(w, s)
    BY <1>1, TableIs
  <2>2. Keys(h) = {KeyOf[x] : x \in Range(s)}
    BY DEF Keys
  <2> HIDE DEF w, s
  <2>3. DistinctKeys(s) /\ (Empty(w, s) \/ Holds(w, s))
    BY <2>1 DEF HashTable
  <2>4. h = "src" \/ HASH_BLOOM = 0 => HASH_BLOOM = 0 \/ Empty(w, s) \/ Complete(w.t, s)
    BY <2>1 DEF HashTable
  <2>5. HASH_CNT(w) = Len(s) /\ (w.t.head # NULL => HASH_ITER(w) = s)
    <3>1. CASE Holds(w, s)
      BY <2>1, <3>1, HoldsIsSound
    <3>2. CASE Empty(w, s)
      <4>1. Len(s) = 0
        BY <3>2, EmptyIsChained DEF Empty
      <4>2. w.t.head = NULL
        BY <2>1, <3>2
      <4> QED
        BY <4>1, <4>2 DEF HASH_CNT
    <3> QED
      BY <2>3, <3>1, <3>2
  <2>6. ASSUME h = "src" \/ HASH_BLOOM = 0, NEW e \in Range(s)
        PROVE  HASH_FIND(w, KeyOf[e]) = e
    <3> DEFINE k == KeyOf[e]
    <3>1. k \in Range(KeyOf) /\ KeyOf[e] = k
      BY <2>1, BuildIs
    <3> HIDE DEF k
    <3>2. HASH_BLOOM = 0 \/ Empty(w, s) \/ Complete(w.t, s) =>
            \A x \in Range(s) : KeyOf[x] = k => HASH_FIND(w, k) = x
      BY <2>1, <2>3, <3>1, FindIs
    <3> QED
      BY <2>4, <2>6, <3>1, <3>2
  <2>7. ASSUME NEW k \in Range(KeyOf) \ Keys(h)
        PROVE  HASH_FIND(w, k) = NULL
    <3>1. k \in Range(KeyOf) /\ \A x \in Range(s) : KeyOf[x] # k
      BY <2>2, <2>7
    <3>2. (\A x \in Range(s) : KeyOf[x] # k) => HASH_FIND(w, k) = NULL
      BY <2>1, <2>3, <3>1, FindIs
    <3> QED
      BY <3>1, <3>2
  <2> QED
    BY <2>5, <2>6, <2>7 DEF w, s
<1>2. HashInv => HoldsItems
  BY <1>1 DEF HoldsItems
<1> QED
  BY <1>2, HashInvariant, PTL

(***************************************************************************)
(* As long as a table may be expanded, its chains are bounded.             *)
(***************************************************************************)
THEOREM TablesBounded ==
  ASSUME ~SelectionChanges
  PROVE  ContainersSpec => []ChainsBounded
<1>1. ASSUME HashInv, NEW h \in Handle, tbl[h].head # NULL, ~tbl[h].noexpand,
             NEW b \in DOMAIN tbl[h].buckets
      PROVE  LengthBound(tbl[h].buckets[b], tbl[h].ideal)
  <2>1. Holds(Of(h), items[h]) /\ Of(h).t = tbl[h]
    BY <1>1, TableIs
  <2>2. Bounded(tbl[h]) /\ tbl[h] \in Table
    BY <2>1 DEF Holds
  <2>3. DOMAIN tbl[h].buckets = 1 .. Len(tbl[h].buckets)
    <3>1. tbl[h].buckets \in Seq(Bucket)
      BY <2>2 DEF Table
    <3> QED
      BY <3>1, LenProperties
  <2> QED
    BY <1>1, <2>2, <2>3 DEF Bounded
<1>2. HashInv => ChainsBounded
  BY <1>1 DEF ChainsBounded, LengthBound
<1> QED
  BY <1>2, HashInvariant, PTL
=============================================================================
