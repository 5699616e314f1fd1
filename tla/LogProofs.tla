------------------------------ MODULE LogProofs ------------------------------
(***************************************************************************)
(* Theorems about the backward scan of a log: what Recover finds, for any  *)
(* txids, any size of a record and any number of records, whole or cut     *)
(* short.                                                                  *)
(***************************************************************************)
EXTENDS LogScan, SequenceTheorems, TLAPS

Entry == [id : Nat \X Nat, state : Keeps]

LogTypeOK ==
  /\ owner \in Program
  /\ words \in Seq(Nat)
  /\ tries \in Seq([txid : Txid, state : Keeps, put : 1 .. Size])
  /\ i \in Nat
  /\ tx_db \in SUBSET Entry

(***************************************************************************)
(* A txid in the file is the beginning of a record, of which the words     *)
(* behind it belong to the record, as far as they were written.            *)
(***************************************************************************)
Genuine ==
  \A k \in 1 .. Len(words) :
    /\ words[k] \in Txid /\ k + 2 <= Len(words)
    /\ words[k + 1] = 0 /\ words[k + 2] \in State
    => \E n \in DOMAIN tries : tries[n].txid = words[k] /\ tries[n].state = words[k + 2]

(* No call of tpcLog after LastTear was cut short.                         *)
TearLast ==
  /\ LastTear \in 0 .. Len(tries)
  /\ \A n \in DOMAIN tries : n > LastTear => Whole(tries[n])

(***************************************************************************)
(* Back(k): the k-th record from the end, if no later one was cut short.   *)
(* It is where Recover looks for it.                                       *)
(***************************************************************************)
Recent == Len(tries) - LastTear
Back(k) == tries[Len(tries) - k + 1]
At(k) == Len(words) - k * Size

BlocksHold ==
  /\ Recent * Size <= Len(words)
  /\ LastTear = 0 => Len(words) = Len(tries) * Size
  /\ \A k \in 1 .. Recent :
       /\ words[At(k) + 1] = Back(k).txid
       /\ words[At(k) + 2] = 0
       /\ words[At(k) + 3] = Back(k).state

(***************************************************************************)
(* After i - 1 blocks FoundOf(t) is the record of t nearest to the end     *)
(* among them.                                                             *)
(***************************************************************************)
Seen(t) == {k \in 1 .. Recent : k < i /\ Back(k).txid = t}

FirstSeen(t) ==
  \E k \in Seen(t) : /\ \A m \in Seen(t) : k <= m
                     /\ FoundOf(t) = {[id |-> <<t, 0>>, state |-> Back(k).state]}

ScanHolds ==
  i > 0 =>
    /\ \A t \in Txid : \/ FirstSeen(t)
                       \/ Seen(t) = {} /\ (i > Recent + 1 \/ FoundOf(t) = {})
    /\ LastTear = 0 => i <= Recent + 1 /\ \A e \in tx_db : \E t \in Txid : e.id = <<t, 0>>

LogInv == LogTypeOK /\ Genuine /\ NothingForged /\ TearLast /\ BlocksHold /\ ScanHolds

-----------------------------------------------------------------------------
(* Products, for the offsets of the blocks. *)
LEMMA Blocks ==
  ASSUME NEW k \in Nat, NEW m \in Nat, NEW n \in Nat \ {0}
  PROVE  /\ k * n \in Nat
         /\ (k + 1) * n = k * n + n
         /\ k * n <= m * n <=> k <= m
         /\ k # 0 => k * n >= n
<1>1. k * n \in Nat /\ m * n \in Nat
  OBVIOUS
<1>2. (k + 1) * n = k * n + n
  OBVIOUS
<1>3. ASSUME NEW a \in Nat, NEW d \in Nat
      PROVE  (a + d) * n = a * n + d * n /\ d * n >= 0 /\ a * n >= 0 /\ (d > 0 => d * n >= n)
  <2>1. (a + d) * n = a * n + d * n
    OBVIOUS
  <2>2. d * n \in Nat /\ a * n \in Nat
    OBVIOUS
  <2>3. ASSUME d > 0
        PROVE  d * n >= n
    <3>1. PICK c \in Nat : d = c + 1
      BY <2>3, d - 1 \in Nat, d = (d - 1) + 1
    <3>2. (c + 1) * n = c * n + n /\ c * n \in Nat
      OBVIOUS
    <3> QED
      BY <3>1, <3>2
  <2> QED
    BY <2>1, <2>2, <2>3
<1>4. k <= m => k * n <= m * n
  <2>1. SUFFICES ASSUME k <= m
                 PROVE  k * n <= m * n
    OBVIOUS
  <2>2. PICK d \in Nat : m = k + d
    BY <2>1, m - k \in Nat, m = k + (m - k)
  <2> QED
    BY <1>1, <1>3, <2>2
<1>5. ~(k <= m) => ~(k * n <= m * n)
  <2>1. SUFFICES ASSUME k > m
                 PROVE  k * n > m * n
    BY <1>1
  <2>2. PICK d \in Nat : k = m + d /\ d > 0
    BY <2>1, k - m \in Nat, k = m + (k - m)
  <2> QED
    BY <1>1, <1>3, <2>2
<1>6. k # 0 => k * n >= n
  BY <1>3
<1> QED
  BY <1>1, <1>2, <1>4, <1>5, <1>6

-----------------------------------------------------------------------------
(* What two sequences of words are, one behind the other. *)
LEMMA Concatenation ==
  ASSUME NEW u \in Seq(Nat), NEW v \in Seq(Nat)
  PROVE  /\ u \o v \in Seq(Nat)
         /\ Len(u) \in Nat /\ Len(v) \in Nat
         /\ Len(u \o v) = Len(u) + Len(v)
         /\ \A q \in 1 .. Len(u) + Len(v) :
              (u \o v)[q] = IF q <= Len(u) THEN u[q] ELSE v[q - Len(u)]
BY ConcatProperties

(* The words of a record: only the first can be taken for a txid. *)
LEMMA RecordWords ==
  ASSUME owner \in Program, NEW t \in Txid, NEW state \in Keeps
  PROVE  /\ Size \in Nat /\ Size >= 3
         /\ Record(t, state) \in Seq(Nat)
         /\ Len(Record(t, state)) = Size
         /\ Record(t, state)[1] = t
         /\ Record(t, state)[2] = 0
         /\ Record(t, state)[3] = state
         /\ \A q \in 2 .. Size : Record(t, state)[q] \notin Txid
<1> DEFINE rest == RestOf[owner]
           head == <<t, 0, state>>
<1>1. rest \in Seq(Nat) /\ Txid \subseteq Nat \ (State \cup Range(rest))
  BY LogAssumption
<1>2. t \in Nat /\ state \in State /\ State \subseteq Nat /\ 0 \in State
  BY <1>1 DEF Keeps, State, PREPARE, ABORT, COMMIT
<1>3. head \in Seq(Nat) /\ Len(head) = 3 /\ head[1] = t /\ head[2] = 0 /\ head[3] = state
  BY <1>2
<1>4. Len(rest) \in Nat /\ DOMAIN rest = 1 .. Len(rest)
  BY <1>1
<1> HIDE DEF head, rest
<1>5. /\ head \o rest \in Seq(Nat)
      /\ Len(head \o rest) = 3 + Len(rest)
      /\ \A q \in 1 .. 3 + Len(rest) :
           (head \o rest)[q] = IF q <= 3 THEN head[q] ELSE rest[q - 3]
  <2>1. /\ head \o rest \in Seq(Nat)
        /\ Len(head \o rest) = Len(head) + Len(rest)
        /\ \A q \in 1 .. Len(head) + Len(rest) :
             (head \o rest)[q] = IF q <= Len(head) THEN head[q] ELSE rest[q - Len(head)]
    BY <1>1, <1>3, Concatenation
  <2> QED
    BY <1>3, <2>1
<1>6. Record(t, state) = head \o rest /\ Size = 3 + Len(rest)
  BY DEF Record, Size, head, rest
<1>7. ASSUME NEW q \in 2 .. Size
      PROVE  Record(t, state)[q] \notin Txid
  <2>1. CASE q <= 3
    <3>1. Record(t, state)[q] \in State
      BY <1>2, <1>3, <1>4, <1>5, <1>6, <2>1, q = 2 \/ q = 3
    <3> QED
      BY <1>1, <3>1
  <2>2. CASE q > 3
    <3>1. q - 3 \in 1 .. Len(rest) /\ Record(t, state)[q] = rest[q - 3]
      BY <1>4, <1>5, <1>6, <2>2
    <3>2. rest[q - 3] \in Range(rest)
      BY <1>4, <3>1 DEF Range
    <3> QED
      BY <1>1, <3>1, <3>2
  <2>3. q \in Int
    BY <1>4, <1>6
  <2> QED
    BY <2>1, <2>2, <2>3
<1> QED
  BY <1>3, <1>4, <1>5, <1>6, <1>7

(* A record has at least an id, of two words, and a state. *)
LEMMA SizeNat == owner \in Program => Size \in Nat /\ Size >= 3
<1>1. \A p \in Program : Len(RestOf[p]) \in Nat
  BY LogAssumption
<1> QED
  BY <1>1 DEF Size

(* A call of tpcLog puts the beginning of its record behind what is there. *)
LEMMA PutWords ==
  ASSUME LogTypeOK, NEW t \in Txid, NEW state \in Keeps, NEW n \in 1 .. Size,
         Put(t, state, n)
  PROVE  /\ words' \in Seq(Nat)
         /\ Len(words) \in Nat /\ Len(words') = Len(words) + n
         /\ \A k \in 1 .. Len(words) : words'[k] = words[k]
         /\ \A q \in 1 .. n : words'[Len(words) + q] = Record(t, state)[q]
<1> DEFINE r == Record(t, state)
           new == SubSeq(r, 1, n)
<1>1. Size \in Nat /\ r \in Seq(Nat) /\ Len(r) = Size
  BY RecordWords DEF LogTypeOK
<1>2. words \in Seq(Nat) /\ words' = words \o new
  BY DEF LogTypeOK, Put
<1> HIDE DEF r
<1>3. \A q \in 1 .. n : r[q] \in Nat
  BY <1>1
<1>4. new \in Seq(Nat) /\ Len(new) = n /\ \A q \in 1 .. n : new[q] = r[q]
  BY <1>1, <1>3
<1> HIDE DEF new
<1>5. /\ words' \in Seq(Nat)
      /\ Len(words') = Len(words) + n
      /\ \A k \in 1 .. Len(words) + n :
           words'[k] = IF k <= Len(words) THEN words[k] ELSE new[k - Len(words)]
  BY <1>2, <1>4, Concatenation
<1>6. Len(words) \in Nat
  BY <1>2
<1>7. \A q \in 1 .. n : /\ Len(words) + q \in 1 .. Len(words) + n
                        /\ ~(Len(words) + q <= Len(words))
                        /\ Len(words) + q - Len(words) = q
  BY <1>1, <1>6
<1>8. ASSUME NEW q \in 1 .. n
      PROVE  words'[Len(words) + q] = r[q]
  <2>1. words'[Len(words) + q] = new[Len(words) + q - Len(words)]
    BY <1>5, <1>7
  <2> QED
    BY <1>4, <1>7, <2>1
<1>9. \A k \in 1 .. Len(words) : words'[k] = words[k]
  BY <1>1, <1>5, <1>6
<1> QED
  BY <1>5, <1>6, <1>8, <1>9 DEF r

(* It appends itself to tries. *)
LEMMA PutTries ==
  ASSUME LogTypeOK, NEW t \in Txid, NEW state \in Keeps, NEW n \in 1 .. Size,
         Put(t, state, n)
  PROVE  /\ tries' \in Seq([txid : Txid, state : Keeps, put : 1 .. Size])
         /\ Len(tries') = Len(tries) + 1
         /\ \A m \in 1 .. Len(tries) : tries'[m] = tries[m]
         /\ tries'[Len(tries) + 1] = [txid |-> t, state |-> state, put |-> n]
         /\ tries'[Len(tries) + 1].put = n
         /\ DOMAIN tries = 1 .. Len(tries) /\ DOMAIN tries' = 1 .. Len(tries) + 1
         /\ Len(tries) \in Nat
BY DEF LogTypeOK, Put

(* What a step of the scan reads: the i-th block from the end. *)
LEMMA ScanReads ==
  ASSUME LogTypeOK, ScanStep
  PROVE  /\ At(i) \in Nat /\ At(i) + 3 <= Len(words) /\ i * Size <= Len(words)
         /\ \E id \in Nat \X Nat, state \in Nat :
              /\ id = <<words[At(i) + 1], words[At(i) + 2]>>
              /\ state = words[At(i) + 3]
              /\ tx_db' = IF New(id, state)
                            THEN tx_db \cup {[id |-> id, state |-> state]}
                            ELSE tx_db
<1>1. /\ i \in Nat /\ i > 0 /\ Len(words) \in Nat
      /\ \A k \in 1 .. Len(words) : words[k] \in Nat
  BY DEF ScanStep, LogTypeOK
<1>2. Size \in Nat /\ Size >= 3
  BY SizeNat DEF LogTypeOK
<1>3. i * Size \in Nat /\ i * Size >= Size
  BY <1>1, <1>2, Blocks
<1>4. /\ Seek = At(i) /\ At(i) \in Nat /\ At(i) + Size <= Len(words)
      /\ i * Size <= Len(words)
  <2>1. PICK p \in Nat : p = i * Size
    BY <1>3
  <2>2. Seek = Len(words) - p /\ At(i) = Len(words) - p /\ Seek >= 0
    BY <2>1 DEF ScanStep, Seek, SeekOk, At
  <2> QED
    BY <1>1, <1>2, <1>3, <2>1, <2>2
<1> DEFINE entry == SubSeq(words, Seek + 1, Seek + Size)
           id == <<entry[1], entry[2]>>
<1> HIDE DEF At
<1>5. /\ entry[1] = words[At(i) + 1] /\ entry[2] = words[At(i) + 2]
      /\ entry[3] = words[At(i) + 3]
  <2>1. \A k \in Seek + 1 .. Seek + Size : words[k] \in Nat
    BY <1>1, <1>2, <1>4
  <2> QED
    BY <1>2, <1>4, <2>1
<1>6. id \in Nat \X Nat /\ entry[3] \in Nat
  <2>1. \A q \in 1 .. 3 : At(i) + q \in 1 .. Len(words)
    BY <1>1, <1>2, <1>4
  <2>2. words[At(i) + 1] \in Nat /\ words[At(i) + 2] \in Nat /\ words[At(i) + 3] \in Nat
    BY <1>1, <2>1
  <2> HIDE DEF entry
  <2> QED
    BY <1>5, <2>2
<1>7. tx_db' = IF New(id, entry[3])
                 THEN {e \in tx_db : e.id # id} \cup {[id |-> id, state |-> entry[3]]}
                 ELSE tx_db
  BY DEF ScanStep
<1> HIDE DEF entry, id
<1>8. tx_db' = IF New(id, entry[3])
                 THEN tx_db \cup {[id |-> id, state |-> entry[3]]}
                 ELSE tx_db
  <2>1. New(id, entry[3]) => {e \in tx_db : e.id # id} = tx_db
    BY DEF New, Found
  <2> QED
    BY <1>7, <2>1
<1>9. id = <<words[At(i) + 1], words[At(i) + 2]>>
  BY <1>5 DEF id
<1>10. At(i) + 3 <= Len(words)
  BY <1>1, <1>2, <1>4
<1> QED
  BY <1>4, <1>5, <1>6, <1>8, <1>9, <1>10

(* A step puts a record, or scans, and leaves the file as it is. *)
LEMMA NextIs ==
  ASSUME owner \in Program, [LogNext]_logVars
  PROVE  \/ \E t \in Txid, state \in Keeps : \E n \in 1 .. Size : Put(t, state, n)
         \/ UNCHANGED <<owner, words, tries>> /\ (Restart \/ ScanStep \/ ScanEnd \/ UNCHANGED logVars)
<1>1. Size \in 1 .. Size /\ \A n \in 1 .. Size - 1 : n \in 1 .. Size
  BY SizeNat
<1> QED
  BY <1>1 DEF LogNext, TpcLog, TpcLogTorn, Restart, ScanStep, ScanEnd, logVars

(* tx_db is not touched outside of a scan, nor the file in one. *)
LEMMA LogTypeNext ==
  ASSUME LogTypeOK, [LogNext]_logVars
  PROVE  LogTypeOK'
<1>1. Size \in Nat /\ Size >= 3
  BY SizeNat DEF LogTypeOK
<1>2. ASSUME NEW t \in Txid, NEW state \in Keeps, NEW n \in 1 .. Size, Put(t, state, n)
      PROVE  LogTypeOK'
  BY <1>2, PutWords, PutTries DEF Put, LogTypeOK, Entry, Keeps, Size
<1>4. CASE Restart
  BY <1>4 DEF Restart, LogTypeOK, Entry, Keeps, Size
<1>5. CASE ScanStep
  <2>1. PICK id \in Nat \X Nat, state \in Nat :
          tx_db' = IF New(id, state) THEN tx_db \cup {[id |-> id, state |-> state]} ELSE tx_db
    BY <1>5, ScanReads
  <2>2. tx_db \in SUBSET Entry
    BY DEF LogTypeOK
  <2>6. tx_db' \in SUBSET Entry
    BY <2>1, <2>2 DEF New, Entry
  <2>7. i' = i + 1 /\ UNCHANGED <<owner, words, tries>>
    BY <1>5 DEF ScanStep
  <2> QED
    BY <2>6, <2>7 DEF LogTypeOK, Entry, Keeps, Size
<1>6. CASE ScanEnd
  BY <1>6 DEF ScanEnd, LogTypeOK, Entry, Keeps, Size
<1>7. CASE UNCHANGED logVars
  BY <1>7 DEF logVars, LogTypeOK, Entry, Keeps, Size
<1> QED
  BY <1>2, <1>4, <1>5, <1>6, <1>7, NextIs DEF LogTypeOK

-----------------------------------------------------------------------------
(* Nothing in the file is taken for a record that nobody wrote. *)
LEMMA GenuineNext ==
  ASSUME LogTypeOK, Genuine, [LogNext]_logVars
  PROVE  Genuine'
<1>1. ASSUME NEW t \in Txid, NEW state \in Keeps, NEW n \in 1 .. Size, Put(t, state, n)
      PROVE  Genuine'
  <2>1. /\ Len(words) \in Nat /\ Len(words') = Len(words) + n
        /\ \A k \in 1 .. Len(words) : words'[k] = words[k]
        /\ \A q \in 1 .. n : words'[Len(words) + q] = Record(t, state)[q]
    BY <1>1, PutWords
  <2>2. /\ Size \in Nat /\ n \in Nat
        /\ Record(t, state)[1] = t
        /\ Record(t, state)[3] = state
        /\ \A q \in 2 .. Size : Record(t, state)[q] \notin Txid
    BY RecordWords, SizeNat DEF LogTypeOK
  <2>3. /\ DOMAIN tries = 1 .. Len(tries) /\ DOMAIN tries' = 1 .. Len(tries) + 1
        /\ Len(tries) \in Nat
        /\ \A m \in 1 .. Len(tries) : tries'[m] = tries[m]
        /\ tries'[Len(tries) + 1] = [txid |-> t, state |-> state, put |-> n]
    BY <1>1, PutTries
  <2>4. \A x \in Txid : x # 0 /\ x \notin State
    BY LogAssumption DEF State, PREPARE, Program
  <2>5. SUFFICES ASSUME NEW k \in 1 .. Len(words'), words'[k] \in Txid, k + 2 <= Len(words'),
                        words'[k + 1] = 0, words'[k + 2] \in State
                 PROVE  \E m \in DOMAIN tries' : /\ tries'[m].txid = words'[k]
                                                 /\ tries'[m].state = words'[k + 2]
    BY DEF Genuine
  <2>6. CASE k > Len(words)
    <3>1. PICK q \in 1 .. n : k = Len(words) + q
      <4>1. k - Len(words) \in 1 .. n /\ k = Len(words) + (k - Len(words))
        BY <2>1, <2>2, <2>6
      <4> QED
        BY <4>1
    <3>2. q = 1
      <4>1. q \notin 2 .. Size
        BY <2>1, <2>2, <2>5, <3>1
      <4> QED
        BY <2>2, <4>1
    <3>3. k = Len(words) + 1 /\ k + 2 = Len(words) + 3 /\ 1 \in 1 .. n /\ 3 \in 1 .. n
      BY <2>1, <2>2, <2>5, <3>1, <3>2
    <3>4. words'[k] = t /\ words'[k + 2] = state
      BY <2>1, <2>2, <3>3
    <3> QED
      BY <2>3, <3>4
  <2>7. CASE k + 2 <= Len(words)
    <3>1. /\ words'[k] = words[k] /\ words'[k + 1] = words[k + 1]
          /\ words'[k + 2] = words[k + 2] /\ k \in 1 .. Len(words)
      BY <2>1, <2>2, <2>7
    <3>2. PICK m \in DOMAIN tries : tries[m].txid = words[k] /\ tries[m].state = words[k + 2]
      BY <2>5, <2>7, <3>1 DEF Genuine
    <3> QED
      BY <2>3, <3>1, <3>2
  <2>8. CASE k <= Len(words) /\ k + 2 > Len(words)
    <3>1. 1 \in 1 .. n /\ words'[Len(words) + 1] = t
      BY <2>1, <2>2
    <3>2. k + 1 = Len(words) + 1 \/ k + 2 = Len(words) + 1
      BY <2>1, <2>8
    <3> QED
      BY <2>4, <2>5, <3>1, <3>2
  <2> QED
    BY <2>1, <2>2, <2>6, <2>7, <2>8
<1>2. CASE UNCHANGED <<words, tries>>
  BY <1>2 DEF Genuine
<1> QED
  BY <1>1, <1>2, NextIs DEF LogTypeOK, logVars

(* What the scan keeps of a txid, it has read behind that txid. *)
LEMMA NothingForgedNext ==
  ASSUME LogTypeOK, Genuine, NothingForged, [LogNext]_logVars
  PROVE  NothingForged'
<1>1. ASSUME NEW t \in Txid, NEW state \in Keeps, NEW n \in 1 .. Size, Put(t, state, n)
      PROVE  NothingForged'
  <2>1. /\ DOMAIN tries = 1 .. Len(tries) /\ DOMAIN tries' = 1 .. Len(tries) + 1
        /\ Len(tries) \in Nat
        /\ \A m \in 1 .. Len(tries) : tries'[m] = tries[m]
    BY <1>1, PutTries
  <2>2. tx_db' = tx_db
    BY <1>1 DEF Put
  <2> QED
    BY <2>1, <2>2 DEF NothingForged, FoundOf
<1>2. CASE ScanStep
  <2>1. /\ At(i) \in Nat /\ At(i) + 3 <= Len(words) /\ Len(words) \in Nat
        /\ UNCHANGED tries
    BY <1>2, ScanReads DEF LogTypeOK, ScanStep
  <2>2. PICK id \in Nat \X Nat, state \in Nat :
          /\ id = <<words[At(i) + 1], words[At(i) + 2]>>
          /\ state = words[At(i) + 3]
          /\ tx_db' = IF New(id, state) THEN tx_db \cup {[id |-> id, state |-> state]} ELSE tx_db
    BY <1>2, ScanReads
  <2>3. SUFFICES ASSUME NEW t \in Txid, NEW e \in tx_db', e.id = <<t, 0>>, e \notin tx_db
                 PROVE  \E n \in DOMAIN tries : tries[n].txid = t /\ tries[n].state = e.state
    BY <2>1 DEF NothingForged, FoundOf
  <2>4. e = [id |-> id, state |-> state] /\ state \in State
    BY <2>2, <2>3 DEF New, Keeps, State
  <2>5. words[At(i) + 1] = t /\ words[At(i) + 2] = 0 /\ words[At(i) + 3] = e.state
    BY <2>2, <2>3, <2>4
  <2>6. /\ At(i) + 1 \in 1 .. Len(words) /\ At(i) + 1 + 2 <= Len(words)
        /\ At(i) + 1 + 1 = At(i) + 2 /\ At(i) + 1 + 2 = At(i) + 3
    BY <2>1
  <2> QED
    BY <2>2, <2>4, <2>5, <2>6 DEF Genuine
<1>3. CASE UNCHANGED tries /\ tx_db' \subseteq tx_db
  BY <1>3 DEF NothingForged, FoundOf
<1> QED
  BY <1>1, <1>2, <1>3, NextIs DEF LogTypeOK, Restart, ScanEnd, logVars

-----------------------------------------------------------------------------
(* Where the records are. *)
LEMMA MaxIs ==
  ASSUME NEW S \in SUBSET Int, NEW x \in S, \A y \in S : y <= x
  PROVE  Max(S) = x
<1>1. \E z \in S : \A y \in S : z >= y
  OBVIOUS
<1>2. /\ Max(S) \in S
      /\ \A y \in S : Max(S) >= y
  BY <1>1 DEF Max
<1>3. Max(S) \in Int /\ x \in Int /\ Max(S) <= x /\ Max(S) >= x
  BY <1>2
<1> QED
  BY <1>3

(* The last cut record stays the last until another one is cut. *)
LEMMA TearPut ==
  ASSUME LogTypeOK, TearLast, NEW t \in Txid, NEW state \in Keeps, NEW n \in 1 .. Size,
         Put(t, state, n)
  PROVE  LastTear' = IF n = Size THEN LastTear ELSE Len(tries) + 1
<1>1. /\ DOMAIN tries = 1 .. Len(tries) /\ DOMAIN tries' = 1 .. Len(tries) + 1
      /\ Len(tries) \in Nat
      /\ \A m \in 1 .. Len(tries) : tries'[m] = tries[m]
      /\ tries'[Len(tries) + 1].put = n
  BY PutTries
<1>2. Size' = Size /\ Size \in Nat
  BY SizeNat DEF Size, Put, LogTypeOK
<1> DEFINE torn == {m \in DOMAIN tries : tries[m].put # Size}
           torn1 == {m \in DOMAIN tries' : tries'[m].put # Size}
<1>3. LastTear = Max({0} \cup torn) /\ LastTear' = Max({0} \cup torn1)
  BY <1>2 DEF LastTear, Whole
<1>4. torn1 = IF n = Size THEN torn ELSE torn \cup {Len(tries) + 1}
  BY <1>1
<1>5. torn \subseteq 1 .. Len(tries)
  BY <1>1
<1> HIDE DEF torn, torn1
<1>6. n # Size => Max({0} \cup torn1) = Len(tries) + 1
  <2>1. SUFFICES ASSUME n # Size
                 PROVE  Max({0} \cup torn1) = Len(tries) + 1
    OBVIOUS
  <2> DEFINE S == {0} \cup torn1
  <2>2. S \in SUBSET Int /\ Len(tries) + 1 \in S /\ \A y \in S : y <= Len(tries) + 1
    <3>1. torn1 = torn \cup {Len(tries) + 1}
      BY <1>4, <2>1
    <3>2. \A y \in torn : y \in Int /\ y <= Len(tries) + 1
      BY <1>1, <1>5
    <3> QED
      BY <1>1, <3>1, <3>2
  <2> HIDE DEF S
  <2>3. Max(S) = Len(tries) + 1
    BY <2>2, MaxIs
  <2> QED
    BY <2>3 DEF S
<1> QED
  BY <1>3, <1>4, <1>6

(* All records behind the last cut are whole, whatever is appended. *)
LEMMA TearLastNext ==
  ASSUME LogTypeOK, TearLast, [LogNext]_logVars
  PROVE  TearLast'
<1>1. ASSUME NEW t \in Txid, NEW state \in Keeps, NEW n \in 1 .. Size, Put(t, state, n)
      PROVE  TearLast'
  <2>1. /\ DOMAIN tries = 1 .. Len(tries) /\ DOMAIN tries' = 1 .. Len(tries) + 1
        /\ Len(tries) \in Nat /\ Len(tries') = Len(tries) + 1
        /\ \A m \in 1 .. Len(tries) : tries'[m] = tries[m]
        /\ tries'[Len(tries) + 1].put = n
    BY <1>1, PutTries
  <2>2. Size' = Size
    BY <1>1 DEF Size, Put
  <2>3. /\ LastTear \in 0 .. Len(tries)
        /\ \A m \in DOMAIN tries : m > LastTear => tries[m].put = Size
    BY DEF TearLast, Whole
  <2>4. LastTear' = IF n = Size THEN LastTear ELSE Len(tries) + 1
    BY <1>1, TearPut
  <2>5. LastTear' \in 0 .. Len(tries')
    BY <2>1, <2>3, <2>4
  <2>6. ASSUME NEW m \in DOMAIN tries', m > LastTear'
        PROVE  tries'[m].put = Size
    BY <2>1, <2>3, <2>4, <2>6
  <2> QED
    BY <2>2, <2>5, <2>6 DEF TearLast, Whole
<1>2. CASE UNCHANGED <<owner, words, tries>>
  <2>1. LastTear' = LastTear /\ Size' = Size
    BY <1>2 DEF LastTear, Whole, Size
  <2> QED
    BY <1>2, <2>1 DEF TearLast, Whole
<1> QED
  BY <1>1, <1>2, NextIs DEF LogTypeOK, logVars

(* A record appended moves the blocks by one; a cut record begins anew. *)
LEMMA BlocksHoldNext ==
  ASSUME LogTypeOK, TearLast, BlocksHold, [LogNext]_logVars
  PROVE  BlocksHold'
<1>1. Size \in Nat \ {0} /\ Size >= 3
  BY SizeNat DEF LogTypeOK
<1>2. ASSUME NEW t \in Txid, NEW state \in Keeps, NEW n \in 1 .. Size, Put(t, state, n)
      PROVE  BlocksHold'
  <2>1. /\ Len(words) \in Nat /\ Len(words') = Len(words) + n
        /\ \A k \in 1 .. Len(words) : words'[k] = words[k]
        /\ \A q \in 1 .. n : words'[Len(words) + q] = Record(t, state)[q]
    BY <1>2, PutWords
  <2>2. /\ Len(tries) \in Nat /\ Len(tries') = Len(tries) + 1
        /\ \A m \in 1 .. Len(tries) : tries'[m] = tries[m]
        /\ tries'[Len(tries) + 1] = [txid |-> t, state |-> state, put |-> n]
    BY <1>2, PutTries
  <2>3. Size' = Size
    BY <1>2 DEF Size, Put
  <2>4. LastTear' = IF n = Size THEN LastTear ELSE Len(tries) + 1
    BY <1>2, TearPut
  <2>5. LastTear \in 0 .. Len(tries) /\ Recent \in Nat
    BY <2>2 DEF TearLast, Recent
  <2>6. CASE n # Size
    <3>1. Recent' = 0 /\ LastTear' # 0
      BY <2>2, <2>4, <2>5, <2>6 DEF Recent
    <3>2. 0 * Size' <= Len(words')
      BY <1>1, <2>1, <2>3
    <3> QED
      BY <3>1, <3>2 DEF BlocksHold
  <2>7. CASE n = Size
    <3>1. Recent' = Recent + 1 /\ LastTear' = LastTear
      BY <2>2, <2>4, <2>5, <2>7 DEF Recent
    <3>2. \A k \in Nat : k * Size \in Nat /\ (k + 1) * Size = k * Size + Size
      BY <1>1, Blocks
    <3>3. Recent' * Size' <= Len(words')
      BY <1>1, <2>1, <2>3, <2>5, <2>7, <3>1, <3>2 DEF BlocksHold
    <3>4. LastTear' = 0 => Len(words') = Len(tries') * Size'
      BY <1>1, <2>1, <2>2, <2>3, <2>7, <3>1, <3>2 DEF BlocksHold
    <3>5. ASSUME NEW k \in 1 .. Recent'
          PROVE  /\ words'[At(k)' + 1] = Back(k)'.txid
                 /\ words'[At(k)' + 2] = 0
                 /\ words'[At(k)' + 3] = Back(k)'.state
      <4>1. PICK m \in Nat : k = m + 1 /\ m <= Recent
        <5>1. k - 1 \in Nat /\ k = (k - 1) + 1 /\ k - 1 <= Recent
          BY <2>5, <3>1, <3>5
        <5> QED
          BY <5>1
      <4>2. At(k)' = Len(words) - m * Size
        BY <2>1, <2>3, <2>7, <1>1, <3>2, <4>1 DEF At
      <4>3. Back(k)' = tries'[Len(tries) + 1 - m]
        BY <2>2, <4>1 DEF Back
      <4>4. CASE m = 0
        <5>1. At(k)' = Len(words) /\ Back(k)' = tries'[Len(tries) + 1]
          BY <1>1, <2>1, <2>2, <4>2, <4>3, <4>4
        <5>2. /\ Record(t, state)[1] = t
              /\ Record(t, state)[2] = 0
              /\ Record(t, state)[3] = state
          BY RecordWords DEF LogTypeOK
        <5>3. 1 \in 1 .. n /\ 2 \in 1 .. n /\ 3 \in 1 .. n
          BY <1>1, <2>7
        <5>4. /\ words'[Len(words) + 1] = t
              /\ words'[Len(words) + 2] = 0
              /\ words'[Len(words) + 3] = state
          BY <2>1, <5>2, <5>3
        <5>5. Back(k)'.txid = t /\ Back(k)'.state = state
          BY <2>2, <5>1
        <5> QED
          BY <5>1, <5>4, <5>5
      <4>5. CASE m # 0
        <5>1. m \in 1 .. Recent
          BY <4>1, <4>5
        <5>2. /\ words[At(m) + 1] = Back(m).txid
              /\ words[At(m) + 2] = 0
              /\ words[At(m) + 3] = Back(m).state
          BY <5>1 DEF BlocksHold
        <5>3. At(k)' = At(m)
          BY <4>2 DEF At
        <5>4. Back(k)' = Back(m)
          <6>1. Len(tries) + 1 - m \in 1 .. Len(tries) /\ Len(tries) - m + 1 = Len(tries) + 1 - m
            BY <2>2, <2>5, <5>1 DEF Recent
          <6> QED
            BY <2>2, <4>3, <6>1 DEF Back
        <5>5. At(m) \in Nat /\ At(m) + 3 <= Len(words)
          <6>1. m * Size <= Recent * Size /\ m * Size >= Size /\ m * Size \in Nat
                /\ Recent * Size \in Nat
            BY <1>1, <2>5, <4>1, <4>5, Blocks
          <6>2. Recent * Size <= Len(words)
            BY DEF BlocksHold
          <6>3. PICK p \in Nat : p = m * Size
            BY <6>1
          <6>4. p <= Len(words) /\ p >= Size
            BY <2>1, <6>1, <6>2, <6>3
          <6>5. At(m) = Len(words) - p
            BY <6>3 DEF At
          <6> QED
            BY <1>1, <2>1, <6>3, <6>4, <6>5
        <5>6. \A q \in 1 .. 3 : At(m) + q \in 1 .. Len(words)
          BY <2>1, <5>5
        <5>7. /\ words'[At(m) + 1] = words[At(m) + 1]
              /\ words'[At(m) + 2] = words[At(m) + 2]
              /\ words'[At(m) + 3] = words[At(m) + 3]
          BY <2>1, <5>6
        <5> QED
          BY <5>2, <5>3, <5>4, <5>7
      <4> QED
        BY <4>4, <4>5
    <3> QED
      BY <3>3, <3>4, <3>5 DEF BlocksHold
  <2> QED
    BY <2>6, <2>7
<1>3. CASE UNCHANGED <<owner, words, tries>>
  <2>1. LastTear' = LastTear /\ Size' = Size
    BY <1>3 DEF LastTear, Whole, Size
  <2> QED
    BY <1>3, <2>1 DEF BlocksHold, Recent, At, Back
<1> QED
  BY <1>2, <1>3, NextIs DEF LogTypeOK, logVars

-----------------------------------------------------------------------------
(* The scan. *)
LEMMA RecentType ==
  ASSUME LogTypeOK, TearLast
  PROVE  /\ Recent \in Nat
         /\ \A k \in 1 .. Recent : Back(k).txid \in Txid /\ Back(k).state \in Keeps
<1>1. /\ DOMAIN tries = 1 .. Len(tries) /\ Len(tries) \in Nat
      /\ \A n \in 1 .. Len(tries) : tries[n].txid \in Txid /\ tries[n].state \in Keeps
  <2>1. /\ DOMAIN tries = 1 .. Len(tries) /\ Len(tries) \in Nat
        /\ \A n \in 1 .. Len(tries) :
             tries[n] \in [txid : Txid, state : Keeps, put : 1 .. Size]
    <3> DEFINE R == [txid : Txid, state : Keeps, put : 1 .. Size]
    <3>1. tries \in Seq(R)
      BY DEF LogTypeOK
    <3> HIDE DEF R
    <3>2. /\ DOMAIN tries = 1 .. Len(tries) /\ Len(tries) \in Nat
          /\ \A n \in 1 .. Len(tries) : tries[n] \in R
      BY <3>1
    <3> QED
      BY <3>2 DEF R
  <2> QED
    BY <2>1
<1>2. LastTear \in 0 .. Len(tries)
  BY DEF TearLast
<1>3. \A k \in 1 .. Recent : Len(tries) - k + 1 \in 1 .. Len(tries)
  BY <1>1, <1>2 DEF Recent
<1> QED
  BY <1>1, <1>2, <1>3 DEF Recent, Back

(* A step within the recent records reads the next of them. *)
LEMMA ScanRecent ==
  ASSUME LogTypeOK, TearLast, BlocksHold, ScanHolds, ScanStep, i <= Recent
  PROVE  ScanHolds'
<1> DEFINE r == Back(i)
           new == [id |-> <<r.txid, 0>>, state |-> r.state]
<1>1. i \in 1 .. Recent /\ i \in Nat /\ i > 0 /\ i' = i + 1 /\ Recent \in Nat
  BY RecentType DEF ScanStep, LogTypeOK
<1>2. /\ r.txid \in Txid /\ r.state \in Keeps
      /\ words[At(i) + 1] = r.txid
      /\ words[At(i) + 2] = 0
      /\ words[At(i) + 3] = r.state
  BY <1>1, RecentType DEF BlocksHold
<1>3. tx_db' = IF Found(<<r.txid, 0>>) THEN tx_db ELSE tx_db \cup {new}
  BY <1>2, ScanReads DEF New
<1>4. UNCHANGED <<owner, words, tries>>
  BY DEF ScanStep
<1>5. Recent' = Recent /\ LastTear' = LastTear /\ \A k : Back(k)' = Back(k)
  BY <1>4 DEF Recent, LastTear, Whole, Size, Back
<1> HIDE DEF r
<1>6. ASSUME NEW t \in Txid
      PROVE  FirstSeen(t)' \/ (Seen(t)' = {} /\ FoundOf(t)' = {})
  <2>1. Seen(t)' = {k \in 1 .. Recent : k < i + 1 /\ Back(k).txid = t}
    BY <1>1, <1>5 DEF Seen
  <2>2. FirstSeen(t) \/ (Seen(t) = {} /\ FoundOf(t) = {})
    BY <1>1 DEF ScanHolds
  <2>3. \A k \in 1 .. Recent : k < i + 1 <=> k < i \/ k = i
    BY <1>1
  <2>4. CASE t # r.txid
    <3>1. Seen(t)' = Seen(t)
      BY <1>1, <2>1, <2>3, <2>4 DEF Seen, r
    <3>2. FoundOf(t)' = FoundOf(t)
      BY <1>3, <2>4 DEF FoundOf
    <3> QED
      BY <1>4, <2>2, <3>1, <3>2 DEF FirstSeen, Back
  <2>5. CASE t = r.txid
    <3>1. Seen(t)' = Seen(t) \cup {i}
      BY <1>1, <2>1, <2>3, <2>5 DEF Seen, r
    <3>2. CASE FirstSeen(t)
      <4>1. PICK k \in Seen(t) : /\ \A m \in Seen(t) : k <= m
                                 /\ FoundOf(t) = {[id |-> <<t, 0>>, state |-> Back(k).state]}
        BY <3>2 DEF FirstSeen
      <4>2. k <= i
        BY <1>1, <4>1 DEF Seen
      <4>3. Found(<<t, 0>>)
        BY <4>1 DEF FoundOf, Found
      <4>4. FoundOf(t)' = FoundOf(t)
        BY <1>3, <2>5, <4>3 DEF FoundOf
      <4> QED
        BY <1>4, <3>1, <4>1, <4>2, <4>4 DEF FirstSeen, Back
    <3>3. CASE Seen(t) = {} /\ FoundOf(t) = {}
      <4>1. tx_db' = tx_db \cup {new}
        BY <1>3, <2>5, <3>3 DEF FoundOf, Found
      <4>2. FoundOf(t)' = {new}
        BY <2>5, <3>3, <4>1 DEF FoundOf
      <4>3. new = [id |-> <<t, 0>>, state |-> Back(i).state]
        BY <2>5 DEF r
      <4>4. Seen(t)' = {i} /\ i <= i
        BY <1>1, <3>1, <3>3
      <4> QED
        BY <1>4, <4>2, <4>3, <4>4 DEF FirstSeen, Back
    <3> QED
      BY <2>2, <3>2, <3>3
  <2> QED
    BY <2>4, <2>5
<1>7. i' <= Recent' + 1
  BY <1>1, <1>5
<1>8. ASSUME LastTear' = 0
      PROVE  \A e \in tx_db' : \E t \in Txid : e.id = <<t, 0>>
  <2>1. \A e \in tx_db : \E t \in Txid : e.id = <<t, 0>>
    BY <1>1, <1>5, <1>8 DEF ScanHolds
  <2> QED
    BY <1>2, <1>3, <2>1
<1> QED
  BY <1>6, <1>7, <1>8 DEF ScanHolds

(* A step behind them changes nothing that they left in tx_db. *)
LEMMA ScanOld ==
  ASSUME LogTypeOK, TearLast, BlocksHold, ScanHolds, ScanStep, i > Recent
  PROVE  ScanHolds'
<1>1. i \in Nat /\ i > 0 /\ i' = i + 1 /\ Recent \in Nat
  BY RecentType DEF ScanStep, LogTypeOK
<1>2. UNCHANGED <<owner, words, tries>>
  BY DEF ScanStep
<1>3. Recent' = Recent /\ LastTear' = LastTear /\ \A k : Back(k)' = Back(k)
  BY <1>2 DEF Recent, LastTear, Whole, Size, Back
<1>4. PICK id, state : tx_db' = IF New(id, state)
                                  THEN tx_db \cup {[id |-> id, state |-> state]} ELSE tx_db
  BY ScanReads
<1>5. ASSUME NEW t \in Txid
      PROVE  FirstSeen(t)' \/ (Seen(t)' = {} /\ i' > Recent' + 1)
  <2>1. Seen(t)' = Seen(t)
    <3>1. \A k \in 1 .. Recent : k < i /\ k < i'
      BY <1>1
    <3> QED
      BY <1>3, <3>1 DEF Seen
  <2>2. i' > Recent' + 1
    BY <1>1, <1>3
  <2>3. CASE FirstSeen(t)
    <3>1. Found(<<t, 0>>)
      BY <2>3 DEF FirstSeen, FoundOf, Found
    <3>2. FoundOf(t)' = FoundOf(t)
      BY <1>4, <3>1 DEF FoundOf, New
    <3> QED
      BY <1>2, <2>1, <2>3, <3>2 DEF FirstSeen, Back
  <2> QED
    BY <1>1, <2>1, <2>2, <2>3 DEF ScanHolds
<1>6. LastTear # 0
  <2>1. SUFFICES ASSUME LastTear = 0
                 PROVE  FALSE
    OBVIOUS
  <2>2. Len(words) = Len(tries) * Size /\ Recent = Len(tries) /\ Len(tries) \in Nat
    BY <2>1 DEF BlocksHold, Recent, LogTypeOK
  <2>3. i * Size <= Len(tries) * Size
    BY <2>2, ScanReads
  <2>4. i <= Len(tries)
    BY <1>1, <2>2, <2>3, Blocks, SizeNat DEF LogTypeOK
  <2> QED
    BY <1>1, <2>2, <2>4
<1> QED
  BY <1>3, <1>5, <1>6 DEF ScanHolds

(* One turn of the loop looks at one block more. *)
LEMMA ScanHoldsNext ==
  ASSUME LogTypeOK, TearLast, BlocksHold, ScanHolds, [LogNext]_logVars
  PROVE  ScanHolds'
<1>1. i \in Nat /\ Recent \in Nat
  BY RecentType DEF LogTypeOK
<1>2. ASSUME i' = 0
      PROVE  ScanHolds'
  BY <1>2 DEF ScanHolds
<1>3. CASE ScanStep
  BY <1>1, <1>3, ScanRecent, ScanOld
<1>4. CASE Restart
  <2>1. i' = 1 /\ tx_db' = {} /\ UNCHANGED <<owner, words, tries>>
    BY <1>4 DEF Restart
  <2>2. Recent' = Recent /\ LastTear' = LastTear
    BY <2>1 DEF Recent, LastTear, Whole, Size
  <2>3. \A t \in Txid : Seen(t)' = {} /\ FoundOf(t)' = {}
    <3>1. \A k \in 1 .. Recent : ~(k < 1)
      BY <1>1
    <3> QED
      BY <2>1, <2>2, <3>1 DEF Seen, FoundOf
  <2> QED
    BY <1>1, <2>1, <2>2, <2>3 DEF ScanHolds
<1>5. CASE UNCHANGED logVars
  <2>1. UNCHANGED <<owner, words, tries, i, tx_db>>
    BY <1>5 DEF logVars
  <2>2. Recent' = Recent /\ LastTear' = LastTear /\ \A k : Back(k)' = Back(k)
    BY <2>1 DEF Recent, LastTear, Whole, Size, Back
  <2>3. \A t : Seen(t)' = Seen(t) /\ FoundOf(t)' = FoundOf(t)
    BY <2>1, <2>2 DEF Seen, FoundOf
  <2>4. \A t : FirstSeen(t)' = FirstSeen(t)
    BY <2>1, <2>3 DEF FirstSeen, Back
  <2> QED
    BY <2>1, <2>2, <2>3, <2>4 DEF ScanHolds
<1> QED
  BY <1>2, <1>3, <1>4, <1>5, NextIs DEF LogTypeOK, Put, ScanEnd

-----------------------------------------------------------------------------
(* The three properties follow from the invariant. *)
LEMMA SinceTearIs ==
  ASSUME LogTypeOK, TearLast
  PROVE  /\ DOMAIN SinceTear = 1 .. Recent
         /\ \A n \in 1 .. Recent : SinceTear[n] = Back(Recent - n + 1)
         /\ LastTear = 0 => SinceTear = tries
<1> DEFINE R == [txid : Txid, state : Keeps, put : 1 .. Size]
<1>1. tries \in Seq(R)
  BY DEF LogTypeOK
<1> HIDE DEF R
<1>2. Len(tries) \in Nat /\ LastTear \in 0 .. Len(tries)
  BY <1>1 DEF TearLast
<1>3. \A n \in LastTear + 1 .. Len(tries) : tries[n] \in R
  BY <1>1, <1>2
<1>4. /\ SinceTear \in Seq(R) /\ Len(SinceTear) = Recent
      /\ \A n \in 1 .. Recent : SinceTear[n] = tries[LastTear + n]
  BY <1>1, <1>2, <1>3 DEF SinceTear, Recent
<1>5. \A n \in 1 .. Recent : Len(tries) - (Recent - n + 1) + 1 = LastTear + n
  BY <1>2 DEF Recent
<1>6. LastTear = 0 => SinceTear = tries
  <2>1. SUFFICES ASSUME LastTear = 0
                 PROVE  SinceTear = tries
    OBVIOUS
  <2>2. Recent = Len(tries) /\ \A n \in 1 .. Len(tries) : SinceTear[n] = tries[n]
    BY <1>2, <1>4, <2>1 DEF Recent
  <2> QED
    BY <1>1, <1>4, <2>2
<1> QED
  BY <1>4, <1>5, <1>6 DEF Back

(* What a complete scan found of an id. *)
LEMMA FoundIsLatest ==
  ASSUME LogInv, Recovering, NEW t \in Txid
  PROVE  /\ Kept(SinceTear, t) # {} => FoundOf(t) = Latest(SinceTear, t)
         /\ Kept(SinceTear, t) = {} => Latest(SinceTear, t) = {}
         /\ Kept(SinceTear, t) = {} /\ LastTear = 0 => FoundOf(t) = {}
<1> USE DEF LogInv
<1>1. /\ Recent \in Nat
      /\ \A k \in 1 .. Recent : Back(k).txid \in Txid /\ Back(k).state \in Keeps
  BY RecentType
<1>2. i \in Nat /\ i > 0 /\ i > Recent
  <2>1. i \in Nat /\ i > 0 /\ Len(words) \in Nat /\ i * Size > Len(words)
    <3>1. i * Size \in Nat /\ Len(words) \in Nat
      BY SizeNat DEF LogTypeOK
    <3> QED
      BY <3>1 DEF Recovering, SeekOk, Seek, LogTypeOK
  <2>2. Recent * Size <= Len(words)
    BY DEF BlocksHold
  <2>3. Size \in Nat \ {0}
    BY SizeNat DEF LogTypeOK
  <2>4. i * Size <= Recent * Size <=> i <= Recent
    BY <1>1, <2>1, <2>3, Blocks
  <2>5. i * Size \in Nat /\ Recent * Size \in Nat
    BY <1>1, <2>1, <2>3, Blocks
  <2> QED
    BY <1>1, <2>1, <2>2, <2>4, <2>5
<1>3. Seen(t) = {k \in 1 .. Recent : Back(k).txid = t}
  BY <1>1, <1>2 DEF Seen
<1>4. Kept(SinceTear, t) = {n \in 1 .. Recent : Back(Recent - n + 1).txid = t}
  <2>1. \A n \in 1 .. Recent : Recent - n + 1 \in 1 .. Recent
    BY <1>1
  <2> QED
    BY <1>1, <2>1, SinceTearIs DEF Kept
<1>5. \/ FirstSeen(t)
      \/ Seen(t) = {} /\ (i > Recent + 1 \/ FoundOf(t) = {})
  BY <1>2 DEF ScanHolds
<1>6. ASSUME Kept(SinceTear, t) # {}
      PROVE  FoundOf(t) = Latest(SinceTear, t)
  <2>1. PICK n \in 1 .. Recent : Back(Recent - n + 1).txid = t
    BY <1>4, <1>6
  <2>2. Recent - n + 1 \in Seen(t)
    BY <1>1, <1>3, <2>1
  <2>3. PICK k \in Seen(t) : /\ \A m \in Seen(t) : k <= m
                             /\ FoundOf(t) = {[id |-> <<t, 0>>, state |-> Back(k).state]}
    BY <1>5, <2>2 DEF FirstSeen
  <2> DEFINE top == Recent - k + 1
  <2>4. k \in 1 .. Recent /\ top \in 1 .. Recent /\ Recent - top + 1 = k
    BY <1>1, <1>3, <2>3
  <2>5. top \in Kept(SinceTear, t)
    BY <1>3, <1>4, <2>3, <2>4
  <2>6. ASSUME NEW m \in Kept(SinceTear, t)
        PROVE  m <= top
    <3>1. m \in 1 .. Recent /\ Recent - m + 1 \in Seen(t)
      BY <1>1, <1>3, <1>4
    <3>2. k <= Recent - m + 1
      BY <2>3, <3>1
    <3> QED
      BY <1>1, <2>4, <3>1, <3>2
  <2>7. SinceTear[top] = Back(k)
    BY <2>4, SinceTearIs
  <2> HIDE DEF top
  <2>8. Max(Kept(SinceTear, t)) = top
    <3>1. Kept(SinceTear, t) \in SUBSET Int
      BY <1>4
    <3> QED
      BY <2>5, <2>6, <3>1, MaxIs
  <2>9. {m \in Kept(SinceTear, t) : m = Max(Kept(SinceTear, t))} = {top}
    BY <2>5, <2>8
  <2> QED
    BY <2>3, <2>7, <2>9 DEF Latest
<1>7. Kept(SinceTear, t) = {} => Latest(SinceTear, t) = {}
  BY DEF Latest
<1>8. ASSUME Kept(SinceTear, t) = {}, LastTear = 0
      PROVE  FoundOf(t) = {}
  <2>1. Seen(t) = {}
    <3>1. ASSUME NEW k \in Seen(t)
          PROVE  FALSE
      <4>1. k \in 1 .. Recent /\ Recent - k + 1 \in 1 .. Recent
            /\ Recent - (Recent - k + 1) + 1 = k
        BY <1>1, <1>3
      <4> QED
        BY <1>3, <1>4, <1>8, <4>1
    <3> QED
      BY <3>1
  <2>2. i <= Recent + 1
    BY <1>2, <1>8 DEF ScanHolds
  <2> QED
    BY <1>1, <1>2, <1>5, <2>1, <2>2 DEF FirstSeen
<1> QED
  BY <1>6, <1>7, <1>8

(* The invariant is stronger than the properties. *)
LEMMA LogInvImplies == LogInv => RecentFound /\ ExactlyLogged /\ NothingForged
<1>1. SUFFICES ASSUME LogInv
               PROVE  RecentFound /\ ExactlyLogged
  BY DEF LogInv
<1>2. RecentFound
  BY <1>1, FoundIsLatest DEF RecentFound
<1>3. ASSUME Recovering, LastTear = 0
      PROVE  tx_db = UNION {Latest(tries, t) : t \in Txid}
  <2>1. SinceTear = tries
    BY <1>1, <1>3, SinceTearIs DEF LogInv
  <2>2. \A t \in Txid : FoundOf(t) = Latest(tries, t)
    BY <1>1, <1>3, <2>1, FoundIsLatest
  <2>3. \A e \in tx_db : \E t \in Txid : e \in FoundOf(t)
    BY <1>1, <1>3 DEF LogInv, ScanHolds, Recovering, FoundOf
  <2>4. \A t \in Txid : FoundOf(t) \subseteq tx_db
    BY DEF FoundOf
  <2> QED
    BY <2>2, <2>3, <2>4
<1> QED
  BY <1>2, <1>3 DEF ExactlyLogged

(* It holds at the start: the file is empty. *)
LEMMA LogInvInit == LogInit => LogInv
<1>1. SUFFICES ASSUME LogInit
               PROVE  LogInv
  OBVIOUS
<1>2. words = <<>> /\ tries = <<>> /\ i = 0 /\ tx_db = {} /\ owner \in Program
  BY <1>1 DEF LogInit
<1>3. Len(words) = 0 /\ Len(tries) = 0 /\ DOMAIN tries = {}
  BY <1>2
<1>4. LogTypeOK
  BY <1>2 DEF LogTypeOK
<1>5. LastTear = 0
  <2>1. {0} \cup {n \in DOMAIN tries : ~Whole(tries[n])} = {0}
    BY <1>3
  <2>2. Max({0}) = 0
    BY MaxIs
  <2> QED
    BY <2>1, <2>2 DEF LastTear
<1>6. Recent = 0 /\ 0 * Size = 0
  BY <1>2, <1>3, <1>5, SizeNat DEF Recent
<1>7. Genuine /\ NothingForged /\ TearLast /\ ScanHolds
  BY <1>2, <1>3, <1>5 DEF Genuine, NothingForged, FoundOf, TearLast, ScanHolds
<1>8. BlocksHold
  BY <1>3, <1>5, <1>6 DEF BlocksHold
<1> QED
  BY <1>4, <1>7, <1>8 DEF LogInv

(* Every step keeps it. *)
LEMMA LogInvNext == LogInv /\ [LogNext]_logVars => LogInv'
BY LogTypeNext, GenuineNext, NothingForgedNext, TearLastNext, BlocksHoldNext, ScanHoldsNext
   DEF LogInv

(* Recover finds the last record that was written of each transaction      *)
(* since the last cut one, whatever the file holds before them: for any    *)
(* txids that do not look like states or paths, any size of a record, any  *)
(* number of records and of restarts during a scan.                        *)
THEOREM RecentFoundCorrect == LogSpec => []RecentFound
BY LogInvInit, LogInvNext, LogInvImplies, PTL DEF LogSpec

(* While no write was cut short it finds those records and nothing else.   *)
THEOREM ExactlyLoggedCorrect == LogSpec => []ExactlyLogged
BY LogInvInit, LogInvNext, LogInvImplies, PTL DEF LogSpec

(* It never takes a transaction to be in a state that nobody logged for    *)
(* it, although a cut record makes it read all older blocks across two     *)
(* records.                                                                *)
THEOREM NothingForgedCorrect == LogSpec => []NothingForged
BY LogInvInit, LogInvNext, LogInvImplies, PTL DEF LogSpec
=============================================================================
