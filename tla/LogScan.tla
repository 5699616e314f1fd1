------------------------------- MODULE LogScan -------------------------------
(***************************************************************************)
(* The log as a file: the records that tpcLog appends, whole or cut short, *)
(* and the scan of Recover, which reads them backward from the end.        *)
(* BackendStore.tla and Coordinator.tla take the log to be what this scan  *)
(* finds; here is when it is.                                              *)
(*                                                                         *)
(* A file is a sequence of 4-byte words.  write() may put down the first   *)
(* words of a record only, when the disk is full or the machine stops:     *)
(* tpcLog looks for an error and takes any other result for success.       *)
(***************************************************************************)
EXTENDS Integers, SequencesExt

CONSTANTS
  Txid,     \* the low words of the txids
  RestOf,   \* RestOf[p]: the words of a record of p behind its state: path and op, or padding
  MaxTries, \* bound on the calls of tpcLog
  MaxTears  \* bound on the writes that are cut short

PREPARE == 0
ABORT == 1
COMMIT == 2
State == {PREPARE, ABORT, COMMIT}
Program == {"store", "coordinator"}

ASSUME LogAssumption ==
  /\ RestOf \in [Program -> Seq(Nat)]
  /\ \A p \in Program : Txid \subseteq Nat \ (State \cup Range(RestOf[p]))
  /\ MaxTries \in Nat /\ MaxTears \in Nat

VARIABLES
  owner,  \* the program whose log it is
  words,  \* the file
  tries,  \* the calls of tpcLog, in order: [txid, state, put], put words of each in the file
  i,      \* the i of Recover's loop; 0 when Recover is done
  tx_db   \* what Recover has found so far

logVars == <<owner, words, tries, i, tx_db>>

\* A txid has 8 bytes; the high word of the ids in use is 0.
Record(t, state) == <<t, 0, state>> \o RestOf[owner]

Size == 3 + Len(RestOf[owner])

\* The states that owner logs and its Recover puts into tx_db: all, or commits alone.
Keeps == IF owner = "store" THEN State ELSE {COMMIT}

LogInit == owner \in Program /\ words = <<>> /\ tries = <<>> /\ i = 0 /\ tx_db = {}

Put(t, state, n) ==
  /\ i = 0
  /\ Len(tries) < MaxTries
  /\ words' = words \o SubSeq(Record(t, state), 1, n)
  /\ tries' = Append(tries, [txid |-> t, state |-> state, put |-> n])
  /\ UNCHANGED <<owner, i, tx_db>>

TpcLog(t, state) == Put(t, state, Size)

TpcLogTorn(t, state, n) ==
  /\ Len(SelectSeq(tries, LAMBDA r : r.put < Size)) < MaxTears
  /\ Put(t, state, n)

\* A process that ends, during its Recover or after it, is started again.
Restart ==
  /\ i' = 1
  /\ tx_db' = {}
  /\ UNCHANGED <<owner, words, tries>>

\* lseek(log_fd, -i * sizeof(Tx_log_entry), SEEK_END)
Seek == Len(words) - i * Size

Found(id) == \E e \in tx_db : e.id = id

(* Mutant: what was found before, that is, later in the file, is replaced. *)
AnyRecord(id, state) == state \in Keeps

(* Mutant: the first record found of a transaction hides all of its others. *)
FirstOfAll(id, state) == ~Found(id)

New(id, state) == state \in Keeps /\ ~Found(id)

(* Mutant: the loop ends before it reads the record at offset 0. *)
SeekPositive == Seek > 0

SeekOk == Seek >= 0

ScanStep ==
  /\ i > 0
  /\ SeekOk
  /\ LET entry == SubSeq(words, Seek + 1, Seek + Size)
         id == <<entry[1], entry[2]>>
     IN tx_db' = IF New(id, entry[3])
                   THEN {e \in tx_db : e.id # id} \cup {[id |-> id, state |-> entry[3]]}
                   ELSE tx_db
  /\ i' = i + 1
  /\ UNCHANGED <<owner, words, tries>>

ScanEnd ==
  /\ i > 0
  /\ ~SeekOk
  /\ i' = 0
  /\ UNCHANGED <<owner, words, tries, tx_db>>

LogNext ==
  \/ \E t \in Txid, state \in Keeps :
       TpcLog(t, state) \/ \E n \in 1 .. Size - 1 : TpcLogTorn(t, state, n)
  \/ Restart
  \/ ScanStep
  \/ ScanEnd

LogSpec == LogInit /\ [][LogNext]_logVars

-----------------------------------------------------------------------------
Whole(r) == r.put = Size

\* The calls after the last one that was cut short.
LastTear == Max({0} \cup {n \in DOMAIN tries : ~Whole(tries[n])})
SinceTear == SubSeq(tries, LastTear + 1, Len(tries))

\* The last record that Recover keeps of txid t, among the records of T.
Kept(T, t) == {n \in DOMAIN T : T[n].txid = t /\ T[n].state \in Keeps}
Latest(T, t) ==
  {[id |-> <<t, 0>>, state |-> T[n].state] : n \in {m \in Kept(T, t) : m = Max(Kept(T, t))}}

FoundOf(t) == {e \in tx_db : e.id = <<t, 0>>}

Recovering == i > 0 /\ ~SeekOk

(***************************************************************************)
(* At the end of its loop Recover has found, of each transaction with a    *)
(* record since the last cut one, the last such record, whatever precedes  *)
(* them: a cut record hides older ones, never newer ones.                  *)
(***************************************************************************)
RecentFound ==
  Recovering => \A t \in Txid : Kept(SinceTear, t) # {} => FoundOf(t) = Latest(SinceTear, t)

(***************************************************************************)
(* While no write was cut short, it has found nothing else.                *)
(***************************************************************************)
ExactlyLogged ==
  Recovering /\ LastTear = 0 => tx_db = UNION {Latest(tries, t) : t \in Txid}

(***************************************************************************)
(* Records are cut, and blocks read across them, but Recover never takes a *)
(* transaction to be in a state that nobody logged for it: words at the    *)
(* wrong offset make up transactions, they change none.                    *)
(***************************************************************************)
NothingForged ==
  \A t \in Txid : \A e \in FoundOf(t) :
    \E n \in DOMAIN tries : tries[n].txid = t /\ tries[n].state = e.state
=============================================================================
