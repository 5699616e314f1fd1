-------------------------- MODULE DurabilityProofs --------------------------
(***************************************************************************)
(* Proofs about a store on a machine whose power fails, for any number of  *)
(* transactions, power failures and ends of the process.                   *)
(***************************************************************************)
EXTENDS StoreDurability, TLAPS

(***************************************************************************)
(* The types, which matter for what Recover and the file system read.      *)
(***************************************************************************)
State == {"none", "PREPARE", "ABORT", "COMMIT"}
Record == [txid : Txid, state_t : State]

Files == [names : [Name -> Txid \cup {None}], data : [Txid -> Seq(Txid)], log : Seq(Record)]

Changes == UNION {[D -> Txid \cup {None}] : D \in SUBSET Name}

DurTypeOK ==
  /\ kernel \in Files /\ disk \in Files
  /\ unwritten \in Seq(Changes)
  /\ at \in [Txid -> {"none", "write", "log", "renamed"}]
  /\ tx_db \in [Txid -> State]
  /\ said \in [Txid -> {"nothing", "Prepare logging done.", "Renamed while committing",
                        "Commit logging done."}]
  /\ decision \in [Txid -> {"none", "ABORT", "COMMIT"}]

(* Sequences of anything. *)
LEMMA SeqTypes ==
  ASSUME NEW S, NEW seq \in Seq(S)
  PROVE  /\ <<>> \in Seq(S)
         /\ \A e \in S : Append(seq, e) \in Seq(S)
         /\ seq # <<>> => Head(seq) \in S /\ Tail(seq) \in Seq(S)
OBVIOUS

(* What is read from a file are buffers. *)
LEMMA ReadType ==
  ASSUME NEW files \in Files, NEW n \in Name
  PROVE  Read(files, n) \in Seq(Txid)
BY DEF Read, Files

(* Changed names are names of files. *)
LEMMA ChangedType ==
  ASSUME NEW names \in [Name -> Txid \cup {None}], NEW c \in Changes
  PROVE  Changed(names, c) \in [Name -> Txid \cup {None}]
BY DEF Changed, Changes

(* Recover finds a state. *)
LEMMA RecoveredType ==
  ASSUME NEW log, NEW t
  PROVE  /\ RecoveredState(log, t) \in State
         /\ RecoveredState(log, t) # "none" => Records(log, t) # {}
BY DEF RecoveredState, State

(* One more record is one more of its transaction. *)
LEMMA RecordsAppend ==
  ASSUME NEW log \in Seq(Record), NEW r \in Record, NEW t
  PROVE  Records(Append(log, r), t) = Records(log, t) \cup (IF r.txid = t THEN {r.state_t} ELSE {})
<1> DEFINE more == Append(log, r)
<1>1. /\ Len(log) \in Nat /\ DOMAIN log = 1..Len(log)
      /\ DOMAIN more = 1..(Len(log) + 1)
      /\ more[Len(log) + 1] = r
      /\ \A n \in 1..Len(log) : more[n] = log[n]
  OBVIOUS
<1>2. ASSUME NEW x \in Records(more, t)
      PROVE  x \in Records(log, t) \/ (r.txid = t /\ x = r.state_t)
  <2>1. PICK n \in DOMAIN more : more[n].txid = t /\ x = more[n].state_t
    BY <1>2 DEF Records
  <2>2. CASE n = Len(log) + 1
    BY <1>1, <2>1, <2>2
  <2>3. CASE n \in 1..Len(log)
    BY <1>1, <2>1, <2>3 DEF Records
  <2> QED
    BY <1>1, <2>2, <2>3
<1>3. Records(log, t) \subseteq Records(more, t)
  <2> HIDE DEF more
  <2> QED
    BY <1>1 DEF Records
<1>4. r.txid = t => r.state_t \in Records(more, t)
  <2> HIDE DEF more
  <2> QED
    BY <1>1 DEF Records
<1> QED
  BY <1>2, <1>3, <1>4

(* A log with one more record. *)
LEMMA TpcLogType ==
  ASSUME DurTypeOK, NEW t \in Txid, tx_db' \in [Txid -> State], TpcLog(t)
  PROVE  /\ kernel' \in Files /\ disk' \in Files
         /\ kernel'.names = kernel.names /\ disk'.names = disk.names
         /\ kernel'.data = kernel.data /\ disk'.data = disk.data
         /\ kernel'.log = Append(kernel.log, [txid |-> t, state_t |-> tx_db'[t]])
         /\ disk'.log = kernel'.log
<1> DEFINE log == Append(kernel.log, [txid |-> t, state_t |-> tx_db'[t]])
<1>1. log \in Seq(Record)
  <2>1. kernel.log \in Seq(Record) /\ [txid |-> t, state_t |-> tx_db'[t]] \in Record
    BY DEF DurTypeOK, Files, Record
  <2> QED
    BY <2>1, SeqTypes
<1>2. kernel' = [kernel EXCEPT !.log = log] /\ disk' = [disk EXCEPT !.log = log]
  BY DEF TpcLog, Fsync
<1> HIDE DEF log
<1>3. /\ kernel' \in Files /\ disk' \in Files
      /\ kernel'.names = kernel.names /\ disk'.names = disk.names
      /\ kernel'.data = kernel.data /\ disk'.data = disk.data
      /\ kernel'.log = log /\ disk'.log = log
  BY <1>1, <1>2 DEF DurTypeOK, Files
<1> QED
  BY <1>3 DEF log

(* A change of names, not yet on the disk. *)
LEMMA RenamesType ==
  ASSUME DurTypeOK, NEW c \in Changes, Renames(c)
  PROVE  /\ kernel' \in Files /\ unwritten' \in Seq(Changes)
         /\ kernel'.names = Changed(kernel.names, c)
         /\ kernel'.data = kernel.data /\ kernel'.log = kernel.log
<1>1. Changed(kernel.names, c) \in [Name -> Txid \cup {None}]
  BY ChangedType DEF DurTypeOK, Files
<1>2. /\ kernel' = [kernel EXCEPT !.names = Changed(kernel.names, c)]
      /\ unwritten' \in Seq(Changes)
  BY SeqTypes DEF Renames, DurTypeOK
<1> QED
  BY <1>1, <1>2 DEF DurTypeOK, Files

(* The changes that are made. *)
LEMMA ChangesMade ==
  ASSUME NEW t \in Txid, NEW i \in Txid \cup {None}
  PROVE  /\ [n \in {t} |-> i] \in Changes
         /\ [n \in {t, Path} |-> IF n = t THEN None ELSE i] \in Changes
<1>1. {t} \in SUBSET Name /\ {t, Path} \in SUBSET Name
  BY DEF Name
<1>2. /\ [n \in {t} |-> i] \in [{t} -> Txid \cup {None}]
      /\ [n \in {t, Path} |-> IF n = t THEN None ELSE i] \in [{t, Path} -> Txid \cup {None}]
  OBVIOUS
<1> QED
  BY <1>1, <1>2 DEF Changes

-----------------------------------------------------------------------------
(* The steps keep the types. *)

(* Those of the file system. *)
LEMMA TypeWriteBack ==
  ASSUME DurTypeOK, WriteBackName \/ \E i \in Txid : WriteBackData(i)
  PROVE  DurTypeOK'
<1>1. CASE WriteBackName
  <2>1. Head(unwritten) \in Changes /\ Tail(unwritten) \in Seq(Changes)
    BY <1>1, SeqTypes DEF DurTypeOK, WriteBackName
  <2>2. Changed(disk.names, Head(unwritten)) \in [Name -> Txid \cup {None}]
    BY <2>1, ChangedType DEF DurTypeOK, Files
  <2>3. disk' \in Files
    BY <1>1, <2>2 DEF DurTypeOK, WriteBackName, Files
  <2> QED
    BY <1>1, <2>1, <2>3 DEF DurTypeOK, WriteBackName
<1>2. CASE \E i \in Txid : WriteBackData(i)
  <2>1. PICK i \in Txid : WriteBackData(i)
    BY <1>2
  <2>2. disk' \in Files
    BY <2>1 DEF DurTypeOK, WriteBackData, Files
  <2> QED
    BY <2>1, <2>2 DEF DurTypeOK, WriteBackData
<1> QED
  BY <1>1, <1>2

(* Those of the handlers, and of the coordinator. *)
LEMMA TypeHandler ==
  ASSUME DurTypeOK, NEW t \in Txid, PrepareOpen(t) \/ Handler(t) \/ Decide(t)
  PROVE  DurTypeOK'
<1>1. CASE PrepareOpen(t)
  <2>1. Renames([n \in {t} |-> t])
    BY <1>1 DEF PrepareOpen
  <2>2. kernel' \in Files /\ unwritten' \in Seq(Changes)
    BY <2>1, ChangesMade, RenamesType
  <2> QED
    BY <1>1, <2>2 DEF DurTypeOK, PrepareOpen, State
<1>2. CASE PrepareWrite(t)
  <2> DEFINE new == Append(Read(kernel, Path), t)
  <2>1. new \in Seq(Txid)
    BY ReadType, SeqTypes DEF DurTypeOK, Name
  <2>2. kernel' = [kernel EXCEPT !.data[t] = new]
    BY <1>2 DEF PrepareWrite
  <2> HIDE DEF new
  <2>3. kernel' \in Files
    BY <2>1, <2>2 DEF DurTypeOK, Files
  <2> QED
    BY <1>2, <2>3 DEF DurTypeOK, PrepareWrite
<1>3. CASE PrepareLog(t)
  <2>1. tx_db' \in [Txid -> State] /\ TpcLog(t)
    BY <1>3 DEF DurTypeOK, PrepareLog
  <2>2. kernel' \in Files /\ disk' \in Files
    BY <2>1, TpcLogType
  <2> QED
    BY <1>3, <2>2 DEF DurTypeOK, PrepareLog
<1>4. CASE Abort(t)
  <2> DEFINE log == Append(kernel.log, [txid |-> t, state_t |-> "ABORT"])
  <2>1. log \in Seq(Record)
    <3>1. kernel.log \in Seq(Record) /\ [txid |-> t, state_t |-> "ABORT"] \in Record
      BY DEF DurTypeOK, Files, Record, State
    <3> QED
      BY <3>1, SeqTypes
  <2>2. /\ kernel' = [kernel EXCEPT !.names[t] = None, !.log = log]
        /\ disk' = [disk EXCEPT !.log = log]
    BY <1>4 DEF Abort, Fsync
  <2>3. unwritten' \in Seq(Changes)
    BY <1>4, ChangesMade, SeqTypes DEF Abort, DurTypeOK
  <2> HIDE DEF log
  <2>4. kernel' \in Files /\ disk' \in Files
    BY <2>1, <2>2 DEF DurTypeOK, Files
  <2> QED
    BY <1>4, <2>3, <2>4 DEF DurTypeOK, Abort, State
<1>5. CASE CommitRename(t)
  <2>1. kernel' \in Files /\ unwritten' \in Seq(Changes)
    <3>1. CASE kernel.names[t] = None
      BY <1>5, <3>1 DEF CommitRename, DurTypeOK
    <3>2. CASE kernel.names[t] # None
      <4>1. kernel.names[t] \in Txid \cup {None}
        BY DEF DurTypeOK, Files, Name
      <4>2. Renames([n \in {t, Path} |-> IF n = t THEN None ELSE kernel.names[t]])
        BY <1>5, <3>2 DEF CommitRename
      <4> QED
        BY <4>1, <4>2, ChangesMade, RenamesType
    <3> QED
      BY <3>1, <3>2
  <2> QED
    BY <1>5, <2>1 DEF DurTypeOK, CommitRename
<1>6. CASE CommitLog(t)
  <2>1. tx_db' \in [Txid -> State] /\ TpcLog(t)
    BY <1>6 DEF DurTypeOK, CommitLog, State
  <2>2. kernel' \in Files /\ disk' \in Files
    BY <2>1, TpcLogType
  <2> QED
    BY <1>6, <2>1, <2>2 DEF DurTypeOK, CommitLog
<1>7. CASE Decide(t)
  BY <1>7 DEF DurTypeOK, Decide
<1> QED
  BY <1>1, <1>2, <1>3, <1>4, <1>5, <1>6, <1>7 DEF Handler

(* Those that end the process. *)
LEMMA TypeRestart ==
  ASSUME DurTypeOK, Kill \/ PowerFailure
  PROVE  DurTypeOK'
<1>1. PICK files \in {kernel, disk} : RestartFrom(files)
  BY DEF Kill, PowerFailure
<1>2. tx_db' \in [Txid -> State]
  BY <1>1, RecoveredType DEF RestartFrom
<1>3. unwritten' \in Seq(Changes)
  BY SeqTypes DEF Kill, PowerFailure, DurTypeOK
<1> QED
  BY <1>1, <1>2, <1>3 DEF DurTypeOK, RestartFrom

(* Every step keeps the types. *)
LEMMA DurTypeNext == DurTypeOK /\ [DurNext]_durVars => DurTypeOK'
<1> SUFFICES ASSUME DurTypeOK, [DurNext]_durVars
             PROVE  DurTypeOK'
  OBVIOUS
<1>1. CASE UNCHANGED durVars
  BY <1>1 DEF DurTypeOK, durVars
<1> QED
  BY <1>1, TypeWriteBack, TypeHandler, TypeRestart DEF DurNext

-----------------------------------------------------------------------------
(***************************************************************************)
(* The records.  The log of a store is on the disk whenever a handler has  *)
(* gone on; a handler that is past its Prepare, in the memory of any       *)
(* process, or has said so, has a record there.                            *)
(***************************************************************************)
Told(t) ==
  /\ said[t] # "nothing" => Records(disk.log, t) # {}
  /\ said[t] = "Commit logging done." => "COMMIT" \in Records(disk.log, t)
  /\ tx_db[t] # "none" => at[t] \in {"write", "log"} \/ Records(disk.log, t) # {}

SurviveInv == DurTypeOK /\ kernel.log = disk.log /\ \A t \in Txid : Told(t)

(* A step that writes no record says nothing that takes one. *)
LEMMA SurviveUnlogged ==
  ASSUME SurviveInv,
         \/ WriteBackName \/ Kill \/ PowerFailure
         \/ \E t \in Txid : \/ WriteBackData(t) \/ PrepareOpen(t) \/ PrepareWrite(t)
                            \/ CommitRename(t) \/ Decide(t)
  PROVE  kernel'.log = disk'.log /\ \A t \in Txid : Told(t)'
<1>1. CASE WriteBackName \/ \E t \in Txid : WriteBackData(t) \/ Decide(t)
  <2>1. /\ disk'.log = disk.log /\ kernel'.log = kernel.log
        /\ UNCHANGED <<said, tx_db, at>>
    BY <1>1 DEF WriteBackName, WriteBackData, Decide, SurviveInv, DurTypeOK, Files
  <2> QED
    BY <2>1 DEF SurviveInv, Told
<1>2. CASE Kill \/ PowerFailure
  <2>1. PICK files \in {kernel, disk} : RestartFrom(files)
    BY <1>2 DEF Kill, PowerFailure
  <2>2. /\ disk'.log = disk.log /\ kernel'.log = disk.log /\ said' = said
        /\ \A t \in Txid : tx_db'[t] # "none" => Records(disk.log, t) # {}
    BY <2>1, RecoveredType DEF RestartFrom, SurviveInv
  <2> QED
    BY <2>2 DEF SurviveInv, Told
<1>3. CASE \E t \in Txid : PrepareOpen(t) \/ PrepareWrite(t)
  <2>1. PICK t \in Txid : PrepareOpen(t) \/ PrepareWrite(t)
    BY <1>3
  <2>2. disk'.log = disk.log /\ kernel'.log = kernel.log /\ said' = said
    BY <2>1 DEF PrepareOpen, PrepareWrite, Renames, SurviveInv, DurTypeOK, Files
  <2>3. /\ at'[t] \in {"write", "log"}
        /\ \A u \in Txid \ {t} : at'[u] = at[u] /\ tx_db'[u] = tx_db[u]
    BY <2>1 DEF PrepareOpen, PrepareWrite, SurviveInv, DurTypeOK
  <2> QED
    BY <2>2, <2>3 DEF SurviveInv, Told
<1>4. CASE \E t \in Txid : CommitRename(t)
  <2>1. PICK t \in Txid : CommitRename(t)
    BY <1>4
  <2>2. disk'.log = disk.log /\ kernel'.log = kernel.log /\ tx_db' = tx_db
    BY <2>1 DEF CommitRename, Renames, SurviveInv, DurTypeOK, Files
  <2>3. Records(disk.log, t) # {}
    BY <2>1 DEF CommitRename, Idle, SurviveInv, Told
  <2>4. /\ said'[t] = "Renamed while committing"
        /\ \A u \in Txid \ {t} : at'[u] = at[u] /\ said'[u] = said[u]
    BY <2>1 DEF CommitRename, SurviveInv, DurTypeOK
  <2> QED
    BY <2>2, <2>3, <2>4 DEF SurviveInv, Told
<1> QED
  BY <1>1, <1>2, <1>3, <1>4

(* A record of t: the log has it, and all it had. *)
LEMMA SurviveLogged ==
  ASSUME SurviveInv, NEW t \in Txid, PrepareLog(t) \/ Abort(t) \/ CommitLog(t)
  PROVE  kernel'.log = disk'.log /\ \A u \in Txid : Told(u)'
<1>1. PICK x \in State :
        /\ kernel'.log = Append(disk.log, [txid |-> t, state_t |-> x])
        /\ disk'.log = Append(disk.log, [txid |-> t, state_t |-> x])
        /\ CommitLog(t) => x = "COMMIT"
  <2>1. CASE PrepareLog(t) \/ CommitLog(t)
    <3>1. tx_db' \in [Txid -> State] /\ TpcLog(t)
      BY <2>1 DEF SurviveInv, DurTypeOK, PrepareLog, CommitLog, State
    <3>2. /\ kernel'.log = Append(kernel.log, [txid |-> t, state_t |-> tx_db'[t]])
          /\ disk'.log = kernel'.log
      BY <3>1, TpcLogType DEF SurviveInv
    <3>3. CommitLog(t) => tx_db'[t] = "COMMIT"
      BY DEF CommitLog, SurviveInv, DurTypeOK
    <3> QED
      BY <3>1, <3>2, <3>3 DEF SurviveInv
  <2>2. CASE Abort(t)
    <3> DEFINE log == Append(kernel.log, [txid |-> t, state_t |-> "ABORT"])
    <3>1. /\ kernel' = [kernel EXCEPT !.names[t] = None, !.log = log]
          /\ disk' = [disk EXCEPT !.log = log]
      BY <2>2 DEF Abort, Fsync
    <3> HIDE DEF log
    <3>2. kernel'.log = log /\ disk'.log = log
      BY <3>1 DEF SurviveInv, DurTypeOK, Files
    <3>3. ~CommitLog(t)
      BY <2>2 DEF Abort, Idle, CommitLog
    <3> QED
      BY <3>2, <3>3 DEF log, SurviveInv, State
  <2> QED
    BY <2>1, <2>2
<1>2. \A u \in Txid : Records(disk'.log, u) = Records(disk.log, u) \cup (IF t = u THEN {x} ELSE {})
  <2>1. disk.log \in Seq(Record) /\ [txid |-> t, state_t |-> x] \in Record
    BY DEF SurviveInv, DurTypeOK, Files, Record
  <2> QED
    BY <1>1, <2>1, RecordsAppend
<1>3. \A u \in Txid \ {t} : said'[u] = said[u] /\ tx_db'[u] = tx_db[u] /\ at'[u] = at[u]
  BY DEF PrepareLog, Abort, CommitLog, SurviveInv, DurTypeOK
<1>4. said'[t] = "Commit logging done." => x = "COMMIT" \/ said[t] = "Commit logging done."
  BY <1>1 DEF PrepareLog, Abort, SurviveInv, DurTypeOK
<1>5. \A u \in Txid : Told(u)'
  BY <1>2, <1>3, <1>4 DEF SurviveInv, Told
<1> QED
  BY <1>1, <1>5

(* Every step keeps it. *)
LEMMA SurviveNext == SurviveInv /\ [DurNext]_durVars => SurviveInv'
<1> SUFFICES ASSUME SurviveInv, [DurNext]_durVars
             PROVE  SurviveInv'
  OBVIOUS
<1>1. DurTypeOK'
  BY DurTypeNext DEF SurviveInv
<1>2. CASE UNCHANGED durVars
  BY <1>1, <1>2 DEF SurviveInv, Told, durVars
<1> QED
  BY <1>1, <1>2, SurviveUnlogged, SurviveLogged DEF DurNext, Handler, SurviveInv

(* Whatever the power does, and however often the process ends: what a store *)
(* has said to be logged, its vote and its commit, is on the disk.           *)
THEOREM RecordsSurviveCorrect == DurSpec => []RecordsSurvive
<1>1. DurInit => SurviveInv
  <2> SUFFICES ASSUME DurInit
               PROVE  SurviveInv
    OBVIOUS
  <2>1. DurTypeOK
    BY DEF DurInit, DurTypeOK, NoFiles, Files, State
  <2> QED
    BY <2>1 DEF DurInit, SurviveInv, Told
<1>2. SurviveInv /\ [DurNext]_durVars => SurviveInv'
  BY SurviveNext
<1>3. SurviveInv => RecordsSurvive
  BY DEF SurviveInv, Told, RecordsSurvive
<1> QED
  BY <1>1, <1>2, <1>3, PTL DEF DurSpec

-----------------------------------------------------------------------------
(***************************************************************************)
(* The data.  A temporary file holds what its own transaction appended and *)
(* buffers of committed transactions; the path leads to the file of a      *)
(* committed one, and so does every change of names that is under way to   *)
(* the disk: in whatever order names and data get there, and however many  *)
(* of them, the stored file shows committed buffers only.                  *)
(***************************************************************************)
Committed == {t \in Txid : decision[t] = "COMMIT"}

SafeNames(names, C) ==
  /\ \A t \in Txid : names[t] \in {None, t}
  /\ names[Path] # None => names[Path] \in C

SafeData(data, C) ==
  \A i \in Txid : \A n \in DOMAIN data[i] : data[i][n] = i \/ data[i][n] \in C

SafeChange(c, C) ==
  /\ \A t \in Txid : t \in DOMAIN c => c[t] \in {None, t}
  /\ Path \in DOMAIN c => c[Path] \in C

SafeChanges(changes, C) == \A n \in DOMAIN changes : SafeChange(changes[n], C)

UnseenInv ==
  /\ DurTypeOK
  /\ SafeNames(kernel.names, Committed) /\ SafeNames(disk.names, Committed)
  /\ SafeData(kernel.data, Committed) /\ SafeData(disk.data, Committed)
  /\ SafeChanges(unwritten, Committed)

(* What is safe stays safe when more is committed. *)
LEMMA MoreCommitted ==
  ASSUME NEW C, NEW D, C \subseteq D, NEW x
  PROVE  /\ SafeNames(x, C) => SafeNames(x, D)
         /\ SafeData(x, C) => SafeData(x, D)
         /\ SafeChanges(x, C) => SafeChanges(x, D)
BY DEF SafeNames, SafeData, SafeChanges, SafeChange

(* No decision is undone. *)
LEMMA CommittedGrows ==
  ASSUME DurTypeOK, [DurNext]_durVars
  PROVE  Committed \subseteq Committed'
<1>1. CASE \E t \in Txid : Decide(t)
  BY <1>1 DEF Decide, Committed, DurTypeOK
<1>2. CASE decision' = decision
  BY <1>2 DEF Committed
<1>3. decision' = decision \/ \E t \in Txid : Decide(t)
  BY DEF DurNext, durVars, Handler, WriteBackName, WriteBackData, PrepareOpen, PrepareWrite,
     PrepareLog, Abort, CommitRename, CommitLog, Kill, PowerFailure, RestartFrom
<1> QED
  BY <1>1, <1>2, <1>3

(* A safe change of safe names. *)
LEMMA ChangedSafe ==
  ASSUME NEW C, NEW names, SafeNames(names, C), NEW c, SafeChange(c, C)
  PROVE  SafeNames(Changed(names, c), C)
BY DEF SafeNames, SafeChange, Changed, Name

(* One more change under way. *)
LEMMA ChangesAppend ==
  ASSUME NEW C, NEW changes \in Seq(Changes), SafeChanges(changes, C),
         NEW c \in Changes, SafeChange(c, C)
  PROVE  SafeChanges(Append(changes, c), C)
<1>1. \A n \in DOMAIN Append(changes, c) :
        Append(changes, c)[n] = c \/ (n \in DOMAIN changes /\ Append(changes, c)[n] = changes[n])
  OBVIOUS
<1> QED
  BY <1>1 DEF SafeChanges

(* What the stored file shows. *)
LEMMA ReadSafe ==
  ASSUME NEW C, NEW files \in Files, SafeNames(files.names, C), SafeData(files.data, C)
  PROVE  \A n \in DOMAIN Read(files, Path) : Read(files, Path)[n] \in C
<1> DEFINE i == files.names[Path]
<1>1. i \in Txid \cup {None}
  BY DEF Files, Name
<1>2. CASE i = None
  BY <1>2 DEF Read
<1>3. CASE i \in Txid /\ i # None
  <2>1. Read(files, Path) = files.data[i] /\ i \in C
    BY <1>3 DEF Read, SafeNames
  <2> QED
    BY <1>3, <2>1 DEF SafeData
<1> QED
  BY <1>1, <1>2, <1>3

(* The handlers make safe changes only. *)
LEMMA UnseenNames ==
  ASSUME UnseenInv, NEW t \in Txid, PrepareOpen(t) \/ Abort(t) \/ CommitRename(t)
  PROVE  /\ SafeNames(kernel'.names, Committed) /\ disk'.names = disk.names
         /\ kernel'.data = kernel.data /\ disk'.data = disk.data
         /\ SafeChanges(unwritten', Committed)
<1>1. Path # t /\ None \notin Txid
  BY DurabilityAssumption
<1>2. kernel \in Files /\ disk \in Files /\ unwritten \in Seq(Changes)
  BY DEF UnseenInv, DurTypeOK
<1>3. ASSUME NEW c \in Changes, SafeChange(c, Committed), unwritten' = Append(unwritten, c)
      PROVE  SafeChanges(unwritten', Committed)
  BY <1>2, <1>3, ChangesAppend DEF UnseenInv
<1>4. ASSUME NEW c \in Changes, SafeChange(c, Committed), Renames(c)
      PROVE  /\ SafeNames(kernel'.names, Committed)
             /\ kernel'.data = kernel.data
             /\ SafeChanges(unwritten', Committed)
  <2>1. kernel'.names = Changed(kernel.names, c) /\ kernel'.data = kernel.data
    BY <1>4, RenamesType DEF UnseenInv
  <2>2. SafeNames(Changed(kernel.names, c), Committed)
    BY <1>4, ChangedSafe DEF UnseenInv
  <2>3. SafeChanges(unwritten', Committed)
    BY <1>3, <1>4 DEF Renames
  <2> QED
    BY <2>1, <2>2, <2>3
<1>5. CASE PrepareOpen(t)
  <2> DEFINE c == [n \in {t} |-> t]
  <2>1. c \in Changes /\ SafeChange(c, Committed)
    BY <1>1, ChangesMade DEF SafeChange
  <2>2. Renames(c) /\ disk' = disk
    BY <1>5 DEF PrepareOpen
  <2> HIDE DEF c
  <2> QED
    BY <1>4, <2>1, <2>2
<1>6. CASE Abort(t)
  <2> DEFINE c == [n \in {t} |-> None]
             log == Append(kernel.log, [txid |-> t, state_t |-> "ABORT"])
  <2>1. c \in Changes /\ SafeChange(c, Committed)
    BY <1>1, ChangesMade DEF SafeChange
  <2>2. /\ kernel' = [kernel EXCEPT !.names[t] = None, !.log = log]
        /\ disk' = [disk EXCEPT !.log = log]
        /\ unwritten' = Append(unwritten, c)
    BY <1>6 DEF Abort, Fsync
  <2> HIDE DEF c, log
  <2>3. /\ kernel'.names = [kernel.names EXCEPT ![t] = None] /\ kernel'.data = kernel.data
        /\ disk'.names = disk.names /\ disk'.data = disk.data
    BY <1>2, <2>2 DEF Files
  <2>4. SafeNames(kernel'.names, Committed)
    BY <1>1, <1>2, <2>3 DEF SafeNames, UnseenInv, Files, Name
  <2> QED
    BY <1>3, <2>1, <2>2, <2>3, <2>4
<1>7. CASE CommitRename(t)
  <2>1. CASE kernel.names[t] = None
    <3>1. kernel' = kernel /\ disk' = disk /\ unwritten' = unwritten
      BY <1>7, <2>1 DEF CommitRename
    <3> QED
      BY <3>1 DEF UnseenInv
  <2>2. CASE kernel.names[t] # None
    <3> DEFINE c == [n \in {t, Path} |-> IF n = t THEN None ELSE kernel.names[t]]
    <3>1. kernel.names[t] = t /\ t \in Committed
      BY <1>7, <2>2 DEF UnseenInv, SafeNames, CommitRename, Committed
    <3>2. c = [n \in {t, Path} |-> IF n = t THEN None ELSE t]
      BY <3>1
    <3>3. c \in Changes /\ SafeChange(c, Committed)
      <4>1. c \in Changes
        BY <3>2, ChangesMade
      <4>2. DOMAIN c = {t, Path} /\ c[t] = None /\ c[Path] = t
        BY <1>1, <3>2
      <4> HIDE DEF c
      <4> QED
        BY DurabilityAssumption, <1>1, <3>1, <4>1, <4>2 DEF SafeChange
    <3>4. Renames(c) /\ disk' = disk
      BY <1>7, <2>2 DEF CommitRename
    <3> HIDE DEF c
    <3> QED
      BY <1>4, <3>3, <3>4
  <2> QED
    BY <2>1, <2>2
<1> QED
  BY <1>5, <1>6, <1>7

(* Every step keeps it. *)
LEMMA UnseenNext == UnseenInv /\ [DurNext]_durVars => UnseenInv'
<1> SUFFICES ASSUME UnseenInv, [DurNext]_durVars
             PROVE  UnseenInv'
  OBVIOUS
<1>1. DurTypeOK' /\ Committed \subseteq Committed'
  BY DurTypeNext, CommittedGrows DEF UnseenInv
<1>2. kernel \in Files /\ disk \in Files /\ unwritten \in Seq(Changes)
  BY DEF UnseenInv, DurTypeOK
<1>3. SUFFICES /\ SafeNames(kernel'.names, Committed) /\ SafeNames(disk'.names, Committed)
               /\ SafeData(kernel'.data, Committed) /\ SafeData(disk'.data, Committed)
               /\ SafeChanges(unwritten', Committed)
  BY <1>1, MoreCommitted DEF UnseenInv
<1>4. CASE UNCHANGED <<kernel, disk, unwritten>>
  BY <1>4 DEF UnseenInv
<1>5. CASE WriteBackName
  <2> DEFINE c == Head(unwritten)
  <2>1. /\ SafeChange(c, Committed)
        /\ \A n \in DOMAIN Tail(unwritten) :
             \E m \in DOMAIN unwritten : Tail(unwritten)[n] = unwritten[m]
    <3>1. /\ 1 \in DOMAIN unwritten /\ Head(unwritten) = unwritten[1]
          /\ \A n \in DOMAIN Tail(unwritten) :
               n + 1 \in DOMAIN unwritten /\ Tail(unwritten)[n] = unwritten[n + 1]
      BY <1>2, <1>5 DEF WriteBackName
    <3> QED
      BY <3>1 DEF UnseenInv, SafeChanges
  <2>2. /\ disk' = [disk EXCEPT !.names = Changed(disk.names, c)]
        /\ kernel' = kernel /\ unwritten' = Tail(unwritten)
    BY <1>5 DEF WriteBackName
  <2> HIDE DEF c
  <2>3. disk'.names = Changed(disk.names, c) /\ disk'.data = disk.data
    BY <1>2, <2>2 DEF Files
  <2>4. SafeNames(disk'.names, Committed)
    BY <2>1, <2>3, ChangedSafe DEF UnseenInv
  <2>5. SafeChanges(unwritten', Committed)
    BY <2>1, <2>2 DEF UnseenInv, SafeChanges
  <2> QED
    BY <2>2, <2>3, <2>4, <2>5 DEF UnseenInv
<1>6. CASE \E i \in Txid : WriteBackData(i)
  <2>1. PICK i \in Txid : WriteBackData(i)
    BY <1>6
  <2>2. /\ disk'.names = disk.names /\ kernel' = kernel /\ unwritten' = unwritten
        /\ disk'.data = [disk.data EXCEPT ![i] = kernel.data[i]]
    BY <1>2, <2>1 DEF WriteBackData, Files
  <2>3. SafeData(disk'.data, Committed)
    BY <1>2, <2>2 DEF UnseenInv, SafeData, Files
  <2> QED
    BY <2>2, <2>3 DEF UnseenInv
<1>7. CASE \E t \in Txid : PrepareWrite(t)
  <2>1. PICK t \in Txid : PrepareWrite(t)
    BY <1>7
  <2> DEFINE old == Read(kernel, Path)
             new == Append(old, t)
  <2>2. old \in Seq(Txid) /\ \A n \in DOMAIN old : old[n] \in Committed
    BY <1>2, ReadType, ReadSafe DEF UnseenInv, Name
  <2>3. \A n \in DOMAIN new : new[n] = t \/ new[n] \in Committed
    <3> HIDE DEF old
    <3> QED
      BY <2>2
  <2>4. kernel' = [kernel EXCEPT !.data[t] = new] /\ disk' = disk /\ unwritten' = unwritten
    BY <2>1 DEF PrepareWrite
  <2> HIDE DEF new
  <2>5. kernel'.names = kernel.names /\ kernel'.data = [kernel.data EXCEPT ![t] = new]
    BY <1>2, <2>4 DEF Files
  <2>6. SafeData(kernel'.data, Committed)
    BY <1>2, <2>3, <2>5 DEF UnseenInv, SafeData, Files
  <2> QED
    BY <2>4, <2>5, <2>6 DEF UnseenInv
<1>8. CASE \E t \in Txid : PrepareLog(t) \/ CommitLog(t)
  <2>1. PICK t \in Txid : PrepareLog(t) \/ CommitLog(t)
    BY <1>8
  <2>2. tx_db' \in [Txid -> State] /\ TpcLog(t) /\ unwritten' = unwritten
    BY <1>1, <2>1 DEF PrepareLog, CommitLog, DurTypeOK
  <2>3. /\ kernel'.names = kernel.names /\ disk'.names = disk.names
        /\ kernel'.data = kernel.data /\ disk'.data = disk.data
    BY <2>2, TpcLogType DEF UnseenInv
  <2> QED
    BY <2>2, <2>3 DEF UnseenInv
<1>9. CASE \E t \in Txid : PrepareOpen(t) \/ Abort(t) \/ CommitRename(t)
  BY <1>9, UnseenNames DEF UnseenInv
<1>10. CASE Kill \/ PowerFailure
  <2>1. kernel' \in {kernel, disk} /\ disk' = disk /\ unwritten' \in {unwritten, <<>>}
    BY <1>10 DEF Kill, PowerFailure, RestartFrom
  <2>2. SafeChanges(<<>>, Committed)
    BY DEF SafeChanges
  <2> QED
    BY <2>1, <2>2 DEF UnseenInv
<1>11. CASE \E t \in Txid : Decide(t)
  BY <1>4, <1>11 DEF Decide
<1> QED
  BY <1>4, <1>5, <1>6, <1>7, <1>8, <1>9, <1>10, <1>11 DEF DurNext, Handler, durVars

(* However much of its unsynced work a store loses or keeps in power         *)
(* failures, no buffer of a transaction that is not committed shows in the   *)
(* stored file, neither to the processes nor on the disk.                    *)
THEOREM UndecidedUnseenCorrect == DurSpec => []UndecidedUnseen
<1>1. DurInit => UnseenInv
  <2> SUFFICES ASSUME DurInit
               PROVE  UnseenInv
    OBVIOUS
  <2>1. DurTypeOK
    BY DEF DurInit, DurTypeOK, NoFiles, Files, State
  <2>2. SafeNames(NoFiles.names, Committed) /\ SafeData(NoFiles.data, Committed)
    BY DEF NoFiles, SafeNames, SafeData, Name
  <2>3. SafeChanges(<<>>, Committed)
    BY DEF SafeChanges
  <2> QED
    BY <2>1, <2>2, <2>3 DEF DurInit, UnseenInv
<1>2. UnseenInv /\ [DurNext]_durVars => UnseenInv'
  BY UnseenNext
<1>3. UnseenInv => UndecidedUnseen
  <2> SUFFICES ASSUME UnseenInv, NEW files \in {kernel, disk}, NEW n \in DOMAIN Read(files, Path)
               PROVE  decision[Read(files, Path)[n]] = "COMMIT"
    BY DEF UndecidedUnseen
  <2>1. Read(files, Path)[n] \in Committed
    BY ReadSafe DEF UnseenInv, DurTypeOK
  <2> QED
    BY <2>1 DEF Committed
<1> QED
  BY <1>1, <1>2, <1>3, PTL DEF DurSpec
=============================================================================
