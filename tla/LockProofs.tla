----------------------------- MODULE LockProofs -----------------------------
(***************************************************************************)
(* Proofs about the paths: that their locks are given back, for every      *)
(* schedule; and, where the calls for a path that is appended to wait for  *)
(* one another, that what was voted for can be carried out, and that no    *)
(* committed append is lost.  Handlers of one outcome may run beside one   *)
(* another, on any threads, and be cut short and made again: no premise    *)
(* says how many of them there are.                                        *)
(***************************************************************************)
EXTENDS DataProofs

-----------------------------------------------------------------------------
(* What the steps of a store do to its memory. *)

\* The memory of b but for the locks, the handlers of outcomes and the entries.
SamePrepares(b) ==
  /\ mem'[b].pc = mem[b].pc /\ mem'[b].fd = mem[b].fd
  /\ mem'[b].file_lock = mem[b].file_lock

SameLocks(b) == mem'[b].lock_db = mem[b].lock_db /\ mem'[b].lock = mem[b].lock

SameEntries(b) == mem'[b].tx_db = mem[b].tx_db /\ mem'[b].state_t = mem[b].state_t

(* A step of Prepare is one of its own call, and makes the entry at most. *)
LEMMA PrepareMoves ==
  ASSUME mem \in Processes, NEW b \in Backend, NEW s \in Store, PrepareStep(b, s),
         mem'[b] # NotRunning
  PROVE  /\ mem'[b].handlers = mem[b].handlers /\ mem'[b].status = mem[b].status
         /\ \/ SameEntries(b)
            \/ /\ PrepareInsert(b, s)
               /\ mem'[b].tx_db = [mem[b].tx_db EXCEPT ![TidOf[s]] = IF @ = None THEN s ELSE @]
               /\ mem'[b].state_t = [mem[b].state_t EXCEPT ![s] = "PREPARE"]
<1> DEFINE m == mem[b]
<1>1. m \in Memory
  BY DEF Processes
<1>2. \A x : Becomes(b, x) => mem'[b] = x
  BY DEF Becomes, Processes
<1>3. CASE PrepareLookup(b, s)
  <2>1. PICK x, y : mem'[b] = [m EXCEPT !.pc[s] = x, !.file_lock[s] = y]
    BY <1>2, <1>3 DEF PrepareLookup
  <2> QED
    BY <1>1, <2>1 DEF Memory, SameEntries
<1>4. CASE PrepareNewLock(b, s)
  <2>1. PICK d : mem'[b] = [m EXCEPT !.pc[s] = "insert", !.file_lock[s] = s, !.lock_db = d]
    BY <1>2, <1>4 DEF PrepareNewLock
  <2> QED
    BY <1>1, <2>1 DEF Memory, SameEntries
<1>5. CASE PrepareInsert(b, s)
  <2>1. PICK x : mem'[b] = [m EXCEPT !.pc[s] = x, !.state_t[s] = "PREPARE",
                                     !.tx_db[TidOf[s]] = IF @ = None THEN s ELSE @]
    BY <1>2, <1>5 DEF PrepareInsert
  <2> QED
    BY <1>1, <1>5, <2>1 DEF Memory
<1>6. CASE PrepareNullLock(b, s)
  BY <1>2, <1>6 DEF PrepareNullLock, ProcessEnd
<1>7. CASE PrepareOpen(b, s) \/ PrepareOpenFails(b, s)
  <2>1. PICK f : mem'[b] = [m EXCEPT !.pc[s] = "copy", !.fd = f]
    <3>1. CASE PrepareOpen(b, s)
      BY <1>2, <3>1 DEF PrepareOpen
    <3>2. CASE PrepareOpenFails(b, s)
      <4>1. mem'[b] = [m EXCEPT !.pc[s] = "copy"]
        BY <1>2, <3>2 DEF PrepareOpenFails
      <4>2. mem'[b] = [m EXCEPT !.pc[s] = "copy", !.fd = m.fd]
        BY <1>1, <4>1 DEF Memory
      <4> QED
        BY <4>2
    <3> QED
      BY <1>7, <3>1, <3>2
  <2> QED
    BY <1>1, <2>1 DEF Memory, SameEntries
<1>8. CASE PrepareCopy(b, s)
  <2>1. PICK locks, n : mem'[b] = [m EXCEPT !.pc[s] = "append", !.lock = locks, !.fd[s].offset = n]
    BY <1>2, <1>8 DEF PrepareCopy
  <2> QED
    BY <1>1, <2>1 DEF Memory, SameEntries
<1>9. CASE PrepareAppend(b, s) \/ PrepareWrLock(b, s)
  <2>1. PICK x, locks, f : mem'[b] = [m EXCEPT !.pc[s] = x, !.lock = locks, !.fd = f]
    <3>1. CASE PrepareAppend(b, s)
      BY <1>2, <3>1 DEF PrepareAppend
    <3>2. CASE PrepareWrLock(b, s)
      <4>1. PICK locks : mem'[b] = [m EXCEPT !.pc[s] = "log", !.lock = locks]
        BY <1>2, <3>2 DEF PrepareWrLock
      <4>2. mem'[b] = [m EXCEPT !.pc[s] = "log", !.lock = locks, !.fd = m.fd]
        BY <1>1, <4>1 DEF Memory
      <4> QED
        BY <4>2
    <3> QED
      BY <1>9, <3>1, <3>2
  <2> QED
    BY <1>1, <2>1 DEF Memory, SameEntries
<1>10. CASE PrepareLog(b, s) \/ PrepareLogFails(b, s)
  <2>1. PICK x : mem'[b] = [m EXCEPT !.pc[s] = "none", !.file_lock[s] = None, !.log_lock = x]
    BY <1>2, <1>10 DEF PrepareLog, PrepareLogFails, PrepareEnd
  <2> QED
    BY <1>1, <2>1 DEF Memory, SameEntries
<1> QED
  BY <1>3, <1>4, <1>5, <1>6, <1>7, <1>8, <1>9, <1>10 DEF PrepareStep

(* The beginning of a handler finds the entry, and inserts a lock if there is none. *)
LEMMA BeginMoves ==
  ASSUME mem \in Processes, NEW b \in Backend, NEW t \in Txid,
         AbortBegin(b, t) \/ CommitBegin(b, t)
  PROVE  /\ SamePrepares(b)
         /\ mem'[b].lock = mem[b].lock /\ mem'[b].tx_db = mem[b].tx_db
         /\ mem'[b].status = mem[b].status
         /\ \/ /\ SameLocks(b) /\ SameEntries(b)
               /\ mem'[b].handlers = mem[b].handlers
            \/ /\ mem[b].tx_db[t] # None
               /\ mem'[b].lock_db = [mem[b].lock_db EXCEPT ![PathOf[mem[b].tx_db[t]]] =
                                       LockLookup(b, mem[b].tx_db[t])]
               /\ \/ /\ AbortBegin(b, t)
                     /\ mem'[b].state_t = [mem[b].state_t EXCEPT ![mem[b].tx_db[t]] = "ABORT"]
                     /\ mem'[b].handlers = Enters(mem[b].handlers, "abort", t, "log")
                  \/ /\ CommitBegin(b, t)
                     /\ mem'[b].state_t = mem[b].state_t
                     /\ mem'[b].handlers = Enters(mem[b].handlers, "commit", t, "file")
<1> DEFINE m == mem[b]
           e == m.tx_db[t]
<1>1. m \in Memory
  BY DEF Processes
<1>2. \A x : Becomes(b, x) => mem'[b] = x
  BY DEF Becomes, Processes
<1> DEFINE Nothing == /\ SamePrepares(b) /\ SameLocks(b) /\ SameEntries(b)
                      /\ mem'[b].handlers = m.handlers /\ mem'[b].status = m.status
<1>3. CASE AbortBegin(b, t) /\ e = None
  <2>1. mem'[b] = m
    BY <1>3 DEF AbortBegin
  <2> QED
    BY <1>3, <2>1 DEF SamePrepares, SameLocks, SameEntries
<1>4. CASE AbortBegin(b, t) /\ e # None
  <2> DEFINE d == [m.lock_db EXCEPT ![PathOf[e]] = LockLookup(b, e)]
             x == [m.state_t EXCEPT ![e] = "ABORT"]
             h == Enters(m.handlers, "abort", t, "log")
  <2>1. mem'[b] = [m EXCEPT !.state_t = x, !.lock_db = d, !.handlers = h]
    <3>1. mem'[b] = [m EXCEPT !.state_t[e] = "ABORT", !.lock_db[PathOf[e]] = LockLookup(b, e),
                              !.handlers = Enters(@, "abort", t, "log")]
      BY <1>2, <1>4 DEF AbortBegin
    <3> QED
      BY <3>1
  <2> HIDE DEF e, d, x, h
  <2>2. /\ mem'[b].state_t = x /\ mem'[b].lock_db = d /\ mem'[b].handlers = h
        /\ SamePrepares(b) /\ mem'[b].lock = m.lock /\ mem'[b].tx_db = m.tx_db
        /\ mem'[b].status = m.status
    BY <1>1, <2>1 DEF Memory, SamePrepares
  <2> QED
    BY <1>4, <2>2 DEF e, d, x, h
<1>5. CASE CommitBegin(b, t) /\ ~(e # None /\ MayCommit(m.state_t[e]))
  <2>1. mem'[b] = [m EXCEPT !.exiting = TRUE]
    BY <1>2, <1>5 DEF CommitBegin
  <2> QED
    BY <1>1, <2>1 DEF Memory, SamePrepares, SameLocks, SameEntries
<1>6. CASE CommitBegin(b, t) /\ e # None /\ MayCommit(m.state_t[e])
  <2>1. PICK d, h :
          /\ mem'[b] = [m EXCEPT !.lock_db = d, !.handlers = h]
          /\ d = [m.lock_db EXCEPT ![PathOf[e]] = LockLookup(b, e)]
          /\ h = Enters(m.handlers, "commit", t, "file")
    BY <1>2, <1>6 DEF CommitBegin
  <2> HIDE DEF e
  <2>2. /\ mem'[b].state_t = m.state_t /\ mem'[b].lock_db = d /\ mem'[b].handlers = h
        /\ SamePrepares(b) /\ mem'[b].lock = m.lock /\ mem'[b].tx_db = m.tx_db
        /\ mem'[b].status = m.status
    BY <1>1, <2>1 DEF Memory, SamePrepares
  <2> QED
    BY <1>6, <2>1, <2>2 DEF e
<1> QED
  BY <1>3, <1>4, <1>5, <1>6

(* The next steps of a Commit. *)
LEMMA CommitMoves ==
  ASSUME mem \in Processes, NEW b \in Backend, NEW t \in Txid
  PROVE  /\ CommitFile(b, t) =>
              /\ SamePrepares(b) /\ SameLocks(b) /\ SameEntries(b)
              /\ mem'[b].status = mem[b].status
              /\ mem'[b].handlers = MovesOn(mem[b].handlers, "commit", t, "file", "state")
         /\ CommitState(b, t) =>
              /\ SamePrepares(b) /\ SameLocks(b)
              /\ mem'[b].status = mem[b].status
              /\ mem'[b].tx_db = mem[b].tx_db
              /\ mem'[b].state_t = [mem[b].state_t EXCEPT ![mem[b].tx_db[t]] = "COMMIT"]
              /\ mem'[b].handlers = MovesOn(mem[b].handlers, "commit", t, "state", "log")
<1> DEFINE m == mem[b]
           e == m.tx_db[t]
<1>1. m \in Memory
  BY DEF Processes
<1>2. \A x : Becomes(b, x) => mem'[b] = x
  BY DEF Becomes, Processes
<1>3. ASSUME CommitFile(b, t)
      PROVE  /\ SamePrepares(b) /\ SameLocks(b) /\ SameEntries(b)
             /\ mem'[b].status = m.status
             /\ mem'[b].handlers = MovesOn(m.handlers, "commit", t, "file", "state")
  <2>1. PICK h : /\ mem'[b] = [m EXCEPT !.handlers = h]
                 /\ h = MovesOn(m.handlers, "commit", t, "file", "state")
    BY <1>2, <1>3 DEF CommitFile
  <2>2. /\ SamePrepares(b) /\ SameLocks(b) /\ SameEntries(b)
        /\ mem'[b].status = m.status /\ mem'[b].handlers = h
    BY <1>1, <2>1 DEF Memory, SamePrepares, SameLocks, SameEntries
  <2> QED
    BY <2>1, <2>2
<1>4. ASSUME CommitState(b, t)
      PROVE  /\ SamePrepares(b) /\ SameLocks(b)
             /\ mem'[b].status = m.status /\ mem'[b].tx_db = m.tx_db
             /\ mem'[b].state_t = [m.state_t EXCEPT ![e] = "COMMIT"]
             /\ mem'[b].handlers = MovesOn(m.handlers, "commit", t, "state", "log")
  <2>1. PICK x, h : /\ mem'[b] = [m EXCEPT !.state_t = x, !.handlers = h]
                    /\ x = [m.state_t EXCEPT ![e] = "COMMIT"]
                    /\ h = MovesOn(m.handlers, "commit", t, "state", "log")
    BY <1>2, <1>4 DEF CommitState
  <2> HIDE DEF e
  <2>2. /\ SamePrepares(b) /\ SameLocks(b)
        /\ mem'[b].status = m.status /\ mem'[b].tx_db = m.tx_db
        /\ mem'[b].state_t = x /\ mem'[b].handlers = h
    BY <1>1, <2>1 DEF Memory, SamePrepares, SameLocks
  <2> QED
    BY <2>1, <2>2
<1> QED
  BY <1>3, <1>4

(* The end of a handler unlocks the lock of its path, or ends the process. *)
LEMMA EndMoves ==
  ASSUME mem \in Processes, NEW b \in Backend, NEW k \in Kind, NEW t \in Txid,
         LogAndUnlock(b, k, t) \/ LogFailsAndUnlock(b, k, t), mem'[b] # NotRunning
  PROVE  /\ SamePrepares(b) /\ SameEntries(b)
         /\ mem'[b].status = mem[b].status /\ mem'[b].lock_db = mem[b].lock_db
         /\ mem'[b].handlers = Leaves(mem[b].handlers, k, t, "log")
         /\ mem[b].lock_db[PathOf[mem[b].tx_db[t]]] # NULL
         /\ mem'[b].lock = [mem[b].lock EXCEPT ![mem[b].lock_db[PathOf[mem[b].tx_db[t]]]] =
                              UnlockOf(@)]
<1> DEFINE m == mem[b]
           l == m.lock_db[PathOf[m.tx_db[t]]]
<1>1. m \in Memory
  BY DEF Processes
<1>2. \A x : Becomes(b, x) => mem'[b] = x
  BY DEF Becomes, Processes
<1>3. PICK x : UnlockFile(b, k, t, x)
  BY DEF LogAndUnlock, LogFailsAndUnlock
<1>4. l # NULL
  BY <1>2, <1>3 DEF UnlockFile, ProcessEnd
<1>5. PICK locks, h, over :
        /\ mem'[b] = [m EXCEPT !.lock = locks, !.log_lock = x, !.handlers = h, !.exiting = over]
        /\ locks = [m.lock EXCEPT ![l] = UnlockOf(@)]
        /\ h = Leaves(m.handlers, k, t, "log")
  BY <1>2, <1>3, <1>4 DEF UnlockFile
<1> HIDE DEF l
<1>6. /\ SamePrepares(b) /\ SameEntries(b)
      /\ mem'[b].status = m.status /\ mem'[b].lock_db = m.lock_db
      /\ mem'[b].lock = locks /\ mem'[b].handlers = h
  BY <1>1, <1>5 DEF Memory, SamePrepares, SameEntries
<1> QED
  BY <1>4, <1>5, <1>6 DEF l

(* Whatever else a store does leaves its handlers; only Recover sets the entries. *)
LEMMA RestMoves ==
  ASSUME mem \in Processes, NEW b \in Backend, mem'[b] # NotRunning,
         \/ StoreStart(b) \/ StoreRecover(b) \/ Listen(b) \/ AskReturns(b)
         \/ Exit(b) \/ StoreCrash(b)
         \/ \E t \in Txid : AskAgain(b, t)
  PROVE  /\ SamePrepares(b)
         /\ mem'[b].handlers = mem[b].handlers
         /\ \/ SameLocks(b) /\ SameEntries(b)
            \/ /\ StoreRecover(b)
               /\ mem'[b].tx_db = [t \in Txid |-> LastRecord(b, t).req]
               /\ mem'[b].state_t = [s \in Store |-> IF LastRecord(b, TidOf[s]).req = s
                                       THEN LastRecord(b, TidOf[s]).state_t ELSE mem[b].state_t[s]]
               /\ mem'[b].lock_db = [p \in Path |-> RecoveredLock(b, p)]
               /\ mem'[b].lock = [s \in Store |-> IF RecoveredLock(b, PathOf[s]) = s
                                    THEN WrLocked(mem[b].lock[s], Main) ELSE mem[b].lock[s]]
<1> DEFINE m == mem[b]
<1>1. m \in Memory
  BY DEF Processes
<1>2. \A x : Becomes(b, x) => mem'[b] = x
  BY DEF Becomes, Processes
<1>3. CASE StoreRecover(b)
  <2> DEFINE u == IF Prepared(b) = {} THEN "up" ELSE "recovering"
             e == [t \in Txid |-> LastRecord(b, t).req]
             x == [s \in Store |-> IF LastRecord(b, TidOf[s]).req = s
                                     THEN LastRecord(b, TidOf[s]).state_t ELSE m.state_t[s]]
             d == [p \in Path |-> RecoveredLock(b, p)]
             l == [s \in Store |-> IF RecoveredLock(b, PathOf[s]) = s
                                     THEN WrLocked(m.lock[s], Main) ELSE m.lock[s]]
  <2>1. mem'[b] = [m EXCEPT !.status = u, !.tx_db = e, !.state_t = x, !.lock_db = d, !.lock = l]
    BY <1>2, <1>3 DEF StoreRecover
  <2> HIDE DEF u, e, x, d, l
  <2>2. /\ SamePrepares(b) /\ mem'[b].handlers = m.handlers
        /\ mem'[b].tx_db = e /\ mem'[b].state_t = x /\ mem'[b].lock_db = d /\ mem'[b].lock = l
    BY <1>1, <2>1 DEF Memory, SamePrepares
  <2> QED
    BY <1>3, <2>2 DEF e, x, d, l
<1>4. CASE StoreStart(b) \/ Listen(b) \/ AskReturns(b) \/ \E t \in Txid : AskAgain(b, t)
  <2>1. PICK x : mem'[b] = [m EXCEPT !.status = x] \/ mem'[b] = [m EXCEPT !.asking = x]
    BY <1>2, <1>4 DEF StoreStart, Listen, AskReturns, AskAgain
  <2> QED
    BY <1>1, <2>1 DEF Memory, SamePrepares, SameLocks, SameEntries
<1>5. ~(Exit(b) \/ StoreCrash(b))
  BY <1>2 DEF Exit, StoreCrash, ProcessEnd
<1> QED
  BY <1>3, <1>4, <1>5

-----------------------------------------------------------------------------
(***************************************************************************)
(* A path p that is only appended to.  A store is busy with a call while   *)
(* it executes its Prepare, and while it is in doubt about it; the calls   *)
(* for p wait for one another when a Prepare begins only where no call for *)
(* p is busy.  The lock of p would see to that, did handlers not overlap.  *)
(***************************************************************************)
OrderlyOn(p) == \A b \in Backend, s \in Store : PathOf[s] = p /\ PrepareLookup(b, s) => Waits(b, s)

Busy(b, s) == mem[b].pc[s] # "none" \/ s \in InDoubt(b)

OneBusy(b, p) ==
  \A s, r \in Store : PathOf[s] = p /\ PathOf[r] = p /\ Busy(b, s) /\ Busy(b, r) => s = r

\* No call for p is committed while b executes its Prepare.
NotMissed(b, p) ==
  \A s \in Store : PathOf[s] = p /\ TidOf[s] \in log => prep[s][b] \in {"none", "counted"}

(***************************************************************************)
(* The temporary file of a call is there as long as a Commit may ask for   *)
(* it, and has the buffer of the call; it also has every buffer that the   *)
(* stored file has, because nobody replaces that file before the outcome.  *)
(* Once a Commit has replaced it, the buffer stays in the stored file, and *)
(* another Commit of the call finds no temporary file.                     *)
(***************************************************************************)
Covers(b, s) == \A x \in Store : Holds(b, disk[b].file[PathOf[s]], x) => Holds(b, s, x)

\* A Prepare that writes is at the end of the file that it has created.
AtEnd(b, s) ==
  /\ mem[b].pc[s] \in Copying => mem[b].fd[s].inode = s
  /\ mem[b].pc[s] = "copy" => disk[b].data[s] = <<>>
  /\ mem[b].pc[s] = "append" => mem[b].fd[s].offset = Len(disk[b].data[s])

\* A Commit of s has come past the rename.
Renamed(b, s) ==
  \/ \E stage \in {"state", "log"} : At(b, "commit", TidOf[s], stage)
  \/ mem[b].tx_db[TidOf[s]] = s /\ mem[b].state_t[s] = "COMMIT"
  \/ Recorded(b, TidOf[s]) = "COMMIT"

InTemp(b, s) == disk[b].temp[TidOf[s]] = s
InFile(b, s) == Holds(b, disk[b].file[PathOf[s]], s)
HasAnswered(b, s) == prep[s][b] \in Answered

Kept(b, s) ==
  /\ mem[b].pc[s] \in {"copy", "append", "wrlock", "log"} => InTemp(b, s)
  /\ AtEnd(b, s)
  /\ mem[b].pc[s] \in {"wrlock", "log"} \/ HasAnswered(b, s) => Holds(b, s, s)
  /\ mem[b].pc[s] \in {"append", "wrlock", "log"} \/ (HasAnswered(b, s) /\ InTemp(b, s)) =>
       Covers(b, s)
  /\ HasAnswered(b, s) => InTemp(b, s) \/ InFile(b, s)
  /\ Renamed(b, s) => disk[b].temp[TidOf[s]] = None /\ InFile(b, s)

\* The stored file is one that a call for p has finished.
FileDone(b, p) ==
  LET f == disk[b].file[p] IN f # None => PathOf[f] = p /\ prep[f][b] \in Taken

Keeps(b, p) ==
  /\ OneBusy(b, p)
  /\ FileDone(b, p)
  /\ \A s \in Store : PathOf[s] = p /\ ~Over(s) => Kept(b, s)

KeepInv(p) == RefineInv /\ DataInv /\ \A b \in Backend : NotMissed(b, p) => Keeps(b, p)

(* A stored file that stays, and is not written to, has what it had. *)
LEMMA FileStays ==
  ASSUME NEW b \in Backend, NEW p \in Path, disk'[b].file[p] = disk[b].file[p],
         disk[b].file[p] # None => disk'[b].data[disk[b].file[p]] = disk[b].data[disk[b].file[p]]
  PROVE  \A x \in Store : Holds(b, disk[b].file[p], x)' <=> Holds(b, disk[b].file[p], x)
BY DEF Holds

(* A step that leaves the call and its files alone. *)
LEMMA KeptAlone ==
  ASSUME NEW b \in Backend, NEW s \in Store, Kept(b, s),
         \/ mem'[b].pc[s] = "none"
         \/ mem'[b].pc[s] = mem[b].pc[s] /\ mem'[b].fd[s] = mem[b].fd[s],
         HasAnswered(b, s)' => HasAnswered(b, s),
         disk'[b].temp[TidOf[s]] = disk[b].temp[TidOf[s]],
         disk'[b].data[s] = disk[b].data[s],
         \A x \in Store : Holds(b, disk[b].file[PathOf[s]], x)' <=>
                          Holds(b, disk[b].file[PathOf[s]], x),
         Renamed(b, s)' => Renamed(b, s)
  PROVE  Kept(b, s)'
<1>1. \A x \in Store : Holds(b, s, x)' <=> Holds(b, s, x)
  BY DEF Holds
<1>2. (InFile(b, s)' <=> InFile(b, s)) /\ (InTemp(b, s)' <=> InTemp(b, s))
  BY DEF InFile, InTemp
<1>3. (Covers(b, s)' <=> Covers(b, s)) /\ (Holds(b, s, s)' <=> Holds(b, s, s))
  BY <1>1 DEF Covers
<1>4. AtEnd(b, s)'
  BY DEF Kept, AtEnd, Copying
<1> QED
  BY <1>2, <1>3, <1>4 DEF Kept

(* A record that a store adds says what the entry of its call said. *)
LEMMA CommitOnRecord ==
  ASSUME DistinctTids, mem \in Processes, disk \in Files, NEW b \in Backend, StoreHolds(b),
         StoreKnows(b), BackendStep(b), NEW s \in Store, Recorded(b, TidOf[s])' = "COMMIT"
  PROVE  \/ mem[b].tx_db[TidOf[s]] = s /\ mem[b].state_t[s] = "COMMIT"
         \/ Recorded(b, TidOf[s]) = "COMMIT"
<1>1. TidOf[s] \in Txid
  BY RpcAssumption
<1>2. CASE disk'[b].store_log = disk[b].store_log
  BY <1>2 DEF Recorded, LastRecord
<1>3. CASE \E r \in Store : Records(b, mem[b].state_t[r], r)
  <2>1. PICK r \in Store : Records(b, mem[b].state_t[r], r)
    BY <1>3
  <2>2. Recorded(b, TidOf[s])' = IF TidOf[s] = TidOf[r] THEN mem[b].state_t[r]
                                 ELSE Recorded(b, TidOf[s])
    BY <1>1, <2>1 DEF Records, Adds, Recorded, LastRecord, Files, Disk
  <2> QED
    BY <2>1, <2>2 DEF Records, DistinctTids
<1> QED
  BY <1>2, <1>3, StepRecords

(* Only the rename brings a Commit past the rename. *)
NoRename(b) ==
  \/ \E s \in Store : PrepareStep(b, s)
  \/ StoreStart(b) \/ StoreRecover(b) \/ Listen(b) \/ AskReturns(b) \/ Exit(b) \/ StoreCrash(b)
  \/ \E t \in Txid : \/ AskAgain(b, t) \/ AbortBegin(b, t) \/ CommitBegin(b, t) \/ CommitState(b, t)
                     \/ \E k \in Kind : LogAndUnlock(b, k, t) \/ LogFailsAndUnlock(b, k, t)

(* So what is past it has been past it, or is the call whose file is renamed. *)
LEMMA RenamedBefore ==
  ASSUME DistinctTids, mem \in Processes, disk \in Files, NEW b \in Backend, StoreHolds(b),
         StoreKnows(b), BackendStep(b), NEW s \in Store, Renamed(b, s)'
  PROVE  /\ NoRename(b) => Renamed(b, s)
         /\ \A t \in Txid : CommitFile(b, t) => Renamed(b, s) \/ t = TidOf[s]
<1> DEFINE m == mem[b]
           u == TidOf[s]
           Past == At(b, "commit", u, "state") \/ At(b, "commit", u, "log")
           Marked == m.tx_db[u] = s /\ m.state_t[s] = "COMMIT"
<1>1. /\ u \in Txid /\ s # None /\ m.state_t \in [Store -> TxState]
      /\ m.tx_db \in [Txid -> Store \cup {None}]
  BY RpcAssumption DEF Processes, Memory
<1>2. "commit" \in Kind /\ "abort" \in Kind /\ {"file", "state", "log"} \subseteq Stage
  BY DEF Kind, Stage
<1>3. Renamed(b, s) <=> Past \/ Marked \/ Recorded(b, u) = "COMMIT"
  BY DEF Renamed
<1>4. Recorded(b, u)' = "COMMIT" => Renamed(b, s)
  BY CommitOnRecord DEF Renamed
<1>5. Past' \/ Marked' =>
        /\ NoRename(b) => Renamed(b, s)
        /\ \A t \in Txid : CommitFile(b, t) => Renamed(b, s) \/ t = u
  <2>1. CASE mem'[b] = NotRunning
    BY <1>1, <1>2, <2>1 DEF NotRunning, At
  <2>2. ASSUME NoneNew(b), Marked' => Marked
        PROVE  Past' \/ Marked' => Past \/ Marked
    BY <1>1, <1>2, <2>2 DEF NoneNew
  <2>3. mem'[b].handlers = m.handlers => NoneNew(b)
    BY <1>1, <1>2, HandlersMove
  <2>4. SameEntries(b) => (Marked' => Marked)
    BY DEF SameEntries
  <2>5. ASSUME NEW r \in Store, PrepareStep(b, r), mem'[b] # NotRunning
        PROVE  Past' \/ Marked' => Past \/ Marked
    <3>1. mem'[b].handlers = m.handlers
      BY <2>5, PrepareMoves
    <3>2. Marked' => Marked
      <4>1. CASE SameEntries(b)
        BY <2>4, <4>1
      <4>2. CASE /\ m'.tx_db = [m.tx_db EXCEPT ![TidOf[r]] = IF @ = None THEN r ELSE @]
                 /\ m'.state_t = [m.state_t EXCEPT ![r] = "PREPARE"]
        <5>1. CASE r = s
          BY <1>1, <4>2, <5>1
        <5>2. CASE r # s
          <6>1. TidOf[r] # u
            BY <5>2 DEF DistinctTids
          <6> QED
            BY <1>1, <4>2, <5>2, <6>1
        <5> QED
          BY <5>1, <5>2
      <4> QED
        BY <2>5, <4>1, <4>2, PrepareMoves
    <3> QED
      BY <2>2, <2>3, <3>1, <3>2
  <2>6. ASSUME NEW t \in Txid, AbortBegin(b, t) \/ CommitBegin(b, t)
        PROVE  Past' \/ Marked' => Past \/ Marked
    <3> DEFINE e == m.tx_db[t]
    <3>1. CASE SameEntries(b) /\ m'.handlers = m.handlers
      BY <2>2, <2>3, <2>4, <3>1
    <3>2. CASE /\ m'.state_t = [m.state_t EXCEPT ![e] = "ABORT"]
               /\ m'.handlers = Enters(m.handlers, "abort", t, "log")
      <4>1. OneNew(b, "abort", t, "log")
        BY <1>2, <3>2, HandlersMove
      <4>2. m'.tx_db = m.tx_db
        BY <2>6, BeginMoves
      <4>3. Marked' => Marked
        BY <1>1, <3>2, <4>2
      <4> QED
        BY <1>1, <1>2, <4>1, <4>3 DEF OneNew
    <3>3. CASE /\ m'.state_t = m.state_t
               /\ m'.handlers = Enters(m.handlers, "commit", t, "file")
      <4>1. OneNew(b, "commit", t, "file")
        BY <1>2, <3>3, HandlersMove
      <4>2. m'.tx_db = m.tx_db
        BY <2>6, BeginMoves
      <4> QED
        BY <1>1, <1>2, <3>3, <4>1, <4>2 DEF OneNew
    <3> QED
      BY <2>6, <3>1, <3>2, <3>3, BeginMoves
  <2>7. ASSUME NEW t \in Txid, CommitFile(b, t)
        PROVE  Past' \/ Marked' => Past \/ Marked \/ t = u
    <3>1. SameEntries(b) /\ m'.handlers = MovesOn(m.handlers, "commit", t, "file", "state")
      BY <2>7, CommitMoves
    <3>2. At(b, "commit", t, "file")
      BY <2>7 DEF CommitFile
    <3>3. OneNew(b, "commit", t, "state")
      BY <1>2, <3>1, <3>2, HandlersMove
    <3>4. Past' => Past \/ t = u
      BY <1>1, <1>2, <3>3 DEF OneNew
    <3> QED
      BY <2>4, <3>1, <3>4
  <2>8. ASSUME NEW t \in Txid, CommitState(b, t)
        PROVE  Past' \/ Marked' => Past \/ Marked
    <3> DEFINE e == m.tx_db[t]
    <3>1. /\ m'.tx_db = m.tx_db /\ m'.state_t = [m.state_t EXCEPT ![e] = "COMMIT"]
          /\ m'.handlers = MovesOn(m.handlers, "commit", t, "state", "log")
      BY <2>8, CommitMoves
    <3>2. At(b, "commit", t, "state")
      BY <2>8 DEF CommitState
    <3>3. OneNew(b, "commit", t, "log")
      BY <1>2, <3>1, <3>2, HandlersMove
    <3>4. Past' => Past
      BY <1>1, <1>2, <3>2, <3>3 DEF OneNew
    <3>5. e = s => t = u
      BY <1>1 DEF StoreHolds, EntriesHold
    <3>6. Marked' => Marked \/ e = s
      BY <1>1, <3>1
    <3> QED
      BY <3>2, <3>4, <3>5, <3>6
  <2>9. ASSUME NEW t \in Txid, NEW k \in Kind, LogAndUnlock(b, k, t) \/ LogFailsAndUnlock(b, k, t),
               mem'[b] # NotRunning
        PROVE  Past' \/ Marked' => Past \/ Marked
    <3>1. SameEntries(b) /\ m'.handlers = Leaves(m.handlers, k, t, "log")
      BY <2>9, EndMoves
    <3>2. At(b, k, t, "log")
      BY <2>9 DEF LogAndUnlock, LogFailsAndUnlock
    <3>3. NoneNew(b)
      BY <1>2, <3>1, <3>2, HandlersMove
    <3> QED
      BY <2>2, <2>4, <3>1, <3>3
  <2>10. ASSUME \/ StoreStart(b) \/ StoreRecover(b) \/ Listen(b) \/ AskReturns(b)
                \/ Exit(b) \/ StoreCrash(b)
                \/ \E t \in Txid : AskAgain(b, t),
                mem'[b] # NotRunning
         PROVE  Past' \/ Marked' => Past \/ Marked \/ Recorded(b, u) = "COMMIT"
    <3>1. m'.handlers = m.handlers
      BY <2>10, RestMoves
    <3>2. CASE SameEntries(b)
      BY <2>2, <2>3, <2>4, <3>1, <3>2
    <3>3. CASE /\ m'.tx_db = [t \in Txid |-> LastRecord(b, t).req]
               /\ m'.state_t = [r \in Store |-> IF LastRecord(b, TidOf[r]).req = r
                                  THEN LastRecord(b, TidOf[r]).state_t ELSE m.state_t[r]]
      <4>1. Marked' => Recorded(b, u) = "COMMIT"
        BY <1>1, <3>3 DEF Recorded
      <4>2. Past' => Past
        BY <1>1, <1>2, <2>3, <3>1 DEF NoneNew
      <4> QED
        BY <4>1, <4>2
    <3> QED
      BY <2>10, <3>2, <3>3, RestMoves
  <2> HIDE DEF Past, Marked
  <2> QED
    BY <1>3, <2>1, <2>5, <2>6, <2>7, <2>8, <2>9, <2>10 DEF NoRename
<1> QED
  BY <1>4, <1>5 DEF Renamed

(* A step of Prepare leaves the other calls alone, and the stored files. *)
LEMMA PrepareElsewhere ==
  ASSUME DistinctTids, mem \in Processes, disk \in Files, NEW b \in Backend, DataHolds(b),
         UNCHANGED log, NEW s \in Store, PrepareStep(b, s)
  PROVE  /\ \A r \in Store \ {s} :
              /\ \/ mem'[b].pc[r] = "none"
                 \/ mem'[b].pc[r] = mem[b].pc[r] /\ mem'[b].fd[r] = mem[b].fd[r]
              /\ disk'[b].data[r] = disk[b].data[r]
              /\ disk'[b].temp[TidOf[r]] = disk[b].temp[TidOf[r]]
         /\ disk'[b].file = disk[b].file
<1>1. mem[b] \in Memory /\ disk[b] \in Disk
  BY DEF Processes, Files
<1>2. \A m : Becomes(b, m) => mem'[b] = m
  BY DEF Becomes, Processes
<1>3. \A r \in Store \ {s} : TidOf[r] # TidOf[s] /\ TidOf[r] \in Txid
  BY RpcAssumption DEF DistinctTids
<1> DEFINE Mine == \A r \in Store \ {s} : mem'[b].fd[r] = mem[b].fd[r]
           Ours == /\ \A r \in Store \ {s} : /\ disk'[b].data[r] = disk[b].data[r]
                                             /\ disk'[b].temp[TidOf[r]] = disk[b].temp[TidOf[r]]
                   /\ disk'[b].file = disk[b].file
<1>4. ASSUME NEW new \in Buffers, Write(b, s, new), mem[b].pc[s] \in Copying,
             \A i \in DOMAIN new : Clean(s, new[i])
      PROVE  Ours
  <2>1. Len(disk[b].data[s]) \in Nat
    BY <1>1 DEF Disk
  <2>2. /\ mem[b].fd[s].inode \in {None, s}
        /\ mem[b].fd[s].inode # None => mem[b].fd[s].offset <= Len(disk[b].data[s])
    BY <1>4, <2>1 DEF DataHolds, OffsetsHold, Copying
  <2> QED
    BY <1>4, <2>2, WriteClean DEF DataHolds
<1>12. \/ mem'[b] = NotRunning
       \/ \A r \in Store \ {s} : mem'[b].pc[r] = mem[b].pc[r]
  <2>1. \/ mem'[b] = NotRunning
        \/ \E x : mem'[b].pc = [mem[b].pc EXCEPT ![s] = x]
    BY PreparePc
  <2> QED
    BY <1>1, <2>1 DEF Memory
<1>13. CASE mem'[b] = NotRunning /\ Ours
  BY <1>13 DEF NotRunning
<1>14. CASE Mine /\ Ours /\ mem'[b] # NotRunning
  BY <1>12, <1>14
<1>5. CASE PrepareLookup(b, s) \/ PrepareNewLock(b, s) \/ PrepareInsert(b, s)
  <2>1. mem'[b].fd = mem[b].fd
    BY ZenonT(60), <1>1, <1>2, <1>5 DEF PrepareLookup, PrepareNewLock, PrepareInsert, Memory
  <2> QED
    BY <1>5, <1>13, <1>14, <2>1 DEF PrepareLookup, PrepareNewLock, PrepareInsert
<1>6. CASE PrepareNullLock(b, s)
  BY <1>2, <1>6, <1>13 DEF PrepareNullLock, ProcessEnd
<1>7. CASE PrepareOpen(b, s)
  <2>1. /\ Becomes(b, [mem[b] EXCEPT !.pc[s] = "copy", !.fd[s] = [inode |-> s, offset |-> 0]])
        /\ disk'[b].file = disk[b].file
        /\ \A u \in Txid : disk'[b].temp[u] = IF u = TidOf[s] THEN s ELSE disk[b].temp[u]
        /\ \A r \in Store : disk'[b].data[r] = IF r = s THEN <<>> ELSE disk[b].data[r]
    BY <1>7, OpenFiles DEF DataHolds
  <2>2. Mine
    <3>1. mem'[b] = [mem[b] EXCEPT !.pc[s] = "copy", !.fd[s] = [inode |-> s, offset |-> 0]]
      BY <1>2, <2>1
    <3>2. mem'[b].fd = [mem[b].fd EXCEPT ![s] = [inode |-> s, offset |-> 0]]
      BY <1>1, <3>1 DEF Memory
    <3> QED
      BY <1>1, <3>2 DEF Memory
  <2>3. Ours
    BY <1>3, <2>1
  <2> QED
    BY <1>13, <1>14, <2>2, <2>3
<1>8. CASE PrepareOpenFails(b, s) \/ PrepareWrLock(b, s)
  <2>1. mem'[b].fd = mem[b].fd
    BY ZenonT(60), <1>1, <1>2, <1>8 DEF PrepareOpenFails, PrepareWrLock, Memory
  <2> QED
    BY <1>8, <1>13, <1>14, <2>1 DEF PrepareOpenFails, PrepareWrLock
<1>9. CASE PrepareCopy(b, s)
  <2>1. PICK copied \in Attempts(Content(b, PathOf[s])) :
          /\ Write(b, s, copied)
          /\ Becomes(b, [mem[b] EXCEPT
               !.pc[s] = "append",
               !.lock[mem[b].file_lock[s]] = RdLocked(@, StoreThread[s]),
               !.fd[s].offset = Len(copied)])
    BY <1>9 DEF PrepareCopy
  <2>2. mem[b].pc[s] \in Copying
    BY <1>9 DEF PrepareCopy, Preparing, Copying
  <2>3. Ours
    BY <1>4, <2>1, <2>2, CopiedClean DEF DataHolds
  <2>4. Mine
    <3>1. PICK lock : mem'[b] = [mem[b] EXCEPT !.pc[s] = "append",
                                               !.lock[mem[b].file_lock[s]] = lock,
                                               !.fd[s].offset = Len(copied)]
      BY <1>2, <2>1
    <3>2. mem'[b].fd = [mem[b].fd EXCEPT ![s].offset = Len(copied)]
      BY <1>1, <3>1 DEF Memory
    <3> QED
      BY <1>1, <3>2 DEF Memory
  <2> QED
    BY <1>13, <1>14, <2>3, <2>4
<1>10. CASE PrepareAppend(b, s)
  <2>1. PICK new \in Attempts(<<s>>) : Write(b, s, new)
    BY <1>10 DEF PrepareAppend
  <2>2. mem[b].pc[s] \in Copying
    BY <1>10 DEF PrepareAppend, Preparing, Copying
  <2>3. Ours
    BY <1>4, <2>1, <2>2, AppendedClean
  <2>4. Mine
    <3>1. PICK lock : mem'[b] = [mem[b] EXCEPT !.pc[s] = "wrlock",
                                               !.lock[mem[b].file_lock[s]] = lock,
                                               !.fd[s] = [inode |-> None, offset |-> 0]]
      BY <1>2, <1>10 DEF PrepareAppend
    <3>2. mem'[b].fd = [mem[b].fd EXCEPT ![s] = [inode |-> None, offset |-> 0]]
      BY <1>1, <3>1 DEF Memory
    <3> QED
      BY <1>1, <3>2 DEF Memory
  <2> QED
    BY <1>13, <1>14, <2>3, <2>4
<1>11. CASE PrepareLog(b, s) \/ PrepareLogFails(b, s)
  <2>1. mem'[b].fd = mem[b].fd
    BY <1>1, <1>2, <1>11 DEF PrepareLog, PrepareLogFails, PrepareEnd, Memory
  <2>2. Ours
    BY <1>1, <1>11 DEF PrepareLog, PrepareLogFails, Logged, Files, Disk
  <2> QED
    BY <1>13, <1>14, <2>1, <2>2
<1> QED
  BY <1>5, <1>6, <1>7, <1>8, <1>9, <1>10, <1>11 DEF PrepareStep

(* What it does to its own call: the file that it opens gets a copy of the *)
(* stored file, and then the buffer of the call.                           *)
LEMMA OpenKeeps ==
  ASSUME DistinctTids, mem \in Processes, disk \in Files, NEW b \in Backend, DataHolds(b),
         NEW s \in Store, PrepareOpen(b, s)
  PROVE  /\ mem'[b].pc[s] = "copy" /\ mem'[b].fd[s].inode = s
         /\ disk'[b].temp[TidOf[s]] = s /\ disk'[b].data[s] = <<>>
<1>1. /\ Becomes(b, [mem[b] EXCEPT !.pc[s] = "copy", !.fd[s] = [inode |-> s, offset |-> 0]])
      /\ disk'[b].file = disk[b].file
      /\ \A u \in Txid : disk'[b].temp[u] = IF u = TidOf[s] THEN s ELSE disk[b].temp[u]
      /\ \A r \in Store : disk'[b].data[r] = IF r = s THEN <<>> ELSE disk[b].data[r]
  BY OpenFiles DEF DataHolds
<1>2. mem'[b].pc[s] = "copy" /\ mem'[b].fd[s].inode = s
  <2>1. mem'[b] = [mem[b] EXCEPT !.pc[s] = "copy", !.fd[s] = [inode |-> s, offset |-> 0]]
    BY <1>1 DEF Becomes, Processes
  <2> QED
    BY <2>1 DEF Processes, Memory
<1> QED
  BY <1>1, <1>2, RpcAssumption

(* The copy: every buffer of the stored file, and nothing else. *)
LEMMA CopyKeeps ==
  ASSUME StoreWriteMayFail = FALSE, mem \in Processes, disk \in Files, NEW b \in Backend,
         DataHolds(b), NEW s \in Store, AtEnd(b, s), PrepareCopy(b, s)
  PROVE  /\ mem'[b].pc[s] = "append" /\ mem'[b].fd[s].inode = s
         /\ mem'[b].fd[s].offset = Len(disk'[b].data[s])
         /\ disk'[b].temp = disk[b].temp /\ disk'[b].file = disk[b].file
         /\ disk'[b].data[s] = Content(b, PathOf[s])
<1> DEFINE new == Content(b, PathOf[s])
<1>1. /\ mem[b].pc[s] = "copy" /\ mem[b].fd[s].inode = s /\ mem[b].fd[s].offset = 0
      /\ disk[b].data[s] = <<>> /\ s # None
  BY RpcAssumption DEF PrepareCopy, Preparing, AtEnd, DataHolds, OffsetsHold, Copying
<1>2. /\ Write(b, s, new)
      /\ \E lock : mem'[b] = [mem[b] EXCEPT !.pc[s] = "append",
                                            !.lock[mem[b].file_lock[s]] = lock,
                                            !.fd[s].offset = Len(new)]
  <2>1. Attempts(new) = {new}
    BY DEF Attempts
  <2>2. \E copied \in Attempts(new) :
          /\ Write(b, s, copied)
          /\ Becomes(b, [mem[b] EXCEPT
               !.pc[s] = "append",
               !.lock[mem[b].file_lock[s]] = RdLocked(@, StoreThread[s]),
               !.fd[s].offset = Len(copied)])
    BY DEF PrepareCopy
  <2> QED
    BY <2>1, <2>2 DEF Becomes, Processes
<1>3. new \in Buffers
  <2>1. PathOf[s] \in Path
    BY BackendAssumption
  <2> QED
    BY <2>1 DEF Content, Files, Disk, Buffers
<1>4. Written(<<>>, 0, new) = new
  <2>1. new \in Seq(Store \cup {None}) /\ Len(new) \in Nat
    BY <1>3 DEF Buffers
  <2> HIDE DEF new
  <2>2. Written(<<>>, 0, new) = [i \in 1 .. Len(new) |-> new[i]]
    BY <2>1 DEF Written
  <2> QED
    BY <2>1, <2>2
<1>5. disk'[b].data = [disk[b].data EXCEPT ![s] = new]
      /\ disk'[b].temp = disk[b].temp /\ disk'[b].file = disk[b].file
  <2>1. disk' = [disk EXCEPT ![b].data[s] = Written(@, 0, new)]
    BY <1>1, <1>2 DEF Write
  <2> HIDE DEF new
  <2>2. disk' = [disk EXCEPT ![b].data[s] = new]
    BY <1>1, <1>4, <2>1
  <2> QED
    BY <2>2 DEF Files, Disk
<1>6. mem'[b].pc[s] = "append" /\ mem'[b].fd[s].inode = s /\ mem'[b].fd[s].offset = Len(new)
  <2> HIDE DEF new
  <2>1. mem'[b].pc = [mem[b].pc EXCEPT ![s] = "append"]
        /\ mem'[b].fd = [mem[b].fd EXCEPT ![s].offset = Len(new)]
    BY <1>2 DEF Processes, Memory
  <2>2. mem'[b].fd[s] = [mem[b].fd[s] EXCEPT !.offset = Len(new)]
    BY <2>1 DEF Processes, Memory
  <2> QED
    BY <1>1, <2>1, <2>2 DEF Processes, Memory
<1>7. disk'[b].data[s] = new
  <2> HIDE DEF new
  <2> QED
    BY <1>5 DEF Files, Disk
<1> QED
  BY <1>5, <1>6, <1>7

(* The append: the buffer of the call, after what was copied. *)
LEMMA AppendKeeps ==
  ASSUME StoreWriteMayFail = FALSE, mem \in Processes, disk \in Files, NEW b \in Backend,
         DataHolds(b), NEW s \in Store, AtEnd(b, s), PrepareAppend(b, s)
  PROVE  /\ mem'[b].pc[s] = "wrlock"
         /\ disk'[b].temp = disk[b].temp /\ disk'[b].file = disk[b].file
         /\ Holds(b, s, s)'
         /\ \A x \in Store : Holds(b, s, x) => Holds(b, s, x)'
<1> DEFINE old == disk[b].data[s]
           new == Written(old, Len(old), <<s>>)
<1>1. /\ mem[b].pc[s] = "append" /\ mem[b].fd[s].inode = s
      /\ mem[b].fd[s].offset = Len(old) /\ s # None
  BY RpcAssumption DEF PrepareAppend, Preparing, AtEnd, Copying
<1>2. Write(b, s, <<s>>)
  <2>1. Attempts(<<s>>) = {<<s>>}
    BY DEF Attempts
  <2> QED
    BY <2>1 DEF PrepareAppend
<1>3. old \in Seq(Store \cup {None}) /\ Len(old) \in Nat
  BY DEF Files, Disk
<1>4. new = Append(old, s)
  <2> HIDE DEF old
  <2>1. Len(<<s>>) = 1 /\ <<s>>[1] = s
    OBVIOUS
  <2>2. new = [i \in 1 .. Len(old) + 1 |-> IF i = Len(old) + 1 THEN s ELSE old[i]]
    BY <1>3, <2>1 DEF Written
  <2> QED
    BY <1>3, <2>2
<1>5. /\ disk'[b].data = [disk[b].data EXCEPT ![s] = Append(old, s)]
      /\ disk'[b].temp = disk[b].temp /\ disk'[b].file = disk[b].file
  <2>1. disk' = [disk EXCEPT ![b].data[s] = new]
    BY <1>1, <1>2 DEF Write
  <2> HIDE DEF new, old
  <2> QED
    BY <1>4, <2>1 DEF Files, Disk
<1>6. disk'[b].data[s] = Append(old, s)
  <2> HIDE DEF new, old
  <2> QED
    BY <1>5 DEF Files, Disk
<1>7. /\ \A i \in DOMAIN old : i \in DOMAIN Append(old, s) /\ Append(old, s)[i] = old[i]
      /\ Len(old) + 1 \in DOMAIN Append(old, s) /\ Append(old, s)[Len(old) + 1] = s
  <2> HIDE DEF old
  <2> QED
    BY <1>3
<1>8. mem'[b].pc[s] = "wrlock"
  BY DEF PrepareAppend, Becomes, Processes, Memory
<1> QED
  BY <1>1, <1>5, <1>6, <1>7, <1>8 DEF Holds

-----------------------------------------------------------------------------
(* A call is executed before it is decided, and renamed only afterwards. *)
LEMMA Undecided ==
  ASSUME NEW b \in Backend, NEW p \in Path, NotMissed(b, p), HandlersHold(b),
         NEW s \in Store, PathOf[s] = p, mem[b].pc[s] # "none" \/ PrepareStep(b, s)
  PROVE  TidOf[s] \notin log /\ prep[s][b] \in {"sent", "taken"}
<1>1. mem[b].pc[s] # "none" \/ PrepareLookup(b, s)
  BY DEF PrepareStep, Preparing, PrepareNewLock, PrepareInsert, PrepareNullLock, PrepareOpen,
     PrepareOpenFails, PrepareCopy, PrepareAppend, PrepareWrLock, PrepareLog, PrepareLogFails
<1>2. prep[s][b] \in {"sent", "taken"}
  BY <1>1 DEF HandlersHold, PrepareLookup, Arrives
<1> QED
  BY <1>2 DEF NotMissed

(* A Commit that is past the rename is one of a call that was committed. *)
LEMMA RenamedLogged ==
  ASSUME NEW b \in Backend, StoreKnows(b), NEW s \in Store, Renamed(b, s),
         Recorded(b, TidOf[s]) = "COMMIT" => TidOf[s] \in log
  PROVE  TidOf[s] \in log
<1>1. TidOf[s] \in Txid /\ {"state", "log"} \subseteq Stage
  BY RpcAssumption DEF Stage
<1>2. ASSUME NEW stage \in {"state", "log"}, At(b, "commit", TidOf[s], stage)
      PROVE  TidOf[s] \in log
  BY <1>1, <1>2 DEF StoreKnows, CommitsRight
<1>3. mem[b].state_t[s] = "COMMIT" => TidOf[s] \in log
  BY DEF StoreKnows, EntriesRight, Right
<1> QED
  BY <1>2, <1>3 DEF Renamed

(* A store becomes busy with a call when it begins its Prepare. *)
LEMMA BusyBefore ==
  ASSUME mem \in Processes, disk \in Files, NEW b \in Backend, StoreHolds(b), StoreKnows(b),
         BackendStep(b), NEW s \in Store, Busy(b, s)'
  PROVE  Busy(b, s) \/ PrepareLookup(b, s)
<1>1. TidOf[s] \in Txid
  BY RpcAssumption
<1>2. ASSUME mem'[b].pc[s] # "none"
      PROVE  mem[b].pc[s] # "none" \/ PrepareLookup(b, s)
  <2>1. mem'[b] # NotRunning
    BY <1>2 DEF NotRunning
  <2>2. CASE \E r \in Store : PrepareStep(b, r)
    <3>1. PICK r \in Store : PrepareStep(b, r)
      BY <2>2
    <3>2. r # s => mem'[b].pc[s] = mem[b].pc[s]
      <4>1. \E x : mem'[b].pc = [mem[b].pc EXCEPT ![r] = x]
        BY <2>1, <3>1, PreparePc
      <4> QED
        BY <4>1 DEF Processes, Memory
    <3>3. r = s => mem[b].pc[s] # "none" \/ PrepareLookup(b, s)
      BY <3>1 DEF PrepareStep, Preparing, PrepareNewLock, PrepareInsert, PrepareNullLock,
         PrepareOpen, PrepareOpenFails, PrepareCopy, PrepareAppend, PrepareWrLock, PrepareLog,
         PrepareLogFails
    <3> QED
      BY <1>2, <3>2, <3>3
  <2>3. CASE ~\E r \in Store : PrepareStep(b, r)
    <3>1. mem'[b].pc = mem[b].pc
      BY <2>1, <2>3, PcKept DEF BackendStep
    <3> QED
      BY <1>2, <3>1
  <2> QED
    BY <2>2, <2>3
<1>3. ASSUME s \in InDoubt(b)'
      PROVE  s \in InDoubt(b) \/ mem[b].pc[s] # "none"
  <2>1. LastRecord(b, TidOf[s])' = [state_t |-> "PREPARE", req |-> s]
    BY <1>3 DEF InDoubt
  <2>2. CASE disk'[b].store_log = disk[b].store_log
    BY <2>1, <2>2 DEF InDoubt, LastRecord
  <2>3. ASSUME NEW r \in Store, Records(b, mem[b].state_t[r], r), mem[b].state_t[r] # "PREPARE"
        PROVE  s \in InDoubt(b)
    <3>1. LastRecord(b, TidOf[s])' = IF TidOf[s] = TidOf[r]
                                       THEN [state_t |-> mem[b].state_t[r], req |-> r]
                                       ELSE LastRecord(b, TidOf[s])
      BY <1>1, <2>3 DEF Records, Adds, LastRecord, Files, Disk
    <3> QED
      BY <2>1, <2>3, <3>1 DEF InDoubt
  <2>4. ASSUME NEW r \in Store, PrepareStep(b, r)
        PROVE  s \in InDoubt(b) \/ mem[b].pc[s] # "none"
    <3>1. CASE PrepareLog(b, r)
      <4>1. Adds(b, mem[b].state_t[r], r) /\ mem[b].pc[r] = "log"
        BY <2>4, <3>1, PrepareRecords DEF Records, PrepareLog, Preparing
      <4>2. LastRecord(b, TidOf[s])' = IF TidOf[s] = TidOf[r]
                                         THEN [state_t |-> mem[b].state_t[r], req |-> r]
                                         ELSE LastRecord(b, TidOf[s])
        BY <1>1, <4>1 DEF Adds, LastRecord, Files, Disk
      <4> QED
        BY <2>1, <4>1, <4>2 DEF InDoubt
    <3>2. CASE ~PrepareLog(b, r)
      BY <2>2, <2>4, <3>2, PrepareRecords
    <3> QED
      BY <3>1, <3>2
  <2>5. ASSUME NEW k \in Kind, NEW t \in Txid, LogAndUnlock(b, k, t)
        PROVE  s \in InDoubt(b)
    <3>1. PICK r \in Store : TidOf[r] = t /\ Records(b, mem[b].state_t[r], r)
      BY <2>5, HalfwayRecords
    <3>2. mem[b].state_t[mem[b].tx_db[t]] # "PREPARE"
      BY <2>5 DEF LogAndUnlock, StoreKnows, Settled
    <3>3. mem[b].tx_db[t] = r
      BY <3>1 DEF Records
    <3> QED
      BY <2>3, <3>1, <3>2, <3>3
  <2> QED
    BY <2>2, <2>4, <2>5, OtherRecords DEF BackendStep, OutcomeStep
<1> QED
  BY <1>2, <1>3 DEF Busy

(* While the calls for a path wait for one another, one at most is busy. *)
LEMMA OneBusyKept ==
  ASSUME RpcTypeOK, mem \in Processes, disk \in Files, NEW b \in Backend, StoreHolds(b),
         StoreKnows(b), BackendStep(b), NEW p \in Path, OrderlyOn(p), OneBusy(b, p)
  PROVE  OneBusy(b, p)'
<1> SUFFICES ASSUME NEW s \in Store, NEW r \in Store, PathOf[s] = p, PathOf[r] = p,
                    Busy(b, s)', Busy(b, r)', s # r
             PROVE  FALSE
  BY DEF OneBusy
<1>1. \A x \in Store : Busy(b, x)' => Busy(b, x) \/ PrepareLookup(b, x)
  BY BusyBefore
<1>2. ASSUME NEW x \in Store, NEW y \in Store, PathOf[x] = p, PathOf[y] = p, x # y,
             PrepareLookup(b, x), Busy(b, y)'
      PROVE  FALSE
  <2>1. ~Busy(b, y)
    BY <1>2 DEF OrderlyOn, Waits, Busy
  <2>2. PrepareLookup(b, y)
    BY <1>1, <1>2, <2>1
  <2>3. prep[y][b] = "sent" /\ prep'[y][b] = "taken"
    BY <2>2 DEF PrepareLookup, Arrives, SetPrep, RpcTypeOK
  <2>4. prep'[y][b] = prep[y][b]
    BY <1>2 DEF PrepareLookup, SetPrep, RpcTypeOK
  <2> QED
    BY <2>3, <2>4
<1> QED
  BY <1>1, <1>2 DEF OneBusy

-----------------------------------------------------------------------------
(* What a step of Prepare does to its own call, which is not decided yet. *)
LEMMA OwnKept ==
  ASSUME DistinctTids, StoreWriteMayFail = FALSE, mem \in Processes, disk \in Files,
         NEW b \in Backend, DataHolds(b), NEW s \in Store, PrepareStep(b, s), Kept(b, s),
         OpOf[s] = "store", ~Renamed(b, s)', disk'[b].file = disk[b].file,
         HasAnswered(b, s)' => PrepareLog(b, s),
         \A x \in Store : Holds(b, disk[b].file[PathOf[s]], x)' <=>
                          Holds(b, disk[b].file[PathOf[s]], x)
  PROVE  Kept(b, s)'
<1>1. mem[b] \in Memory /\ disk[b] \in Disk /\ s # None
  BY RpcAssumption DEF Processes, Files
<1>2. \A m : Becomes(b, m) => mem'[b] = m
  BY DEF Becomes, Processes
<1>3. AtEnd(b, s)
  BY DEF Kept
<1>4. CASE PrepareLookup(b, s) \/ PrepareNewLock(b, s) \/ PrepareInsert(b, s)
  <2>1. PICK x \in {"lookup", "insert", "open"} : mem'[b].pc = [mem[b].pc EXCEPT ![s] = x]
    BY ZenonT(60), <1>1, <1>2, <1>4 DEF PrepareLookup, PrepareNewLock, PrepareInsert, Memory
  <2>2. mem'[b].pc[s] \in {"lookup", "insert", "open"}
    BY <1>1, <2>1 DEF Memory
  <2>3. ~HasAnswered(b, s)'
    BY <1>4 DEF PrepareLog, PrepareLookup, PrepareNewLock, PrepareInsert, Preparing
  <2> QED
    BY <2>2, <2>3 DEF Kept, AtEnd, Copying
<1>5. CASE PrepareNullLock(b, s)
  <2>1. mem'[b].pc[s] = "none" /\ ~PrepareLog(b, s)
    BY <1>2, <1>5 DEF PrepareNullLock, ProcessEnd, PrepareLog, Preparing, NotRunning
  <2> QED
    BY <2>1 DEF Kept, AtEnd, Copying
<1>6. CASE PrepareOpen(b, s)
  <2>1. ~PrepareLog(b, s)
    BY <1>6 DEF PrepareOpen, PrepareLog, Preparing
  <2> QED
    BY <1>6, <2>1, OpenKeeps DEF Kept, AtEnd, Copying, InTemp
<1>7. CASE PrepareCopy(b, s)
  <2>1. ~PrepareLog(b, s) /\ mem[b].pc[s] = "copy"
    BY <1>7 DEF PrepareCopy, PrepareLog, Preparing
  <2>2. /\ mem'[b].pc[s] = "append" /\ mem'[b].fd[s].inode = s
        /\ mem'[b].fd[s].offset = Len(disk'[b].data[s])
        /\ disk'[b].temp = disk[b].temp
        /\ disk'[b].data[s] = Content(b, PathOf[s])
    BY <1>3, <1>7, CopyKeeps
  <2>3. InTemp(b, s)'
    BY <2>1, <2>2 DEF Kept, InTemp
  <2>4. ASSUME NEW x \in Store, Holds(b, disk[b].file[PathOf[s]], x)
        PROVE  Holds(b, s, x)'
    BY <1>1, <2>2, <2>4 DEF Holds, Content
  <2>5. Covers(b, s)'
    BY <2>4 DEF Covers
  <2> QED
    BY <2>1, <2>2, <2>3, <2>5 DEF Kept, AtEnd, Copying
<1>8. CASE PrepareAppend(b, s)
  <2>1. ~PrepareLog(b, s) /\ mem[b].pc[s] = "append"
    BY <1>8 DEF PrepareAppend, PrepareLog, Preparing
  <2>2. /\ mem'[b].pc[s] = "wrlock"
        /\ disk'[b].temp = disk[b].temp
        /\ Holds(b, s, s)'
        /\ \A x \in Store : Holds(b, s, x) => Holds(b, s, x)'
    BY <1>3, <1>8, AppendKeeps
  <2>3. InTemp(b, s)'
    BY <2>1, <2>2 DEF Kept, InTemp
  <2>4. Covers(b, s)'
    BY <2>1, <2>2 DEF Kept, Covers
  <2> QED
    BY <2>1, <2>2, <2>3, <2>4 DEF Kept, AtEnd, Copying
<1>9. CASE PrepareWrLock(b, s)
  <2>1. ~PrepareLog(b, s) /\ disk' = disk /\ mem[b].pc[s] = "wrlock"
    BY <1>9 DEF PrepareWrLock, PrepareLog, Preparing
  <2>2. mem'[b].pc[s] = "log"
    <3>1. mem'[b].pc = [mem[b].pc EXCEPT ![s] = "log"]
      BY ZenonT(60), <1>1, <1>2, <1>9 DEF PrepareWrLock, Memory
    <3> QED
      BY <1>1, <3>1 DEF Memory
  <2>3. \A x \in Store : Holds(b, s, x)' <=> Holds(b, s, x)
    BY <2>1 DEF Holds
  <2>4. Covers(b, s)' /\ InTemp(b, s)'
    BY <2>1, <2>3 DEF Kept, Covers, InTemp
  <2> QED
    BY <2>1, <2>2, <2>3, <2>4 DEF Kept, AtEnd, Copying
<1>10. CASE PrepareLog(b, s)
  <2>1. mem'[b].pc[s] = "none" /\ mem[b].pc[s] = "log"
    <3>1. mem'[b].pc = [mem[b].pc EXCEPT ![s] = "none"]
      BY ZenonT(60), <1>1, <1>2, <1>10 DEF PrepareLog, PrepareEnd, Memory
    <3> QED
      BY <1>1, <1>10, <3>1 DEF PrepareLog, Preparing, Memory
  <2>2. disk'[b].temp = disk[b].temp /\ disk'[b].data = disk[b].data
    BY <1>10 DEF PrepareLog, Logged, Files, Disk
  <2>3. \A x \in Store : Holds(b, s, x)' <=> Holds(b, s, x)
    BY <2>2 DEF Holds
  <2>4. Covers(b, s)' /\ InTemp(b, s)'
    BY <2>1, <2>2, <2>3 DEF Kept, Covers, InTemp
  <2> QED
    BY <2>1, <2>3, <2>4 DEF Kept, AtEnd, Copying
<1>11. ~PrepareOpenFails(b, s) /\ ~PrepareLogFails(b, s)
  BY DEF PrepareOpenFails, PrepareLogFails
<1> QED
  BY <1>4, <1>5, <1>6, <1>7, <1>8, <1>9, <1>10, <1>11 DEF PrepareStep

(***************************************************************************)
(* What a step of a store may assume, and shall keep, but for OneBusy: the *)
(* stored file of p, and every call for p that is not over.                *)
(***************************************************************************)
Settings(b, p) ==
  /\ DistinctTids /\ StoreWriteMayFail = FALSE /\ OnlyAppends(p)
  /\ RpcTypeOK /\ mem \in Processes /\ disk \in Files
  /\ LogInv /\ OutcomeInv /\ Agreement
  /\ StoreHolds(b) /\ StoreKnows(b) /\ Voted(b) /\ DataHolds(b)
  /\ NotMissed(b, p) /\ Keeps(b, p)

FilesKeep(b, p) ==
  /\ FileDone(b, p)'
  /\ \A s \in Store : PathOf[s] = p /\ ~Over(s) => Kept(b, s)'

(* A step of Prepare keeps what is there for p. *)
LEMMA PrepareKeeps ==
  ASSUME NEW b \in Backend, NEW p \in Path, Settings(b, p), BackendStep(b), UNCHANGED coordVars,
         NEW s \in Store, PrepareStep(b, s)
  PROVE  FilesKeep(b, p)
<1> DEFINE f == disk[b].file[p]
<1>1. /\ DistinctTids /\ mem \in Processes /\ disk \in Files /\ DataHolds(b) /\ HandlersHold(b)
      /\ StoreHolds(b) /\ StoreKnows(b) /\ RpcTypeOK /\ UNCHANGED log /\ NotMissed(b, p)
      /\ StoreWriteMayFail = FALSE /\ f \in Store \cup {None}
  BY DEF Settings, StoreHolds, coordVars, Files, Disk
<1>2. /\ \A r \in Store \ {s} :
           /\ \/ mem'[b].pc[r] = "none"
              \/ mem'[b].pc[r] = mem[b].pc[r] /\ mem'[b].fd[r] = mem[b].fd[r]
           /\ disk'[b].data[r] = disk[b].data[r]
           /\ disk'[b].temp[TidOf[r]] = disk[b].temp[TidOf[r]]
      /\ disk'[b].file = disk[b].file
  BY <1>1, PrepareElsewhere
<1>3. PathOf[s] = p => TidOf[s] \notin log
  BY <1>1, Undecided
<1>4. f # None => f # s
  <2>1. f # None => TidOf[f] \in log
    BY <1>1 DEF DataHolds, FilesClean
  <2>2. f # None => PathOf[f] = p
    BY DEF Settings, Keeps, FileDone
  <2> QED
    BY <1>3, <2>1, <2>2
<1>5. \A x \in Store : Holds(b, f, x)' <=> Holds(b, f, x)
  BY <1>1, <1>2, <1>4 DEF Holds
<1>6. \A r \in Store : prep[r][b] \in Taken => prep'[r][b] \in Taken
  BY <1>1, OthersKept
<1>7. FileDone(b, p)'
  BY <1>1, <1>2, <1>6 DEF Settings, Keeps, FileDone
<1>8. ASSUME NEW r \in Store, PathOf[r] = p, ~Over(r)
      PROVE  Kept(b, r)'
  <2>1. Kept(b, r)
    BY <1>8 DEF Settings, Keeps
  <2>2. Renamed(b, r)' => Renamed(b, r)
    <3>1. NoRename(b)
      BY DEF NoRename
    <3> QED
      BY <1>1, <3>1, RenamedBefore
  <2>3. HasAnswered(b, r)' => HasAnswered(b, r) \/ PrepareLog(b, r)
    BY <1>1, AnswersLogged DEF HasAnswered
  <2>4. CASE r = s
    <3>1. TidOf[r] \notin log /\ prep[r][b] \in {"sent", "taken"}
      BY <1>1, <1>8, <2>4, Undecided
    <3>2. ~Renamed(b, r)
      <4>1. Recorded(b, TidOf[r]) = "COMMIT" => TidOf[r] \in log
        BY RpcAssumption DEF Settings, Agreement
      <4> QED
        BY <1>1, <3>1, <4>1, RenamedLogged
    <3>3. HasAnswered(b, r)' => PrepareLog(b, r)
      BY <2>3, <3>1 DEF HasAnswered, Answered
    <3>4. OpOf[r] = "store"
      BY <1>8 DEF Settings, OnlyAppends
    <3> QED
      BY <1>1, <1>2, <1>5, <1>8, <2>1, <2>2, <2>4, <3>2, <3>3, <3>4, OwnKept
  <2>5. CASE r # s
    <3>1. HasAnswered(b, r)' => HasAnswered(b, r)
      <4>1. EnvPrepare(s, b) \/ UNCHANGED rpcVars
        BY <1>1, PrepareConforms
      <4>2. prep'[r][b] = prep[r][b]
        BY <1>1, <2>5, <4>1 DEF EnvPrepare, SetPrep, RpcTypeOK, rpcVars
      <4> QED
        BY <4>2 DEF HasAnswered
    <3> QED
      BY <1>2, <1>5, <1>8, <2>1, <2>2, <2>5, <3>1, KeptAlone
  <2> QED
    BY <2>4, <2>5
<1> QED
  BY <1>7, <1>8 DEF FilesKeep

(* A call that was voted for is in doubt until its file is renamed. *)
LEMMA UnrenamedInDoubt ==
  ASSUME NEW b \in Backend, NEW p \in Path, Settings(b, p), NEW s \in Store, PathOf[s] = p,
         ~Over(s), HasAnswered(b, s), InTemp(b, s)
  PROVE  s \in InDoubt(b)
<1> DEFINE t == TidOf[s]
           r == LastRecord(b, t)
<1>1. t \in Txid /\ s # None
  BY RpcAssumption
<1>2. r.state_t # "none" /\ r \in [state_t : TxState, req : Store] \cup {NoRecord}
  BY <1>1 DEF Settings, Voted, HasAnswered, Recorded, LastRecord, Files, Disk
<1>3. r \in [state_t : TxState, req : Store]
  BY <1>2 DEF NoRecord
<1>4. r.req = s
  BY <1>1, <1>2, <1>3 DEF Settings, StoreHolds, RecordsHold, DistinctTids
<1>5. r.state_t # "ABORT"
  BY <1>1, <1>4 DEF Settings, StoreKnows, RecordsRight, Recorded, Right
<1>6. r.state_t # "COMMIT"
  <2>1. ~Renamed(b, s)
    BY <1>1 DEF Settings, Keeps, Kept, InTemp
  <2> QED
    BY <2>1 DEF Renamed, Recorded
<1>7. r.state_t = "PREPARE"
  BY <1>3, <1>5, <1>6 DEF TxState
<1> QED
  BY <1>3, <1>4, <1>7 DEF InDoubt

(* The rename keeps what is there for p: the file that it puts in place    *)
(* has every buffer that the file it replaces has.                         *)
LEMMA CommitFileKeeps ==
  ASSUME NEW b \in Backend, NEW p \in Path, Settings(b, p), BackendStep(b), UNCHANGED coordVars,
         NEW t \in Txid, CommitFile(b, t)
  PROVE  FilesKeep(b, p)
<1> DEFINE d == disk[b]
           f == d.file[p]
<1>0. PICK e : e = mem[b].tx_db[t]
  OBVIOUS
<1>1. /\ DistinctTids /\ mem \in Processes /\ disk \in Files /\ DataHolds(b) /\ HandlersHold(b)
      /\ StoreHolds(b) /\ StoreKnows(b) /\ RpcTypeOK /\ NotMissed(b, p) /\ OnlyAppends(p)
      /\ FileDone(b, p) /\ OneBusy(b, p)
      /\ \A s \in Store : PathOf[s] = p /\ ~Over(s) => Kept(b, s)
  BY DEF Settings, StoreHolds, Keeps
<1>2. e \in Store /\ TidOf[e] = t /\ prep[e][b] \in Taken /\ t \in log
  <2>1. At(b, "commit", t, "file") /\ "commit" \in Kind /\ "file" \in Stage
    BY DEF CommitFile, Kind, Stage
  <2>2. e # None
    BY <1>0, <1>1, <2>1 DEF StoreHolds, HalfwayHolds
  <2>3. e \in Store \cup {None}
    BY <1>0, <1>1 DEF Processes, Memory
  <2>4. t \in log
    BY <1>1, <2>1 DEF StoreKnows, CommitsRight
  <2> QED
    BY <1>0, <1>1, <2>2, <2>3, <2>4 DEF StoreHolds, EntriesHold
<1>3. disk'[b] = Applied(d, t, e) /\ d \in Disk
  BY <1>0, <1>1 DEF CommitFile, Files
<1>4. mem'[b].pc = mem[b].pc /\ mem'[b].fd = mem[b].fd
  BY <1>1, CommitMoves DEF SamePrepares
<1>5. prep' = prep
  BY DEF CommitFile, rpcVars
<1>6. \A s \in Store : Renamed(b, s)' => Renamed(b, s) \/ s = e
  BY <1>1, <1>2, RenamedBefore DEF DistinctTids
<1>7. /\ disk'[b].data = d.data
      /\ \A s \in Store : s # e => disk'[b].temp[TidOf[s]] = d.temp[TidOf[s]]
  <2>1. \A s \in Store : s # e => TidOf[s] # t /\ TidOf[s] \in Txid
    BY <1>1, <1>2, RpcAssumption DEF DistinctTids
  <2> HIDE DEF d
  <2>2. \A u \in Txid : u # t => disk'[b].temp[u] = d.temp[u]
    BY <1>3 DEF Applied, Disk
  <2> QED
    BY <1>3, <2>1, <2>2 DEF Applied, Disk
<1>9. ASSUME NEW s \in Store, PathOf[s] = p, ~Over(s), s # e, disk'[b].file[p] = f
      PROVE  Kept(b, s)'
  <2>1. Kept(b, s)
    BY <1>1, <1>9
  <2>2. HasAnswered(b, s)' => HasAnswered(b, s)
    BY <1>5 DEF HasAnswered
  <2>3. \A x \in Store : Holds(b, d.file[PathOf[s]], x)' <=> Holds(b, d.file[PathOf[s]], x)
    <3>1. d.data = disk'[b].data /\ disk'[b].file[PathOf[s]] = d.file[PathOf[s]]
      BY <1>7, <1>9
    <3> QED
      BY <3>1 DEF Holds
  <2> QED
    BY <1>4, <1>6, <1>7, <1>9, <2>1, <2>2, <2>3, KeptAlone
<1>10. ASSUME disk'[b].file[p] = f
       PROVE  FileDone(b, p)'
  BY <1>1, <1>5, <1>10 DEF FileDone
<1>11. CASE PathOf[e] # p
  <2>1. disk'[b].file[p] = f
    <3> HIDE DEF d
    <3> QED
      BY <1>3, <1>11 DEF Applied, Disk
  <2> QED
    BY <1>9, <1>10, <1>11, <2>1 DEF FilesKeep
<1>12. CASE PathOf[e] = p
  <2>1. prep[e][b] = "counted" /\ OpOf[e] = "store" /\ ~Over(e) /\ mem[b].pc[e] = "none"
    BY <1>1, <1>2, <1>12 DEF NotMissed, Taken, OnlyAppends, Over, HandlersHold
  <2>2. HasAnswered(b, e) /\ HasAnswered(b, e)' /\ mem'[b].pc[e] = "none"
    BY <1>4, <1>5, <2>1 DEF HasAnswered, Answered
  <2>3. Kept(b, e) /\ e # None
    BY <1>1, <1>2, <1>12, <2>1, RpcAssumption
  <2>4. ASSUME disk'[b].temp[t] = None, Holds(b, disk'[b].file[p], e)
        PROVE  Kept(b, e)'
    <3>1. ~InTemp(b, e)'
      BY <1>2, <2>3, <2>4 DEF InTemp
    <3>2. InFile(b, e)'
      BY <1>7, <1>12, <2>4 DEF InFile, Holds
    <3>3. Holds(b, e, e)'
      BY <1>7, <2>2, <2>3 DEF Kept, Holds
    <3>4. AtEnd(b, e)'
      BY <2>2 DEF AtEnd, Copying
    <3> QED
      BY <1>2, <2>2, <2>4, <3>1, <3>2, <3>3, <3>4 DEF Kept
  <2>5. CASE d.temp[t] = None
    <3>1. disk'[b] = d
      BY <1>3, <2>1, <2>5 DEF Applied
    <3>2. InFile(b, e)
      BY <1>2, <2>2, <2>3, <2>5 DEF Kept, InTemp
    <3>3. Kept(b, e)'
      BY <1>12, <2>4, <2>5, <3>1, <3>2 DEF InFile
    <3> QED
      BY <1>9, <1>10, <3>1, <3>3 DEF FilesKeep
  <2>6. CASE d.temp[t] # None
    <3>1. d.temp[t] = e
      <4>1. d.temp[t] \in Store
        BY <1>3, <2>6 DEF Disk
      <4> QED
        BY <1>1, <1>2, <2>6, <4>1 DEF DataHolds, FilesClean, DistinctTids
    <3>2. disk'[b].file[p] = e /\ disk'[b].temp[t] = None
      <4>1. disk'[b] = [d EXCEPT !.file[p] = e, !.temp[t] = None]
        BY <1>3, <1>12, <2>1, <2>6, <3>1 DEF Applied
      <4> HIDE DEF d
      <4> QED
        BY <1>3, <4>1 DEF Disk
    <3>3. InTemp(b, e)
      BY <1>2, <3>1 DEF InTemp
    <3>4. Kept(b, e)'
      <4>1. Holds(b, e, e)
        BY <2>2, <2>3 DEF Kept
      <4> QED
        BY <2>4, <3>2, <4>1
    <3>5. Covers(b, e)
      BY <2>2, <2>3, <3>3 DEF Kept
    <3>6. Busy(b, e)
      BY <1>2, <1>12, <2>1, <2>2, <3>3, UnrenamedInDoubt DEF Busy
    <3>7. ASSUME NEW s \in Store, PathOf[s] = p, ~Over(s), s # e
          PROVE  Kept(b, s)'
      <4>1. mem[b].pc[s] = "none" /\ s \notin InDoubt(b)
        BY <1>1, <1>2, <1>12, <3>6, <3>7 DEF OneBusy, Busy
      <4>2. Kept(b, s)
        BY <1>1, <3>7
      <4>3. ~(HasAnswered(b, s) /\ InTemp(b, s))
        BY <3>7, <4>1, UnrenamedInDoubt
      <4>4. InFile(b, s) => InFile(b, s)'
        <5>1. InFile(b, s) => Holds(b, e, s)
          BY <1>12, <3>5, <3>7 DEF InFile, Covers
        <5>2. Holds(b, e, s) => Holds(b, e, s)'
          BY <1>7 DEF Holds
        <5> QED
          BY <3>2, <3>7, <5>1, <5>2 DEF InFile
      <4>5. (HasAnswered(b, s)' <=> HasAnswered(b, s)) /\ (InTemp(b, s)' <=> InTemp(b, s))
        BY <1>5, <1>7, <3>7 DEF HasAnswered, InTemp
      <4>6. Holds(b, s, s)' <=> Holds(b, s, s)
        BY <1>7 DEF Holds
      <4>7. mem'[b].pc[s] = "none"
        BY <1>4, <4>1
      <4>8. AtEnd(b, s)'
        BY <4>7 DEF AtEnd, Copying
      <4>9. Renamed(b, s)' => Renamed(b, s)
        BY <1>6, <3>7
      <4>10. disk'[b].temp[TidOf[s]] = d.temp[TidOf[s]]
        BY <1>7, <3>7
      <4> QED
        BY <4>2, <4>3, <4>4, <4>5, <4>6, <4>7, <4>8, <4>9, <4>10 DEF Kept
    <3>8. FileDone(b, p)'
      BY <1>2, <1>5, <1>12, <3>2 DEF FileDone
    <3> QED
      BY <3>4, <3>7, <3>8 DEF FilesKeep
  <2> QED
    BY <2>5, <2>6
<1> QED
  BY <1>11, <1>12

(* A step that leaves the files and the answers alone, and renames nothing. *)
LEMMA FilesAlone ==
  ASSUME NEW b \in Backend, NEW p \in Path, Settings(b, p), BackendStep(b), UNCHANGED coordVars,
         NoRename(b), UNCHANGED prep,
         \/ mem'[b] = NotRunning
         \/ mem'[b].pc = mem[b].pc /\ mem'[b].fd = mem[b].fd,
         disk'[b].file = disk[b].file, disk'[b].data = disk[b].data,
         \A s \in Store : ~Over(s) => disk'[b].temp[TidOf[s]] = disk[b].temp[TidOf[s]]
  PROVE  FilesKeep(b, p)
<1>1. /\ DistinctTids /\ mem \in Processes /\ disk \in Files /\ StoreHolds(b) /\ StoreKnows(b)
      /\ FileDone(b, p)
      /\ \A s \in Store : PathOf[s] = p /\ ~Over(s) => Kept(b, s)
  BY DEF Settings, Keeps
<1>2. ASSUME NEW s \in Store, PathOf[s] = p, ~Over(s)
      PROVE  Kept(b, s)'
  <2>1. Kept(b, s)
    BY <1>1, <1>2
  <2>2. HasAnswered(b, s)' => HasAnswered(b, s)
    BY DEF HasAnswered
  <2>3. \A x \in Store : Holds(b, disk[b].file[PathOf[s]], x)' <=>
                         Holds(b, disk[b].file[PathOf[s]], x)
    BY DEF Holds
  <2>4. \/ mem'[b].pc[s] = "none"
        \/ mem'[b].pc[s] = mem[b].pc[s] /\ mem'[b].fd[s] = mem[b].fd[s]
    BY DEF NotRunning
  <2>5. Renamed(b, s)' => Renamed(b, s)
    BY <1>1, RenamedBefore
  <2>6. disk'[b].temp[TidOf[s]] = disk[b].temp[TidOf[s]]
    BY <1>2
  <2> QED
    BY <2>1, <2>2, <2>3, <2>4, <2>5, <2>6, KeptAlone
<1>3. FileDone(b, p)'
  BY <1>1 DEF FileDone
<1> QED
  BY <1>2, <1>3 DEF FilesKeep

(* An Abort removes the temporary file of a call that is over. *)
LEMMA AbortKeeps ==
  ASSUME NEW b \in Backend, NEW p \in Path, Settings(b, p), BackendStep(b), UNCHANGED coordVars,
         NEW t \in Txid, AbortBegin(b, t)
  PROVE  FilesKeep(b, p)
<1>0. PICK e : e = mem[b].tx_db[t]
  OBVIOUS
<1>1. NoRename(b) /\ mem \in Processes /\ disk \in Files
  BY DEF NoRename, Settings
<1>2. \/ mem'[b] = NotRunning
      \/ mem'[b].pc = mem[b].pc /\ mem'[b].fd = mem[b].fd
  BY <1>1, PcKept DEF OutcomeStep
<1>3. UNCHANGED prep
  BY DEF AbortBegin
<1>4. UNCHANGED disk \/ (e # None /\ disk' = [disk EXCEPT ![b].temp[t] = None])
  BY <1>0 DEF AbortBegin
<1>5. /\ disk'[b].file = disk[b].file /\ disk'[b].data = disk[b].data
      /\ e = None => disk'[b].temp = disk[b].temp
      /\ \A u \in Txid : u # t => disk'[b].temp[u] = disk[b].temp[u]
  <2>1. disk[b] \in Disk
    BY <1>1 DEF Files
  <2> QED
    BY <1>1, <1>4, <2>1 DEF Files, Disk
<1>6. ASSUME NEW s \in Store, ~Over(s)
      PROVE  disk'[b].temp[TidOf[s]] = disk[b].temp[TidOf[s]]
  <2>1. TidOf[s] \in Txid
    BY RpcAssumption
  <2>2. CASE e = None
    BY <1>5, <2>2
  <2>3. CASE e # None
    <3>1. e \in Store /\ TidOf[e] = t
      BY <1>0, <1>1, <2>3 DEF Settings, StoreHolds, EntriesHold, Processes, Memory
    <3>2. calls["abort"][t][b] > 0
      BY DEF AbortBegin, Takes, TakeCall
    <3>3. Over(e)
      BY <3>1, <3>2, CallsRight DEF Settings, Right
    <3>4. TidOf[s] # t
      BY <1>6, <3>1, <3>3 DEF Settings, DistinctTids
    <3> QED
      BY <1>5, <2>1, <3>4
  <2> QED
    BY <2>2, <2>3
<1> QED
  BY <1>1, <1>2, <1>3, <1>5, <1>6, FilesAlone

(* The other steps leave the files alone; a Prepare answers when it is logged. *)
LEMMA RestKeeps ==
  ASSUME NEW b \in Backend, NEW p \in Path, Settings(b, p), BackendStep(b), UNCHANGED coordVars,
         \/ StoreStart(b) \/ StoreRecover(b) \/ Listen(b) \/ AskReturns(b)
         \/ Exit(b) \/ StoreCrash(b)
         \/ \E t \in Txid : \/ AskAgain(b, t) \/ CommitBegin(b, t) \/ CommitState(b, t)
                            \/ \E k \in Kind : LogAndUnlock(b, k, t) \/ LogFailsAndUnlock(b, k, t)
  PROVE  FilesKeep(b, p)
<1>1. NoRename(b) /\ mem \in Processes /\ disk \in Files
  BY DEF NoRename, Settings
<1>2. \/ mem'[b] = NotRunning
      \/ mem'[b].pc = mem[b].pc /\ mem'[b].fd = mem[b].fd
  BY <1>1, PcKept DEF OutcomeStep
<1>3. UNCHANGED prep
  BY DEF StoreStart, StoreRecover, Listen, AskReturns, Exit, StoreCrash, AskAgain, CommitBegin,
     CommitState, LogAndUnlock, LogFailsAndUnlock, rpcVars
<1>4. /\ disk'[b].temp = disk[b].temp /\ disk'[b].file = disk[b].file
      /\ disk'[b].data = disk[b].data
  <2>1. disk[b] \in Disk
    BY <1>1 DEF Files
  <2> QED
    BY ZenonT(60), <1>1, <2>1 DEF StoreStart, StoreRecover, Listen, AskReturns, Exit, StoreCrash,
       AskAgain, CommitBegin, CommitState, LogAndUnlock, LogFailsAndUnlock, Logged, Files, Disk
<1> QED
  BY <1>1, <1>2, <1>3, <1>4, FilesAlone

(* So a store keeps what is there for p, while it executes one call for p at most. *)
LEMMA KeepsStore ==
  ASSUME NEW b \in Backend, NEW p \in Path, Settings(b, p), BackendStep(b), UNCHANGED coordVars,
         OrderlyOn(p)
  PROVE  OneBusy(b, p)' /\ FilesKeep(b, p)
<1>1. OneBusy(b, p)'
  <2>1. /\ RpcTypeOK /\ mem \in Processes /\ disk \in Files /\ StoreHolds(b) /\ StoreKnows(b)
        /\ OneBusy(b, p)
    BY DEF Settings, Keeps
  <2> QED
    BY <2>1, OneBusyKept
<1>2. CASE \E s \in Store : PrepareStep(b, s)
  <2>1. PICK s \in Store : PrepareStep(b, s)
    BY <1>2
  <2> QED
    BY <1>1, <2>1, PrepareKeeps
<1>3. CASE \E t \in Txid : CommitFile(b, t)
  <2>1. PICK t \in Txid : CommitFile(b, t)
    BY <1>3
  <2> QED
    BY <1>1, <2>1, CommitFileKeeps
<1>4. CASE \E t \in Txid : AbortBegin(b, t)
  <2>1. PICK t \in Txid : AbortBegin(b, t)
    BY <1>4
  <2> QED
    BY <1>1, <2>1, AbortKeeps
<1>5. CASE \/ StoreStart(b) \/ StoreRecover(b) \/ Listen(b) \/ AskReturns(b)
           \/ Exit(b) \/ StoreCrash(b)
           \/ \E t \in Txid : \/ AskAgain(b, t) \/ CommitBegin(b, t) \/ CommitState(b, t)
                              \/ \E k \in Kind : LogAndUnlock(b, k, t) \/ LogFailsAndUnlock(b, k, t)
  <2>1. FilesKeep(b, p)
    BY <1>5, RestKeeps
  <2> QED
    BY <1>1, <2>1
<1> QED
  BY <1>2, <1>3, <1>4, <1>5 DEF BackendStep, OutcomeStep

-----------------------------------------------------------------------------
(***************************************************************************)
(* The whole system.                                                       *)
(***************************************************************************)

(* A step elsewhere keeps what is there for p. *)
LEMMA KeepsElsewhere ==
  ASSUME NEW b \in Backend, NEW p \in Path, Keeps(b, p), disk \in Files,
         mem'[b] = mem[b], disk'[b] = disk[b],
         \A r \in Store : prep[r][b] \in Taken => prep'[r][b] \in Taken,
         \A r \in Store : HasAnswered(b, r)' => HasAnswered(b, r),
         \A r \in Store : Over(r) => Over(r)'
  PROVE  Keeps(b, p)'
<1>1. \A r \in Store : Busy(b, r)' <=> Busy(b, r)
  BY DEF Busy, InDoubt, LastRecord
<1>2. OneBusy(b, p)'
  BY <1>1 DEF Keeps, OneBusy
<1>3. FileDone(b, p)'
  <2>1. disk[b].file[p] \in Store \cup {None}
    BY DEF Files, Disk
  <2> QED
    BY <2>1 DEF Keeps, FileDone
<1>4. ASSUME NEW s \in Store, PathOf[s] = p, ~Over(s)'
      PROVE  Kept(b, s)'
  <2>1. Kept(b, s)
    BY <1>4 DEF Keeps
  <2>2. \A x \in Store : Holds(b, disk[b].file[PathOf[s]], x)' <=>
                         Holds(b, disk[b].file[PathOf[s]], x)
    BY DEF Holds
  <2>3. Renamed(b, s)' => Renamed(b, s)
    BY DEF Renamed, At, Recorded, LastRecord
  <2> QED
    BY <2>1, <2>2, <2>3, KeptAlone
<1> QED
  BY <1>2, <1>3, <1>4 DEF Keeps

(* A call that was committed too early was so before. *)
LEMMA MissedBefore ==
  ASSUME DistinctTids, RefineInv, [Next]_vars, NEW b \in Backend, NEW p \in Path, NotMissed(b, p)'
  PROVE  NotMissed(b, p)
<1> SUFFICES ASSUME NEW s \in Store, PathOf[s] = p, TidOf[s] \in log,
                    prep[s][b] \notin {"none", "counted"}
             PROVE  FALSE
  BY DEF NotMissed
<1>1. SystemInv /\ OutcomeInv /\ VoteInv
  BY DEF RefineInv, AgreeInv
<1>2. prep'[s][b] \notin {"none", "counted"}
  BY <1>1, MissedForEver, SystemStepConforms
<1>3. TidOf[s] \in log'
  <2>1. CoordNext \/ UNCHANGED coordVars
    BY DEF Next, vars
  <2> QED
    BY <1>1, <2>1, LogGrows
<1> QED
  BY <1>2, <1>3 DEF NotMissed

(* It holds at the start: nothing is there. *)
LEMMA KeepInvInit ==
  ASSUME Init, NEW p \in Path
  PROVE  KeepInv(p)
<1> SUFFICES ASSUME NEW b \in Backend
             PROVE  Keeps(b, p)
  BY InitRefines, DataInvInit DEF KeepInv
<1>1. /\ mem[b] = NotRunning
      /\ disk[b] = [store_log |-> [t \in Txid |-> NoRecord],
                    temp      |-> [t \in Txid |-> None],
                    file      |-> [q \in Path |-> None],
                    data      |-> [s \in Store |-> <<>>]]
      /\ \A s \in Store : prep[s][b] = "none"
  BY DEF Init, BackendInit, RpcInit
<1>2. \A s \in Store : TidOf[s] \in Txid /\ s # None
  BY RpcAssumption
<1>3. \A s \in Store : /\ s \notin InDoubt(b) /\ Recorded(b, TidOf[s]) = "none"
                       /\ mem[b].pc[s] = "none" /\ mem[b].tx_db[TidOf[s]] = None
  BY <1>1, <1>2 DEF InDoubt, Recorded, LastRecord, NoRecord, NotRunning
<1>4. ASSUME NEW s \in Store
      PROVE  Kept(b, s)
  <2>1. \A stage \in {"state", "log"} : ~At(b, "commit", TidOf[s], stage)
    BY <1>1, <1>2 DEF At, NotRunning, Kind, Stage
  <2>2. ~Renamed(b, s) /\ ~HasAnswered(b, s)
    BY <1>1, <1>2, <1>3, <2>1 DEF Renamed, HasAnswered, Answered
  <2> QED
    BY <1>3, <2>2 DEF Kept, AtEnd, Copying
<1>5. disk[b].file[p] = None
  BY <1>1
<1> QED
  BY <1>3, <1>4, <1>5 DEF Keeps, OneBusy, Busy, FileDone

(* And a step that begins no call for p too early keeps it. *)
LEMMA KeepInvNext ==
  ASSUME DistinctTids, WriteMayFail = FALSE, StoreWriteMayFail = FALSE, NEW p \in Path,
         OnlyAppends(p), KeepInv(p), [Next]_vars, BackendNext => OrderlyOn(p)
  PROVE  KeepInv(p)'
<1>1. RefineInv /\ DataInv /\ RefineInv' /\ DataInv'
  BY RefineInvNext, DataInvNext DEF KeepInv
<1>2. /\ disk \in Files /\ mem \in Processes /\ RpcTypeOK /\ TypeOK /\ Started
      /\ LogInv /\ OutcomeInv /\ Agreement
      /\ \A b \in Backend : /\ StoreHolds(b) /\ StoreKnows(b) /\ Voted(b)
                            /\ DataHolds(b) /\ HandlersHold(b)
  BY <1>1, AgreeInvImplies DEF RefineInv, AgreeInv, DataInv, SystemInv, TypeOK, BackendTypeOK,
     Files, Processes, StoreHolds
<1> SUFFICES ASSUME NEW b \in Backend, NotMissed(b, p)'
             PROVE  Keeps(b, p)'
  BY <1>1 DEF KeepInv
<1>3. NotMissed(b, p) /\ Keeps(b, p)
  BY <1>1, MissedBefore DEF KeepInv
<1>4. CASE UNCHANGED backendVars /\ (CoordNext \/ UNCHANGED coordVars) /\ (CoordNext \/ UNCHANGED prep)
  <2>1. \A r \in Store : Over(r) => Over(r)'
    BY <1>2, <1>4, LogGrows
  <2>2. \A r \in Store : prep[r][b] \in Taken => prep'[r][b] \in Taken
    BY <1>2, <1>4, CoordPrep
  <2>3. \A r \in Store : HasAnswered(b, r)' => HasAnswered(b, r)
    BY <1>2, <1>4, AnswersCounted DEF HasAnswered
  <2> QED
    BY <1>2, <1>3, <1>4, <2>1, <2>2, <2>3, KeepsElsewhere DEF backendVars
<1>5. ASSUME NEW c \in Backend, BackendStep(c), UNCHANGED coordVars
      PROVE  Keeps(b, p)'
  <2>1. \A r \in Store : Over(r)' <=> Over(r)
    BY <1>5 DEF coordVars, Over
  <2>2. CASE c = b
    <3>1. Settings(b, p)
      BY <1>2, <1>3 DEF Settings
    <3>2. OrderlyOn(p)
      BY <1>5 DEF BackendNext
    <3>3. OneBusy(b, p)' /\ FilesKeep(b, p)
      BY <1>5, <2>2, <3>1, <3>2, KeepsStore
    <3> QED
      BY <2>1, <3>3 DEF FilesKeep, Keeps
  <2>3. CASE c # b
    <3>1. /\ mem'[b] = mem[b] /\ disk'[b] = disk[b]
          /\ \A s \in Store : prep'[s][b] = prep[s][b]
      BY <1>2, <1>5, <2>3, OthersKept
    <3>2. \A r \in Store : HasAnswered(b, r)' => HasAnswered(b, r)
      BY <3>1 DEF HasAnswered
    <3> QED
      BY <1>2, <1>3, <2>1, <3>1, <3>2, KeepsElsewhere
  <2> QED
    BY <2>2, <2>3
<1>6. UNCHANGED vars => UNCHANGED backendVars /\ UNCHANGED coordVars /\ UNCHANGED prep
  BY DEF vars, backendVars, coordVars, rpcVars
<1>7. RpcNext => UNCHANGED prep
  BY DEF RpcNext, LoseReg, LoseAsk, LoseCall
<1> QED
  BY <1>4, <1>5, <1>6, <1>7 DEF Next, BackendNext

AllKept == RefineInv /\ \A p \in Path : OnlyAppends(p) => KeepInv(p)

\* The coordinator and the stores write what they log, and clients do not share ids.
Premises == DistinctTids /\ WriteMayFail = FALSE /\ StoreWriteMayFail = FALSE

(* It holds of every path that is only appended to. *)
LEMMA AllKeptAlways ==
  ASSUME Premises
  PROVE  OrderlySpec => []AllKept
<1>1. Init => AllKept
  BY InitRefines, KeepInvInit DEF AllKept
<1>2. ASSUME AllKept, [Next /\ Orderly]_vars
      PROVE  AllKept'
  <2>1. RefineInv'
    BY <1>2, RefineInvNext DEF AllKept, Premises
  <2>2. ASSUME NEW p \in Path, OnlyAppends(p)
        PROVE  KeepInv(p)'
    <3>1. BackendNext => OrderlyOn(p)
      <4>1. UNCHANGED vars => \A b \in Backend, s \in Store : ~PrepareLookup(b, s)
        <5> SUFFICES ASSUME UNCHANGED vars, NEW b \in Backend, NEW s \in Store, PrepareLookup(b, s)
                     PROVE  FALSE
          OBVIOUS
        <5>1. prep[s][b] = "sent" /\ prep'[s][b] = "taken"
          BY <1>2 DEF AllKept, RefineInv, VoteInv, TypeOK, RpcTypeOK, PrepareLookup, Arrives, SetPrep
        <5> QED
          BY <5>1 DEF vars, rpcVars
      <4> QED
        BY <1>2, <4>1 DEF Orderly, OrderlyOn
    <3>2. KeepInv(p) /\ [Next]_vars
      BY <1>2, <2>2 DEF AllKept
    <3> QED
      BY <2>2, <3>1, <3>2, KeepInvNext DEF Premises
  <2> QED
    BY <2>1, <2>2 DEF AllKept, OnlyAppends
<1> QED
  BY <1>1, <1>2, PTL DEF OrderlySpec

(* What a store has recorded is in its file, and what it can be asked to   *)
(* commit is in the temporary file, or in its place.                       *)
LEMMA KeptImplies ==
  ASSUME NEW b \in Backend, NEW s \in Store, RefineInv, DistinctTids,
         KeepInv(PathOf[s]), NotMissed(b, PathOf[s]), TidOf[s] \in log
  PROVE  /\ Recorded(b, TidOf[s]) = "COMMIT" => InFile(b, s)
         /\ prep[s][b] = "counted" => \/ Holds(b, disk[b].temp[TidOf[s]], s)
                                      \/ Holds(b, disk[b].file[PathOf[s]], s)
<1>1. Kept(b, s)
  BY DEF KeepInv, Keeps, Over
<1>2. Recorded(b, TidOf[s]) = "COMMIT" => InFile(b, s)
  BY <1>1 DEF Kept, Renamed
<1>3. ASSUME prep[s][b] = "counted"
      PROVE  \/ Holds(b, disk[b].temp[TidOf[s]], s)
             \/ Holds(b, disk[b].file[PathOf[s]], s)
  BY <1>1, <1>3 DEF Kept, HasAnswered, Answered, InTemp, InFile
<1> QED
  BY <1>2, <1>3

(* A vote that was counted is on record, until the commit is. *)
LEMMA VoteRecorded ==
  ASSUME DistinctTids, RefineInv, NEW b \in Backend, NEW s \in Store, TidOf[s] \in log,
         prep[s][b] = "counted"
  PROVE  Recorded(b, TidOf[s]) \in {"PREPARE", "COMMIT"}
<1>1. TidOf[s] \in Txid /\ LastRecord(b, TidOf[s]) \in [state_t : TxState, req : Store] \cup {NoRecord}
  BY RpcAssumption DEF RefineInv, AgreeInv, SystemInv, BackendTypeOK, LastRecord, Disk
<1>2. Agreement
  BY AgreeInvImplies DEF RefineInv
<1>3. Recorded(b, TidOf[s]) # "none" /\ Recorded(b, TidOf[s]) # "ABORT"
  BY <1>1, <1>2 DEF RefineInv, Voted, Answered, Agreement
<1> QED
  BY <1>1, <1>3 DEF Recorded, TxState, NoRecord

(* No committed append is lost, for any numbers of stores, calls, paths,    *)
(* threads, crashes, handlers of one outcome at a time and late outcomes,   *)
(* where the calls for a path wait for one another: a Commit that was cut   *)
(* short, or that runs beside another one, has the same effect once more.   *)
THEOREM UpdatesKeptCorrect ==
  ASSUME Premises
  PROVE  OrderlySpec => []UpdatesKept
<1>1. AllKept => UpdatesKept
  <2> SUFFICES ASSUME AllKept, NoVoteMissed, NEW b \in Backend, NEW s \in Store,
                      OnlyAppends(PathOf[s]), Recorded(b, TidOf[s]) = "COMMIT"
               PROVE  Holds(b, disk[b].file[PathOf[s]], s)
    BY DEF UpdatesKept
  <2>1. RefineInv /\ PathOf[s] \in Path /\ TidOf[s] \in Txid
    BY RpcAssumption, BackendAssumption DEF AllKept
  <2>2. KeepInv(PathOf[s])
    BY <2>1 DEF AllKept
  <2>3. NotMissed(b, PathOf[s])
    BY DEF NoVoteMissed, NotMissed
  <2>4. TidOf[s] \in log
    BY <2>1, AgreeInvImplies DEF RefineInv, Agreement, Premises
  <2> QED
    BY <2>1, <2>2, <2>3, <2>4, KeptImplies DEF Premises, InFile
<1> QED
  BY <1>1, AllKeptAlways, PTL

(* A commit can be carried out at every store that was counted, for any     *)
(* numbers of them: the store has the record and, where nothing is deleted, *)
(* the buffer, in the temporary file or in its place.                       *)
THEOREM VoteBackedCorrect ==
  ASSUME Premises
  PROVE  OrderlySpec => []VoteBacked
<1>1. AllKept => VoteBacked
  <2> SUFFICES ASSUME AllKept, NoVoteMissed, NEW s \in Store, NEW b \in Backend,
                      TidOf[s] \in log, prep[s][b] = "counted", Recorded(b, TidOf[s]) # "COMMIT"
               PROVE  Backed(b, s)
    BY DEF VoteBacked, VoteHolds
  <2>1. RefineInv /\ PathOf[s] \in Path
    BY BackendAssumption DEF AllKept
  <2>2. NotMissed(b, PathOf[s])
    BY DEF NoVoteMissed, NotMissed
  <2>3. Recorded(b, TidOf[s]) = "PREPARE"
    BY <2>1, VoteRecorded DEF Premises
  <2>4. OnlyAppends(PathOf[s]) => KeepInv(PathOf[s])
    BY <2>1 DEF AllKept
  <2>5. OnlyAppends(PathOf[s]) => \/ Holds(b, disk[b].temp[TidOf[s]], s)
                                  \/ Holds(b, disk[b].file[PathOf[s]], s)
    BY <2>1, <2>2, <2>4, KeptImplies DEF Premises
  <2> QED
    BY <2>3, <2>5 DEF Backed
<1> QED
  BY <1>1, AllKeptAlways, PTL

-----------------------------------------------------------------------------
(***************************************************************************)
(* A path that one call alone asks for.  Nobody has to wait there.         *)
(***************************************************************************)
Alone(s) == \A r \in Store : PathOf[r] = PathOf[s] => r = s

OnceInv(s) == RefineInv /\ (OpOf[s] = "store" => KeepInv(PathOf[s]))

(* Its Prepare is executed once, so it meets no other and no doubt. *)
LEMMA AloneWaits ==
  ASSUME SystemInv, NEW s \in Store, Alone(s)
  PROVE  OrderlyOn(PathOf[s])
<1> SUFFICES ASSUME NEW b \in Backend, PrepareLookup(b, s)
             PROVE  Waits(b, s)
  BY DEF OrderlyOn, Alone
<1>1. mem[b].pc[s] = "none" /\ prep[s][b] = "sent"
  BY DEF PrepareLookup, Preparing, Arrives
<1>2. s \notin InDoubt(b)
  <2>1. LastRecord(b, TidOf[s]).state_t # "none" => prep[LastRecord(b, TidOf[s]).req][b] \in Taken
    BY RpcAssumption DEF SystemInv, StoreHolds, RecordsHold
  <2> QED
    BY <1>1, <2>1 DEF InDoubt, Taken
<1> QED
  BY <1>1, <1>2 DEF Waits, Alone

(* The file of a path that is stored to once, when the commit is on record. *)
StoredOnce(b, s) ==
  OpOf[s] = "store" /\ prep[s][b] = "counted" /\ Recorded(b, TidOf[s]) = "COMMIT" =>
    disk[b].file[PathOf[s]] = s /\ Holds(b, s, s)

(* A path that one call alone asks for needs neither its lock nor orderly     *)
(* callers: for any numbers of stores, other calls, threads, crashes, late,   *)
(* lost and repeated outcomes, a store whose vote was counted can carry the   *)
(* commit out, and when it has recorded it, the buffer is in the stored file. *)
THEOREM StoredOnceCorrect ==
  ASSUME Premises, NEW s \in Store, Alone(s)
  PROVE  Spec => [](\A b \in Backend : VoteHolds(b, s) /\ StoredOnce(b, s))
<1>1. PathOf[s] \in Path /\ TidOf[s] \in Txid
  BY RpcAssumption, BackendAssumption
<1>2. OnlyAppends(PathOf[s]) <=> OpOf[s] = "store"
  BY DEF OnlyAppends, Alone
<1>3. Init => OnceInv(s)
  BY <1>1, InitRefines, KeepInvInit DEF OnceInv
<1>4. OnceInv(s) /\ [Next]_vars => OnceInv(s)'
  <2> SUFFICES ASSUME OnceInv(s), [Next]_vars
               PROVE  OnceInv(s)'
    OBVIOUS
  <2>1. RefineInv'
    BY RefineInvNext DEF OnceInv, Premises
  <2>2. OrderlyOn(PathOf[s])
    BY AloneWaits DEF OnceInv, RefineInv, AgreeInv
  <2>3. OpOf[s] = "store" => KeepInv(PathOf[s])'
    BY <1>1, <1>2, <2>2, KeepInvNext DEF OnceInv, Premises
  <2> QED
    BY <2>1, <2>3 DEF OnceInv
<1>5. ASSUME OnceInv(s), NEW b \in Backend
      PROVE  VoteHolds(b, s) /\ StoredOnce(b, s)
  <2>1. RefineInv
    BY <1>5 DEF OnceInv
  <2>2. Recorded(b, TidOf[s]) = "COMMIT" => TidOf[s] \in log
    BY <1>1, <2>1, AgreeInvImplies DEF RefineInv, Agreement, Premises
  <2> SUFFICES ASSUME TidOf[s] \in log, prep[s][b] = "counted"
               PROVE  VoteHolds(b, s) /\ StoredOnce(b, s)
    BY <2>2 DEF VoteHolds, StoredOnce
  <2>3. NotMissed(b, PathOf[s])
    BY DEF NotMissed, Alone
  <2>4. Recorded(b, TidOf[s]) \in {"PREPARE", "COMMIT"}
    BY <2>1, VoteRecorded DEF Premises
  <2>5. ASSUME OpOf[s] = "store"
        PROVE  /\ Recorded(b, TidOf[s]) = "COMMIT" => InFile(b, s)
               /\ \/ Holds(b, disk[b].temp[TidOf[s]], s)
                  \/ Holds(b, disk[b].file[PathOf[s]], s)
               /\ disk[b].file[PathOf[s]] \in {None, s}
    <3>1. KeepInv(PathOf[s])
      BY <1>5, <2>5 DEF OnceInv
    <3>2. FileDone(b, PathOf[s])
      BY <2>3, <3>1 DEF KeepInv, Keeps
    <3>3. disk[b].file[PathOf[s]] \in Store \cup {None}
      BY <1>1, <2>1 DEF RefineInv, AgreeInv, SystemInv, BackendTypeOK, Disk
    <3>4. disk[b].file[PathOf[s]] \in {None, s}
      BY <3>2, <3>3 DEF FileDone, Alone
    <3> QED
      BY <2>1, <2>3, <3>1, <3>4, KeptImplies DEF Premises
  <2>6. VoteHolds(b, s)
    BY <1>2, <2>4, <2>5 DEF VoteHolds, Backed
  <2>7. StoredOnce(b, s)
    BY <2>5 DEF StoredOnce, InFile, Holds
  <2> QED
    BY <2>6, <2>7
<1>6. OnceInv(s) => \A b \in Backend : VoteHolds(b, s) /\ StoredOnce(b, s)
  BY <1>5
<1> QED
  BY <1>3, <1>4, <1>6, PTL DEF Spec

-----------------------------------------------------------------------------
(***************************************************************************)
(* Who holds the lock of a path, for every schedule.  A lock is one that a *)
(* call for its path made, or Recover; no handler finds it before it is    *)
(* made.  Whoever locks it for writing is in use of it until a handler of  *)
(* its outcome gives it back, or is overtaken by its outcome, and then its *)
(* answer is never counted.                                                *)
(***************************************************************************)
Used(b, s) == InUse(b, s) \/ Overtaken(b, s)

LocksFit(b) ==
  /\ \A p \in Path : mem[b].lock_db[p] \in Store => PathOf[mem[b].lock_db[p]] = p
  /\ \A s \in Store : mem[b].file_lock[s] \in Store => PathOf[mem[b].file_lock[s]] = PathOf[s]

Made(b, l) ==
  \/ mem[b].lock[l].writer # None
  \/ \E p \in Path : mem[b].lock_db[p] = l
  \/ \E s \in Store : mem[b].file_lock[s] = l

LocksMade(b) ==
  \A l \in Store : Made(b, l) => mem[b].pc[l] # "lookup" /\ prep[l][b] \in Taken

LocksUsed(b) ==
  \A p \in Path :
    LET l == mem[b].lock_db[p]
    IN l \in Store /\ mem[b].lock[l].writer # None => \E s \in Store : PathOf[s] = p /\ Used(b, s)

LockHolds(b) == LocksFit(b) /\ LocksMade(b) /\ LocksUsed(b)

(* What a step of Prepare does to the locks. *)
FindsLock(b, s) ==
  /\ SameLocks(b) /\ prep[s][b] = "sent"
  /\ mem'[b].file_lock = [mem[b].file_lock EXCEPT ![s] = mem[b].lock_db[PathOf[s]]]

MakesLock(b, s) ==
  /\ mem'[b].lock = mem[b].lock /\ mem[b].pc[s] = "lookup" /\ mem'[b].pc[s] # "lookup"
  /\ mem'[b].lock_db = [mem[b].lock_db EXCEPT ![PathOf[s]] = IF @ = None THEN s ELSE @]
  /\ mem'[b].file_lock = [mem[b].file_lock EXCEPT ![s] = s]

TakesLock(b, s) ==
  /\ mem'[b].lock_db = mem[b].lock_db /\ mem[b].pc[s] # "none" /\ mem'[b].pc[s] # "lookup"
  /\ \/ mem'[b].file_lock = mem[b].file_lock
     \/ mem'[b].file_lock = [mem[b].file_lock EXCEPT ![s] = None]
  /\ \A l \in Store :
       \/ mem'[b].lock[l].writer \in {mem[b].lock[l].writer, None}
       \/ l = mem[b].file_lock[s] /\ mem'[b].pc[s] = "log"

(* Every step of Prepare does one of the three. *)
LEMMA PrepareLocks ==
  ASSUME mem \in Processes, NEW b \in Backend, HandlersHold(b), NEW s \in Store,
         PrepareStep(b, s), mem'[b] # NotRunning
  PROVE  FindsLock(b, s) \/ MakesLock(b, s) \/ TakesLock(b, s)
<1> DEFINE m == mem[b]
           l == m.file_lock[s]
<1>1. m \in Memory
  BY DEF Processes
<1>2. \A x : Becomes(b, x) => mem'[b] = x
  BY DEF Becomes, Processes
<1>3. m.pc[s] \in {"open", "copy", "append", "wrlock", "log"} => l \in Store
  BY DEF HandlersHold
<1>14. l \in Store => m.lock[l] \in RwLock
  BY <1>1 DEF Memory, RwLock
<1>4. ASSUME mem'[b].lock_db = m.lock_db, m.pc[s] # "none", mem'[b].pc[s] # "lookup",
             \/ mem'[b].file_lock = m.file_lock
             \/ mem'[b].file_lock = [m.file_lock EXCEPT ![s] = None],
             NEW x \in RwLock, x.writer \in {m.lock[l].writer, None} \/ mem'[b].pc[s] = "log",
             mem'[b].lock = m.lock \/ mem'[b].lock = [m.lock EXCEPT ![l] = x]
      PROVE  TakesLock(b, s)
  <2>1. m.lock \in [Store -> RwLock]
    BY <1>1 DEF Memory, RwLock
  <2>2. \A k \in Store : \/ mem'[b].lock[k].writer \in {m.lock[k].writer, None}
                         \/ k = l /\ mem'[b].pc[s] = "log"
    BY <1>4, <2>1
  <2> QED
    BY <1>4, <2>2 DEF TakesLock
<1>5. CASE PrepareLookup(b, s)
  <2>1. PICK x, y : mem'[b] = [m EXCEPT !.pc[s] = x, !.file_lock[s] = y] /\ y = m.lock_db[PathOf[s]]
    BY <1>2, <1>5 DEF PrepareLookup
  <2>2. mem'[b].file_lock = [m.file_lock EXCEPT ![s] = y] /\ SameLocks(b)
    BY <1>1, <2>1 DEF Memory, SameLocks
  <2> QED
    BY <1>5, <2>1, <2>2 DEF FindsLock, PrepareLookup, Arrives
<1>6. CASE PrepareNewLock(b, s)
  <2>1. PICK d : /\ mem'[b] = [m EXCEPT !.pc[s] = "insert", !.file_lock[s] = s, !.lock_db = d]
                 /\ d = [m.lock_db EXCEPT ![PathOf[s]] = IF @ = None THEN s ELSE @]
    BY <1>2, <1>6 DEF PrepareNewLock
  <2>2. /\ mem'[b].file_lock = [m.file_lock EXCEPT ![s] = s] /\ mem'[b].lock_db = d
        /\ mem'[b].lock = m.lock /\ mem'[b].pc[s] = "insert"
    BY <1>1, <2>1 DEF Memory
  <2> QED
    BY <1>6, <2>1, <2>2 DEF MakesLock, PrepareNewLock, Preparing
<1>7. CASE PrepareInsert(b, s)
  <2>1. PICK x, e, d : /\ mem'[b] = [m EXCEPT !.pc[s] = x, !.state_t[s] = d, !.tx_db[TidOf[s]] = e]
                       /\ x \in {"open", "wrlock"}
    BY <1>2, <1>7 DEF PrepareInsert
  <2>2. /\ mem'[b].file_lock = m.file_lock /\ mem'[b].lock_db = m.lock_db
        /\ mem'[b].lock = m.lock /\ mem'[b].pc[s] = x
    BY <1>1, <2>1 DEF Memory
  <2>3. m.pc[s] # "none"
    BY <1>7 DEF PrepareInsert, Preparing
  <2> QED
    BY <2>1, <2>2, <2>3 DEF TakesLock
<1>8. CASE PrepareNullLock(b, s)
  BY <1>2, <1>8 DEF PrepareNullLock, ProcessEnd
<1>9. CASE PrepareOpen(b, s) \/ PrepareOpenFails(b, s)
  <2>1. PICK f : mem'[b] = [m EXCEPT !.pc[s] = "copy", !.fd = f]
    <3>1. CASE PrepareOpen(b, s)
      BY <1>2, <3>1 DEF PrepareOpen
    <3>2. CASE PrepareOpenFails(b, s)
      <4>1. mem'[b] = [m EXCEPT !.pc[s] = "copy"]
        BY <1>2, <3>2 DEF PrepareOpenFails
      <4>2. mem'[b] = [m EXCEPT !.pc[s] = "copy", !.fd = m.fd]
        BY <1>1, <4>1 DEF Memory
      <4> QED
        BY <4>2
    <3> QED
      BY <1>9, <3>1, <3>2
  <2>2. /\ mem'[b].file_lock = m.file_lock /\ mem'[b].lock_db = m.lock_db
        /\ mem'[b].lock = m.lock /\ mem'[b].pc[s] = "copy"
    BY <1>1, <2>1 DEF Memory
  <2>3. m.pc[s] # "none"
    BY <1>9 DEF PrepareOpen, PrepareOpenFails, Preparing
  <2> QED
    BY <2>2, <2>3 DEF TakesLock
<1>10. CASE PrepareCopy(b, s)
  <2>1. m.pc[s] = "copy" /\ l \in Store
    BY <1>3, <1>10 DEF PrepareCopy, Preparing
  <2>2. PICK x, n : /\ mem'[b] = [m EXCEPT !.pc[s] = "append", !.lock[l] = x, !.fd[s].offset = n]
                    /\ x = RdLocked(m.lock[l], StoreThread[s])
    BY <1>2, <1>10 DEF PrepareCopy
  <2>3. x \in RwLock /\ x.writer = m.lock[l].writer
    <3>1. PICK k \in RwLock : k = m.lock[l]
      BY <1>14, <2>1
    <3>2. RdLocked(k, StoreThread[s]) \in RwLock /\ RdLocked(k, StoreThread[s]).writer = k.writer
      BY DEF RwLock, RdLocked
    <3> QED
      BY <2>2, <3>1, <3>2
  <2>4. /\ mem'[b].file_lock = m.file_lock /\ mem'[b].lock_db = m.lock_db
        /\ mem'[b].lock = [m.lock EXCEPT ![l] = x] /\ mem'[b].pc[s] = "append"
    BY <1>1, <2>2 DEF Memory
  <2> QED
    BY <1>4, <2>1, <2>3, <2>4
<1>11. CASE PrepareAppend(b, s)
  <2>1. m.pc[s] = "append" /\ l \in Store
    BY <1>3, <1>11 DEF PrepareAppend, Preparing
  <2>2. PICK x, f : /\ mem'[b] = [m EXCEPT !.pc[s] = "wrlock", !.lock[l] = x, !.fd[s] = f]
                    /\ x = UnlockOf(m.lock[l])
    BY <1>2, <1>11 DEF PrepareAppend
  <2>3. x \in RwLock /\ x.writer = None
    <3>1. PICK k \in RwLock : k = m.lock[l]
      BY <1>14, <2>1
    <3>2. UnlockOf(k) \in RwLock /\ UnlockOf(k).writer = None
      BY DEF RwLock, UnlockOf
    <3> QED
      BY <2>2, <3>1, <3>2
  <2>4. /\ mem'[b].file_lock = m.file_lock /\ mem'[b].lock_db = m.lock_db
        /\ mem'[b].lock = [m.lock EXCEPT ![l] = x] /\ mem'[b].pc[s] = "wrlock"
    BY <1>1, <2>2 DEF Memory
  <2> QED
    BY <1>4, <2>1, <2>3, <2>4
<1>12. CASE PrepareWrLock(b, s)
  <2>1. m.pc[s] = "wrlock" /\ l \in Store
    BY <1>3, <1>12 DEF PrepareWrLock, Preparing
  <2>2. PICK x : /\ mem'[b] = [m EXCEPT !.pc[s] = "log", !.lock[l] = x]
                 /\ x = WrLocked(m.lock[l], StoreThread[s])
    BY <1>2, <1>12 DEF PrepareWrLock
  <2>3. x \in RwLock
    BY <1>14, <2>1, <2>2, BackendAssumption DEF RwLock, WrLocked
  <2>4. /\ mem'[b].file_lock = m.file_lock /\ mem'[b].lock_db = m.lock_db
        /\ mem'[b].lock = [m.lock EXCEPT ![l] = x] /\ mem'[b].pc[s] = "log"
    BY <1>1, <2>2 DEF Memory
  <2> QED
    BY <1>4, <2>1, <2>3, <2>4
<1>13. CASE PrepareLog(b, s) \/ PrepareLogFails(b, s)
  <2>1. PICK x : mem'[b] = [m EXCEPT !.pc[s] = "none", !.file_lock[s] = None, !.log_lock = x]
    BY <1>2, <1>13 DEF PrepareLog, PrepareLogFails, PrepareEnd
  <2>2. /\ mem'[b].file_lock = [m.file_lock EXCEPT ![s] = None] /\ mem'[b].lock_db = m.lock_db
        /\ mem'[b].lock = m.lock /\ mem'[b].pc[s] = "none"
    BY <1>1, <2>1 DEF Memory
  <2>3. m.pc[s] # "none"
    BY <1>13 DEF PrepareLog, PrepareLogFails, Preparing
  <2> QED
    BY <2>2, <2>3 DEF TakesLock
<1> QED
  BY <1>5, <1>6, <1>7, <1>8, <1>9, <1>10, <1>11, <1>12, <1>13 DEF PrepareStep

(* A step of Prepare leaves every user of a lock one, and makes one of whoever locks. *)
LEMMA PrepareUses ==
  ASSUME RpcTypeOK, mem \in Processes, NEW b \in Backend, HandlersHold(b), HandlersKnown(b),
         NEW s \in Store, PrepareStep(b, s), mem'[b] # NotRunning
  PROVE  /\ \A r \in Store : Used(b, r) => Used(b, r)'
         /\ mem'[b].pc[s] = "log" => Used(b, s)'
<1> DEFINE m == mem[b]
<1>1. /\ m.tx_db \in [Txid -> Store \cup {None}] /\ m.state_t \in [Store -> TxState]
      /\ DOMAIN m.pc = Store
      /\ s # None /\ None \notin Store /\ \A r \in Store : TidOf[r] \in Txid
  BY RpcAssumption DEF Processes, Memory
<1>2. \A k, t, stage : At(b, k, t, stage)' <=> At(b, k, t, stage)
  BY PrepareMoves DEF At
<1>3. \A r \in Store : r # s => mem'[b].pc[r] = m.pc[r]
  <2>1. \E x : mem'[b].pc = [m.pc EXCEPT ![s] = x]
    BY PreparePc
  <2> QED
    BY <1>1, <2>1
<1>4. /\ \A r \in Store : r # s => prep'[r][b] = prep[r][b]
      /\ prep[s][b] \in {"sent", "taken"}
  <2>1. EnvPrepare(s, b) \/ UNCHANGED rpcVars
    BY PrepareConforms
  <2>2. m.pc[s] # "none" \/ PrepareLookup(b, s)
    BY DEF PrepareStep, Preparing, PrepareNewLock, PrepareInsert, PrepareNullLock, PrepareOpen,
       PrepareOpenFails, PrepareCopy, PrepareAppend, PrepareWrLock, PrepareLog, PrepareLogFails
  <2>3. prep[s][b] \in {"sent", "taken"}
    BY <2>2 DEF HandlersHold, PrepareLookup, Arrives
  <2> QED
    BY <2>1, <2>3 DEF EnvPrepare, SetPrep, RpcTypeOK, rpcVars
<1>5. ASSUME NEW r \in Store, m.tx_db[TidOf[r]] = r, m.state_t[r] = "PREPARE"
      PROVE  mem'[b].tx_db[TidOf[r]] = r /\ mem'[b].state_t[r] = "PREPARE"
  <2>1. CASE SameEntries(b)
    BY <1>5, <2>1 DEF SameEntries
  <2>2. CASE /\ mem'[b].tx_db = [m.tx_db EXCEPT ![TidOf[s]] = IF @ = None THEN s ELSE @]
             /\ mem'[b].state_t = [m.state_t EXCEPT ![s] = "PREPARE"]
    BY <1>1, <1>5, <2>2
  <2> QED
    BY <2>1, <2>2, PrepareMoves
<1>6. ASSUME NEW r \in Store, Overtaken(b, r)
      PROVE  Overtaken(b, r)'
  <2>1. r # s
    BY <1>4, <1>6 DEF Overtaken
  <2>2. mem'[b].state_t[r] = m.state_t[r]
    <3>1. CASE SameEntries(b)
      BY <3>1 DEF SameEntries
    <3>2. CASE mem'[b].state_t = [m.state_t EXCEPT ![s] = "PREPARE"]
      BY <1>1, <2>1, <3>2
    <3> QED
      BY <3>1, <3>2, PrepareMoves
  <2> QED
    BY <1>4, <1>6, <2>1, <2>2 DEF Overtaken
<1>7. ASSUME m.pc[s] = "log"
      PROVE  Used(b, s)'
  <2>1. PrepareLog(b, s) \/ PrepareLogFails(b, s)
    BY <1>7 DEF PrepareStep, Preparing, PrepareLookup, PrepareNewLock, PrepareInsert,
       PrepareNullLock, PrepareOpen, PrepareOpenFails, PrepareCopy, PrepareAppend, PrepareWrLock
  <2>2. prep'[s][b] = "ok"
    BY <2>1 DEF PrepareLog, PrepareLogFails, PrepareEnd, SetPrep, RpcTypeOK
  <2>3. m.tx_db[TidOf[s]] = s
    BY <1>7 DEF HandlersKnown, Late
  <2>4. mem'[b].tx_db = m.tx_db /\ mem'[b].state_t = m.state_t
    <3>1. ~PrepareInsert(b, s)
      BY <1>7 DEF PrepareInsert, Preparing
    <3> QED
      BY <3>1, PrepareMoves DEF SameEntries
  <2> QED
    BY <2>2, <2>3, <2>4 DEF Used, InUse, Overtaken
<1>8. ASSUME NEW r \in Store, Used(b, r)
      PROVE  Used(b, r)'
  <2>1. CASE m.pc[r] = "log"
    BY <1>3, <1>7, <2>1 DEF Used, InUse
  <2>2. CASE m.tx_db[TidOf[r]] = r /\ m.state_t[r] = "PREPARE"
    BY <1>5, <2>2 DEF Used, InUse
  <2>3. CASE \E k \in Kind, stage \in Stage : At(b, k, TidOf[r], stage)
    BY <1>2, <2>3 DEF Used, InUse
  <2>4. CASE Overtaken(b, r)
    BY <1>6, <2>4 DEF Used
  <2> QED
    BY <1>8, <2>1, <2>2, <2>3, <2>4 DEF Used, InUse
<1>9. mem'[b].pc[s] = "log" => Used(b, s)'
  BY DEF Used, InUse
<1> QED
  BY <1>8, <1>9

(* So Prepare keeps what is said of the locks. *)
LEMMA PrepareLockHolds ==
  ASSUME RpcTypeOK, mem \in Processes, NEW b \in Backend, HandlersHold(b), HandlersKnown(b),
         LockHolds(b), NEW s \in Store, PrepareStep(b, s), mem'[b] # NotRunning,
         \A r \in Store : prep[r][b] \in Taken => prep'[r][b] \in Taken
  PROVE  LockHolds(b)'
<1> DEFINE m == mem[b]
<1>1. /\ m.lock_db \in [Path -> Store \cup {None, NULL}]
      /\ m.file_lock \in [Store -> Store \cup {None, NULL}]
      /\ DOMAIN m.pc = Store
      /\ PathOf[s] \in Path /\ None \notin Store /\ NULL \notin Store
  BY RpcAssumption, BackendAssumption DEF Processes, Memory
<1>2. LocksFit(b) /\ LocksMade(b) /\ LocksUsed(b)
  BY DEF LockHolds
<1>3. \A r \in Store : Used(b, r) => Used(b, r)'
  BY PrepareUses
<1>4. \A r \in Store : r # s => mem'[b].pc[r] = m.pc[r]
  <2>1. \E x : mem'[b].pc = [m.pc EXCEPT ![s] = x]
    BY PreparePc
  <2> QED
    BY <1>1, <2>1
<1>5. ASSUME NEW new, mem'[b].file_lock = [m.file_lock EXCEPT ![s] = new]
      PROVE  \A r \in Store : mem'[b].file_lock[r] = IF r = s THEN new ELSE m.file_lock[r]
  BY <1>1, <1>5
<1>6. CASE FindsLock(b, s)
  <2>1. /\ mem'[b].lock_db = m.lock_db /\ mem'[b].lock = m.lock /\ prep[s][b] = "sent"
        /\ \A r \in Store : mem'[b].file_lock[r] = IF r = s THEN m.lock_db[PathOf[s]] ELSE m.file_lock[r]
    BY <1>5, <1>6 DEF FindsLock, SameLocks
  <2>2. LocksFit(b)'
    BY <1>1, <1>2, <2>1 DEF LocksFit
  <2>3. \A l \in Store : Made(b, l)' => Made(b, l) /\ l # s
    <3>1. \A l \in Store : Made(b, l)' => Made(b, l)
      BY <1>1, <2>1 DEF Made
    <3>2. ~Made(b, s)
      BY <1>2, <2>1 DEF LocksMade, Taken
    <3> QED
      BY <3>1, <3>2
  <2>4. LocksMade(b)'
    BY <1>2, <1>4, <2>3 DEF LocksMade
  <2>5. LocksUsed(b)'
    BY <1>2, <1>3, <2>1 DEF LocksUsed
  <2> QED
    BY <2>2, <2>4, <2>5 DEF LockHolds
<1>7. CASE MakesLock(b, s)
  <2>1. /\ mem'[b].lock = m.lock /\ m.pc[s] = "lookup" /\ mem'[b].pc[s] # "lookup"
        /\ \A p \in Path : mem'[b].lock_db[p] = IF p = PathOf[s] /\ m.lock_db[p] = None THEN s
                                                ELSE m.lock_db[p]
        /\ \A r \in Store : mem'[b].file_lock[r] = IF r = s THEN s ELSE m.file_lock[r]
    BY <1>1, <1>5, <1>7 DEF MakesLock
  <2>2. ~Made(b, s) /\ prep[s][b] = "taken"
    BY <1>2, <2>1 DEF LocksMade, HandlersHold
  <2>3. LocksFit(b)'
    BY <1>1, <1>2, <2>1 DEF LocksFit
  <2>4. \A l \in Store : Made(b, l)' => Made(b, l) \/ l = s
    BY <1>1, <2>1 DEF Made
  <2>5. LocksMade(b)'
    BY <1>2, <1>4, <2>1, <2>2, <2>4 DEF LocksMade, Taken
  <2>6. m.lock[s].writer = None
    BY <2>2 DEF Made
  <2>7. LocksUsed(b)'
    BY <1>2, <1>3, <2>1, <2>6 DEF LocksUsed
  <2> QED
    BY <2>3, <2>5, <2>7 DEF LockHolds
<1>8. CASE TakesLock(b, s)
  <2>1. /\ mem'[b].lock_db = m.lock_db /\ m.pc[s] # "none" /\ mem'[b].pc[s] # "lookup"
        /\ \A r \in Store : mem'[b].file_lock[r] \in {m.file_lock[r], None}
        /\ \A l \in Store : \/ mem'[b].lock[l].writer \in {m.lock[l].writer, None}
                            \/ l = m.file_lock[s] /\ mem'[b].pc[s] = "log"
    BY <1>5, <1>8 DEF TakesLock
  <2>2. LocksFit(b)'
    BY <1>1, <1>2, <2>1 DEF LocksFit
  <2>3. \A l \in Store : Made(b, l)' => Made(b, l)
    BY <1>1, <2>1 DEF Made
  <2>4. LocksMade(b)'
    BY <1>2, <1>4, <2>1, <2>3 DEF LocksMade
  <2>5. mem'[b].pc[s] = "log" => Used(b, s)'
    BY PrepareUses
  <2>6. LocksUsed(b)'
    <3> SUFFICES ASSUME NEW p \in Path, NEW l \in Store, l = m.lock_db[p],
                        mem'[b].lock[l].writer # None
                 PROVE  \E r \in Store : PathOf[r] = p /\ Used(b, r)'
      BY <2>1 DEF LocksUsed
    <3>1. CASE m.lock[l].writer # None
      BY <1>2, <1>3, <3>1 DEF LocksUsed
    <3>2. CASE l = m.file_lock[s] /\ mem'[b].pc[s] = "log"
      <4>1. PathOf[s] = p
        BY <1>2, <3>2 DEF LocksFit
      <4> QED
        BY <2>5, <3>2, <4>1
    <3> QED
      BY <2>1, <3>1, <3>2
  <2> QED
    BY <2>2, <2>4, <2>6 DEF LockHolds
<1> QED
  BY <1>6, <1>7, <1>8, PrepareLocks

\* There is a handler of an outcome of t.
Handled(b, t) == \E k \in Kind, stage \in Stage : At(b, k, t, stage)

(* A handler that enters, or moves on, is there; those of other txids stay. *)
LEMMA CountsStay ==
  ASSUME NEW h \in Counts, NEW k \in Kind, NEW t \in Txid, NEW x \in Stage
  PROVE  /\ Enters(h, k, t, x)[k][t][x] > 0
         /\ \A j \in Kind, u \in Txid, z \in Stage :
              u # t => /\ Enters(h, k, t, x)[j][u][z] = h[j][u][z]
                       /\ Leaves(h, k, t, x)[j][u][z] = h[j][u][z]
<1> DEFINE n == h[k][t][x]
<1>1. n \in Nat
  BY DEF Counts
<1>2. \A m : /\ [h EXCEPT ![k][t][x] = m][k][t][x] = m
             /\ \A j \in Kind, u \in Txid, z \in Stage :
                  u # t => [h EXCEPT ![k][t][x] = m][j][u][z] = h[j][u][z]
  BY DEF Counts
<1>3. /\ Enters(h, k, t, x) = [h EXCEPT ![k][t][x] = n + 1]
      /\ Leaves(h, k, t, x) = [h EXCEPT ![k][t][x] = n - 1]
  BY DEF Enters, Leaves
<1> HIDE DEF n
<1> QED
  BY <1>1, <1>2, <1>3

(* So a handler is there for its txid until the last one leaves. *)
LEMMA HandlersStay ==
  ASSUME mem \in Processes, NEW b \in Backend, NEW k \in Kind, NEW t \in Txid, NEW x \in Stage
  PROVE  /\ mem'[b].handlers = Enters(mem[b].handlers, k, t, x) =>
              \A u \in Txid : u = t \/ Handled(b, u) => Handled(b, u)'
         /\ \A y \in Stage :
              At(b, k, t, x) /\ mem'[b].handlers = MovesOn(mem[b].handlers, k, t, x, y) =>
                \A u \in Txid : Handled(b, u) => Handled(b, u)'
         /\ mem'[b].handlers = Leaves(mem[b].handlers, k, t, x) =>
              \A u \in Txid : u # t /\ Handled(b, u) => Handled(b, u)'
<1> DEFINE h == mem[b].handlers
           i == mem'[b].handlers
<1>1. h \in Counts
  BY DEF Processes, Memory, Counts
<1>2. \A j \in Kind, u \in Txid, z \in Stage :
        (At(b, j, u, z) <=> h[j][u][z] > 0) /\ (At(b, j, u, z)' <=> i[j][u][z] > 0)
  BY DEF At
<1> HIDE DEF h, i
<1>3. ASSUME NEW u \in Txid, \A j \in Kind, z \in Stage : i[j][u][z] = h[j][u][z], Handled(b, u)
      PROVE  Handled(b, u)'
  BY <1>2, <1>3 DEF Handled
<1>4. ASSUME NEW y \in Stage, i[k][t][y] > 0
      PROVE  Handled(b, t)'
  BY <1>2, <1>4 DEF Handled
<1>5. ASSUME i = Enters(h, k, t, x), NEW u \in Txid, u = t \/ Handled(b, u)
      PROVE  Handled(b, u)'
  <2>1. CASE u = t
    BY <1>1, <1>4, <1>5, <2>1, CountsStay
  <2>2. CASE u # t
    BY <1>1, <1>3, <1>5, <2>2, CountsStay
  <2> QED
    BY <2>1, <2>2
<1>6. ASSUME NEW y \in Stage, At(b, k, t, x), i = MovesOn(h, k, t, x, y),
             NEW u \in Txid, Handled(b, u)
      PROVE  Handled(b, u)'
  <2>1. Leaves(h, k, t, x) \in Counts
    BY <1>1, <1>2, <1>6, CountsMove
  <2>2. i = Enters(Leaves(h, k, t, x), k, t, y)
    BY <1>6 DEF MovesOn
  <2>3. i[k][t][y] > 0 /\ \A j \in Kind, z \in Stage : u # t => i[j][u][z] = Leaves(h, k, t, x)[j][u][z]
    BY <2>1, <2>2, CountsStay
  <2>4. \A j \in Kind, z \in Stage : u # t => Leaves(h, k, t, x)[j][u][z] = h[j][u][z]
    BY <1>1, CountsStay
  <2> QED
    BY <1>3, <1>4, <1>6, <2>3, <2>4
<1>7. ASSUME i = Leaves(h, k, t, x), NEW u \in Txid, u # t, Handled(b, u)
      PROVE  Handled(b, u)'
  BY <1>1, <1>3, <1>7, CountsStay
<1> QED
  BY <1>5, <1>6, <1>7 DEF h, i

(* A step that makes no lock and locks none keeps what is said of them. *)
LEMMA LocksKept ==
  ASSUME NEW b \in Backend, LockHolds(b), mem'[b].pc = mem[b].pc,
         mem'[b].file_lock = mem[b].file_lock,
         \A r \in Store : prep[r][b] \in Taken => prep'[r][b] \in Taken,
         \A p \in Path : mem'[b].lock_db[p] \in Store => mem'[b].lock_db[p] = mem[b].lock_db[p],
         \A l \in Store : mem'[b].lock[l].writer \in {mem[b].lock[l].writer, None},
         \A s \in Store, l \in Store :
           /\ mem'[b].lock_db[PathOf[s]] = l /\ mem'[b].lock[l].writer # None
           /\ Used(b, s)
           => Used(b, s)'
  PROVE  LockHolds(b)'
<1>1. LocksFit(b)'
  BY DEF LockHolds, LocksFit
<1>2. \A l \in Store : Made(b, l)' => Made(b, l)
  BY DEF Made
<1>3. LocksMade(b)'
  BY <1>2 DEF LockHolds, LocksMade
<1>4. LocksUsed(b)'
  <2> SUFFICES ASSUME NEW p \in Path, NEW l \in Store, l = mem'[b].lock_db[p],
                      mem'[b].lock[l].writer # None
               PROVE  \E s \in Store : PathOf[s] = p /\ Used(b, s)'
    BY DEF LocksUsed
  <2>1. l = mem[b].lock_db[p] /\ mem[b].lock[l].writer # None
    OBVIOUS
  <2>2. PICK s \in Store : PathOf[s] = p /\ Used(b, s)
    BY <2>1 DEF LockHolds, LocksUsed
  <2> QED
    BY <2>2
<1> QED
  BY <1>1, <1>3, <1>4 DEF LockHolds

(* The vote of a call that its outcome overtook is never counted: the      *)
(* coordinator has ended its first phase.                                  *)
LEMMA OvertakenStays ==
  ASSUME DistinctTids, OutcomeInv, Counting, NEW b \in Backend, EntriesRight(b), mem \in Processes,
         CoordNext, mem'[b] = mem[b], NEW s \in Store, Overtaken(b, s)
  PROVE  Overtaken(b, s)'
<1>1. mem[b].state_t[s] \in {"COMMIT", "ABORT"} /\ prep[s][b] = "ok"
  BY DEF Overtaken, Processes, Memory, TxState
<1>2. pc[s] \in {"logged", "done"}
  <2>1. CASE TidOf[s] \in log
    BY <2>1 DEF OutcomeInv, LogOwned, DistinctTids
  <2>2. CASE Over(s)
    BY <2>2 DEF Over
  <2> QED
    BY <1>1, <2>1, <2>2 DEF EntriesRight, Right
<1>3. waiting[s] = {} /\ prep \in [Store -> [Backend -> PrepStage]]
  BY <1>2 DEF Counting, OutcomeInv, TypeOK, RpcTypeOK, PrepStage
<1>4. prep'[s][b] = "ok"
  <2>1. CASE \E r \in Store : StoreBegin(r)
    <3>1. PICK r \in Store : StoreBegin(r)
      BY <2>1
    <3>2. r # s
      BY <1>2, <3>1 DEF StoreBegin
    <3> QED
      BY <1>1, <1>3, <3>1, <3>2 DEF StoreBegin, SendPrepare
  <2>2. CASE \E r \in Store, c \in Backend : GetVoteReturn(r, c)
    <3>1. PICK r \in Store, c \in Backend : GetVoteReturn(r, c)
      BY <2>2
    <3>2. r # s
      BY <1>3, <3>1 DEF GetVoteReturn
    <3> QED
      BY <1>1, <1>3, <3>1, <3>2 DEF GetVoteReturn, SetPrep
  <2>3. \/ UNCHANGED prep
        \/ \E r \in Store : StoreBegin(r)
        \/ \E r \in Store, c \in Backend : GetVoteReturn(r, c)
    BY DEF CoordNext, StoreStep, GetVoteFails, StoreAbort, StoreLog, StoreLogFails, StoreAnnounce,
       JoinPastEnd, RegisterInsert, RegisterCount, CommitVote, CoordCrash, Recover, rpcVars,
       SendCall, ProcessEnds, Finish, tpcLog
  <2> QED
    BY <1>1, <2>1, <2>2, <2>3
<1> QED
  BY <1>1, <1>4 DEF Overtaken

(* A store that is not running has no locks. *)
LEMMA LocksForgotten ==
  ASSUME NEW b \in Backend, mem'[b] = NotRunning
  PROVE  LockHolds(b)'
<1>1. /\ \A p \in Path : mem'[b].lock_db[p] = None
      /\ \A s \in Store : mem'[b].file_lock[s] = None /\ mem'[b].lock[s].writer = None
  BY DEF NotRunning, Unlocked
<1>2. None \notin Store
  BY RpcAssumption
<1> QED
  BY <1>1, <1>2 DEF LockHolds, LocksFit, LocksMade, LocksUsed, Made

(* Elsewhere nothing changes but what the coordinator counts. *)
LEMMA LocksElsewhere ==
  ASSUME NEW b \in Backend, LockHolds(b), mem'[b] = mem[b],
         \A r \in Store : prep[r][b] \in Taken => prep'[r][b] \in Taken,
         \A r \in Store : Overtaken(b, r) => Overtaken(b, r)'
  PROVE  LockHolds(b)'
<1>1. \A r \in Store : InUse(b, r)' <=> InUse(b, r)
  BY DEF InUse, At
<1>2. \A r \in Store : Used(b, r) => Used(b, r)'
  BY <1>1 DEF Used
<1> QED
  BY <1>2, LocksKept

(* Setting the state of an entry leaves its call a handler, and overtaken calls so. *)
LEMMA UsedStays ==
  ASSUME mem \in Processes, NEW b \in Backend, NEW t \in Txid, EntriesHold(b), UNCHANGED prep,
         mem'[b].pc = mem[b].pc, mem'[b].tx_db = mem[b].tx_db,
         \/ mem'[b].state_t = mem[b].state_t
         \/ \E x \in {"COMMIT", "ABORT"} :
              /\ mem'[b].state_t = [mem[b].state_t EXCEPT ![mem[b].tx_db[t]] = x]
              /\ mem[b].tx_db[t] # None /\ Handled(b, t)',
         NEW s \in Store, Handled(b, TidOf[s]) => Handled(b, TidOf[s])', Used(b, s)
  PROVE  Used(b, s)'
<1> DEFINE m == mem[b]
           e == m.tx_db[t]
<1>1. /\ m.state_t \in [Store -> TxState] /\ m.tx_db \in [Txid -> Store \cup {None}]
      /\ TidOf[s] \in Txid /\ None \notin Store
  BY RpcAssumption DEF Processes, Memory
<1>2. \/ mem'[b].state_t[s] = m.state_t[s]
      \/ s = e /\ mem'[b].state_t[s] # "PREPARE" /\ Handled(b, t)'
  BY <1>1
<1>3. s = e => TidOf[s] = t
  BY <1>1 DEF EntriesHold
<1>4. CASE m.pc[s] = "log"
  BY <1>4 DEF Used, InUse
<1>5. CASE m.tx_db[TidOf[s]] = s /\ m.state_t[s] = "PREPARE"
  BY <1>2, <1>3, <1>5 DEF Used, InUse, Handled
<1>6. CASE Handled(b, TidOf[s])
  BY <1>6 DEF Used, InUse, Handled
<1>7. CASE Overtaken(b, s)
  BY <1>2, <1>7 DEF Used, Overtaken
<1> QED
  BY <1>4, <1>5, <1>6, <1>7 DEF Used, InUse, Handled

(* A handler of an outcome keeps what is said of the locks: the last one   *)
(* of its call gives the lock back.                                        *)
LEMMA OutcomeLocks ==
  ASSUME DistinctTids, RpcTypeOK, mem \in Processes, NEW b \in Backend, EntriesHold(b),
         HalfwayHolds(b), LockHolds(b), NEW t \in Txid, OutcomeStep(b, t), mem'[b] # NotRunning
  PROVE  LockHolds(b)'
<1> DEFINE m == mem[b]
           e == m.tx_db[t]
<1>1. /\ m.lock_db \in [Path -> Store \cup {None, NULL}]
      /\ m.lock \in [Store -> RwLock]
      /\ m.tx_db \in [Txid -> Store \cup {None}]
      /\ None \notin Store /\ NULL \notin Store
      /\ \A s \in Store : TidOf[s] \in Txid /\ PathOf[s] \in Path
  BY RpcAssumption, BackendAssumption DEF Processes, Memory, RwLock
<1>2. UNCHANGED prep
  BY DEF OutcomeStep, AbortBegin, CommitBegin, CommitFile, CommitState, LogAndUnlock,
     LogFailsAndUnlock, rpcVars
<1>3. LocksFit(b)
  BY DEF LockHolds
<1>4. \A l \in Store : m.lock[l].writer \in {m.lock[l].writer, None}
  OBVIOUS
<1>5. ASSUME SamePrepares(b), SameLocks(b) \/ (/\ mem'[b].lock = m.lock /\ e # None
                                               /\ mem'[b].lock_db = [m.lock_db EXCEPT ![PathOf[e]] =
                                                                       LockLookup(b, e)]),
             mem'[b].tx_db = m.tx_db,
             \/ mem'[b].state_t = m.state_t
             \/ \E x \in {"COMMIT", "ABORT"} :
                  /\ mem'[b].state_t = [m.state_t EXCEPT ![e] = x]
                  /\ e # None /\ Handled(b, t)',
             \A u \in Txid : Handled(b, u) => Handled(b, u)'
      PROVE  LockHolds(b)'
  <2>1. \A s \in Store : Used(b, s) => Used(b, s)'
    BY <1>1, <1>2, <1>5, UsedStays DEF SamePrepares
  <2>2. /\ mem'[b].lock = m.lock
        /\ \A p \in Path : mem'[b].lock_db[p] \in Store => mem'[b].lock_db[p] = m.lock_db[p]
    <3>1. CASE SameLocks(b)
      BY <3>1 DEF SameLocks
    <3>2. CASE mem'[b].lock = m.lock /\ e # None
               /\ mem'[b].lock_db = [m.lock_db EXCEPT ![PathOf[e]] = LockLookup(b, e)]
      BY <1>1, <3>2 DEF LockLookup
    <3> QED
      BY <1>5, <3>1, <3>2
  <2> QED
    BY <1>2, <1>5, <2>1, <2>2, LocksKept DEF SamePrepares
<1>6. CASE AbortBegin(b, t) \/ CommitBegin(b, t)
  <2>1. CASE SameLocks(b) /\ SameEntries(b) /\ mem'[b].handlers = m.handlers
    <3>1. \A u \in Txid : Handled(b, u) => Handled(b, u)'
      BY <2>1 DEF Handled, At
    <3> QED
      BY <1>5, <1>6, <2>1, <3>1, BeginMoves DEF SameEntries
  <2>2. ASSUME e # None, NEW k \in Kind, NEW x \in Stage,
               mem'[b].handlers = Enters(m.handlers, k, t, x)
        PROVE  Handled(b, t)' /\ \A u \in Txid : Handled(b, u) => Handled(b, u)'
    BY <2>2, HandlersStay
  <2>3. CASE /\ e # None
             /\ mem'[b].lock_db = [m.lock_db EXCEPT ![PathOf[e]] = LockLookup(b, e)]
             /\ \/ /\ mem'[b].state_t = [m.state_t EXCEPT ![e] = "ABORT"]
                   /\ mem'[b].handlers = Enters(m.handlers, "abort", t, "log")
                \/ /\ mem'[b].state_t = m.state_t
                   /\ mem'[b].handlers = Enters(m.handlers, "commit", t, "file")
    <3>1. Handled(b, t)' /\ \A u \in Txid : Handled(b, u) => Handled(b, u)'
      BY <2>2, <2>3 DEF Kind, Stage
    <3> QED
      BY <1>5, <1>6, <2>3, <3>1, BeginMoves
  <2> QED
    BY <1>6, <2>1, <2>3, BeginMoves
<1>7. CASE CommitFile(b, t)
  <2>1. At(b, "commit", t, "file")
    BY <1>7 DEF CommitFile
  <2>2. \A u \in Txid : Handled(b, u) => Handled(b, u)'
    BY <1>7, <2>1, CommitMoves, HandlersStay DEF Kind, Stage
  <2> QED
    BY <1>5, <1>7, <2>2, CommitMoves DEF SameEntries
<1>8. CASE CommitState(b, t)
  <2>1. At(b, "commit", t, "state")
    BY <1>8 DEF CommitState
  <2>2. \A u \in Txid : Handled(b, u) => Handled(b, u)'
    BY <1>8, <2>1, CommitMoves, HandlersStay DEF Kind, Stage
  <2>3. e # None /\ Handled(b, t)
    BY <2>1 DEF HalfwayHolds, Handled, Kind, Stage
  <2> QED
    BY <1>5, <1>8, <2>2, <2>3, CommitMoves
<1>9. ASSUME NEW k \in Kind, LogAndUnlock(b, k, t) \/ LogFailsAndUnlock(b, k, t)
      PROVE  LockHolds(b)'
  <2> DEFINE l == m.lock_db[PathOf[e]]
  <2>1. At(b, k, t, "log")
    BY <1>9 DEF LogAndUnlock, LogFailsAndUnlock
  <2>2. e \in Store /\ TidOf[e] = t /\ l # None
    BY <1>1, <2>1 DEF HalfwayHolds, EntriesHold, Stage
  <2>3. /\ SamePrepares(b) /\ SameEntries(b) /\ mem'[b].lock_db = m.lock_db
        /\ mem'[b].handlers = Leaves(m.handlers, k, t, "log")
        /\ l # NULL /\ mem'[b].lock = [m.lock EXCEPT ![l] = UnlockOf(@)]
    <3> HIDE DEF m, e, l
    <3>1. l = mem[b].lock_db[PathOf[mem[b].tx_db[t]]]
      BY DEF m, e, l
    <3> QED
      BY <1>9, <3>1, EndMoves, ZenonT(60) DEF m
  <2>4. l \in Store
    BY <1>1, <2>2, <2>3
  <2>5. mem'[b].lock[l].writer = None /\ \A x \in Store \ {l} : mem'[b].lock[x] = m.lock[x]
    <3>1. PICK x \in RwLock : x = m.lock[l]
      BY <1>1, <2>4
    <3>2. UnlockOf(x).writer = None
      BY DEF RwLock, UnlockOf
    <3> QED
      BY <1>1, <2>3, <2>4, <3>1, <3>2
  <2>6. \A u \in Txid : u # t /\ Handled(b, u) => Handled(b, u)'
    BY <2>3, HandlersStay DEF Stage
  <2>7. ASSUME NEW s \in Store, s # e, Used(b, s)
        PROVE  Used(b, s)'
    <3>1. TidOf[s] # t
      BY <2>2, <2>7 DEF DistinctTids
    <3> QED
      BY <1>1, <1>2, <2>3, <2>6, <2>7, <3>1, UsedStays DEF SamePrepares, SameEntries
  <2>8. ASSUME NEW s \in Store, NEW x \in Store, mem'[b].lock_db[PathOf[s]] = x,
               mem'[b].lock[x].writer # None, Used(b, s)
        PROVE  Used(b, s)'
    BY <2>3, <2>5, <2>7, <2>8
  <2>9. \A x \in Store : mem'[b].lock[x].writer \in {m.lock[x].writer, None}
    BY <2>5
  <2> QED
    BY <1>2, <2>3, <2>8, <2>9, LocksKept DEF SamePrepares
<1> QED
  BY <1>6, <1>7, <1>8, <1>9 DEF OutcomeStep

(* Recover locks the paths of the calls in doubt, and no other step of the  *)
(* process touches a lock.                                                 *)
LEMMA RestLocks ==
  ASSUME mem \in Processes, NEW b \in Backend, HandlersKnown(b), RecordsHold(b), LockHolds(b),
         mem'[b] # NotRunning,
         \/ StoreStart(b) \/ StoreRecover(b) \/ Listen(b) \/ AskReturns(b)
         \/ Exit(b) \/ StoreCrash(b)
         \/ \E t \in Txid : AskAgain(b, t)
  PROVE  LockHolds(b)'
<1> DEFINE m == mem[b]
<1>1. /\ None \notin Store /\ NULL \notin Store
      /\ \A s \in Store : TidOf[s] \in Txid /\ PathOf[s] \in Path
  BY RpcAssumption, BackendAssumption
<1>2. UNCHANGED prep
  BY DEF StoreStart, StoreRecover, Listen, AskReturns, Exit, StoreCrash, AskAgain, rpcVars
<1>3. SamePrepares(b) /\ mem'[b].handlers = m.handlers
  BY RestMoves
<1>4. CASE SameLocks(b) /\ SameEntries(b)
  <2>1. \A s \in Store : Used(b, s)' <=> Used(b, s)
    BY <1>2, <1>3, <1>4 DEF Used, InUse, Overtaken, At, SamePrepares, SameEntries
  <2> QED
    BY <1>2, <1>3, <1>4, <2>1, LocksKept DEF SamePrepares, SameLocks
<1>5. CASE /\ StoreRecover(b)
           /\ mem'[b].tx_db = [t \in Txid |-> LastRecord(b, t).req]
           /\ mem'[b].state_t = [s \in Store |-> IF LastRecord(b, TidOf[s]).req = s
                                   THEN LastRecord(b, TidOf[s]).state_t ELSE m.state_t[s]]
           /\ mem'[b].lock_db = [p \in Path |-> RecoveredLock(b, p)]
           /\ mem'[b].lock = [s \in Store |-> IF RecoveredLock(b, PathOf[s]) = s
                                THEN WrLocked(m.lock[s], Main) ELSE m.lock[s]]
  <2>1. \A s \in Store : m.pc[s] = "none"
    BY <1>5 DEF StoreRecover, HandlersKnown
  <2>2. ASSUME NEW p \in Path, NEW l \in Store, RecoveredLock(b, p) = l
        PROVE  PathOf[l] = p /\ LastRecord(b, TidOf[l]) = [state_t |-> "PREPARE", req |-> l]
    <3> DEFINE R == {s \in InDoubt(b) : PathOf[s] = p}
    <3>1. R # {}
      BY <1>1, <2>2 DEF RecoveredLock
    <3>2. (CHOOSE s \in R : TRUE) \in R /\ l = CHOOSE s \in R : TRUE
      BY <2>2, <3>1 DEF RecoveredLock
    <3> QED
      BY <3>2 DEF InDoubt
  <2>3. ASSUME NEW l \in Store, LastRecord(b, TidOf[l]) = [state_t |-> "PREPARE", req |-> l]
        PROVE  prep[l][b] \in Taken /\ InUse(b, l)'
    <3>1. LastRecord(b, TidOf[l]).state_t = "PREPARE" /\ LastRecord(b, TidOf[l]).req = l
      BY <2>3
    <3>2. prep[l][b] \in Taken
      BY <1>1, <3>1 DEF RecordsHold
    <3>3. mem'[b].tx_db[TidOf[l]] = l /\ mem'[b].state_t[l] = "PREPARE"
      BY <1>1, <1>5, <3>1
    <3> QED
      BY <3>2, <3>3 DEF InUse
  <2>4. /\ \A p \in Path : mem'[b].lock_db[p] = RecoveredLock(b, p)
        /\ \A l \in Store : mem'[b].lock[l] = m.lock[l] \/ RecoveredLock(b, PathOf[l]) = l
    BY <1>5
  <2>5. LocksFit(b)'
    BY <1>3, <2>2, <2>4 DEF LocksFit, LockHolds, SamePrepares
  <2>6. \A l \in Store : Made(b, l)' => Made(b, l) \/ prep[l][b] \in Taken
    <3> SUFFICES ASSUME NEW l \in Store, Made(b, l)', ~Made(b, l)
                 PROVE  prep[l][b] \in Taken
      OBVIOUS
    <3>1. mem'[b].file_lock = m.file_lock
      BY <1>3 DEF SamePrepares
    <3>2. mem'[b].lock[l] # m.lock[l] \/ \E p \in Path : mem'[b].lock_db[p] = l
      BY <3>1 DEF Made
    <3>3. \E p \in Path : RecoveredLock(b, p) = l
      BY <1>1, <2>4, <3>2
    <3> QED
      BY <2>2, <2>3, <3>3
  <2>7. LocksMade(b)'
    BY <1>2, <1>3, <2>1, <2>6 DEF LocksMade, LockHolds, SamePrepares
  <2>8. LocksUsed(b)'
    BY <2>2, <2>3, <2>4 DEF LocksUsed, Used
  <2> QED
    BY <2>5, <2>7, <2>8 DEF LockHolds
<1> QED
  BY <1>4, <1>5, RestMoves

\* What the theorem rests on.
LockInv == AgreeInv /\ VoteInv /\ \A b \in Backend : LockHolds(b)

(* It holds of every store at the start. *)
LEMMA LockInvInit == Init => LockInv
<1> SUFFICES ASSUME Init
             PROVE  LockInv
  OBVIOUS
<1>1. AgreeInv /\ VoteInv
  BY AgreeInvInit, VoteInvInit DEF Init, ClosedInit
<1>2. ASSUME NEW b \in Backend
      PROVE  LockHolds(b)
  <2>1. mem[b] = NotRunning
    BY DEF Init, BackendInit
  <2>2. /\ \A p \in Path : mem[b].lock_db[p] = None
        /\ \A s \in Store : mem[b].file_lock[s] = None /\ mem[b].lock[s].writer = None
    BY <2>1 DEF NotRunning, Unlocked
  <2>3. None \notin Store
    BY RpcAssumption
  <2> QED
    BY <2>2, <2>3 DEF LockHolds, LocksFit, LocksMade, LocksUsed, Made
<1> QED
  BY <1>1, <1>2 DEF LockInv

(* Every step keeps it. *)
LEMMA LockInvNext ==
  ASSUME DistinctTids, WriteMayFail = FALSE, LockInv, [Next]_vars
  PROVE  LockInv'
<1>1. AgreeInv' /\ VoteInv'
  BY AgreeInvNext, VoteInvNext, SystemStepConforms DEF LockInv, AgreeInv
<1>2. /\ disk \in Files /\ mem \in Processes /\ RpcTypeOK /\ TypeOK /\ Started
      /\ OutcomeInv /\ Counting
      /\ \A b \in Backend : StoreHolds(b) /\ StoreKnows(b) /\ LockHolds(b)
  BY DEF LockInv, VoteInv, AgreeInv, SystemInv, TypeOK, BackendTypeOK, Files, Processes
<1> SUFFICES ASSUME NEW b \in Backend
             PROVE  LockHolds(b)'
  BY <1>1 DEF LockInv
<1>3. CASE CoordNext /\ UNCHANGED backendVars
  <2>1. \A r \in Store : Overtaken(b, r) => Overtaken(b, r)'
    BY <1>2, <1>3, OvertakenStays DEF StoreKnows, backendVars
  <2>2. \A r \in Store : prep[r][b] \in Taken => prep'[r][b] \in Taken
    BY <1>2, <1>3, CoordPrep
  <2> QED
    BY <1>2, <1>3, <2>1, <2>2, LocksElsewhere DEF backendVars
<1>4. CASE UNCHANGED backendVars /\ UNCHANGED prep
  <2>1. \A r \in Store : Overtaken(b, r) => Overtaken(b, r)'
    BY <1>4 DEF Overtaken, backendVars
  <2> QED
    BY <1>2, <1>4, <2>1, LocksElsewhere DEF backendVars
<1>5. ASSUME NEW c \in Backend, BackendStep(c)
      PROVE  LockHolds(b)'
  <2>1. HandlersHold(c) /\ HalfwayHolds(c) /\ EntriesHold(c) /\ RecordsHold(c) /\ HandlersKnown(c)
    BY <1>2 DEF StoreHolds, StoreKnows
  <2>2. CASE c # b
    <3>1. mem'[b] = mem[b] /\ \A s \in Store : prep'[s][b] = prep[s][b]
      BY <1>2, <1>5, <2>1, <2>2, OthersKept
    <3>2. \A r \in Store : Overtaken(b, r) => Overtaken(b, r)'
      BY <3>1 DEF Overtaken
    <3> QED
      BY <1>2, <3>1, <3>2, LocksElsewhere
  <2>3. CASE c = b /\ mem'[b] = NotRunning
    BY <2>3, LocksForgotten
  <2>4. CASE c = b /\ mem'[b] # NotRunning
    <3>1. ASSUME NEW s \in Store, PrepareStep(b, s)
          PROVE  LockHolds(b)'
      <4>1. \A r \in Store : prep[r][b] \in Taken => prep'[r][b] \in Taken
        BY <1>2, <1>5, <2>1, <2>4, OthersKept
      <4> QED
        BY <1>2, <2>1, <2>4, <3>1, <4>1, PrepareLockHolds
    <3>2. ASSUME NEW t \in Txid, OutcomeStep(b, t)
          PROVE  LockHolds(b)'
      BY <1>2, <2>1, <2>4, <3>2, OutcomeLocks
    <3>3. CASE \/ StoreStart(b) \/ StoreRecover(b) \/ Listen(b) \/ AskReturns(b)
               \/ Exit(b) \/ StoreCrash(b)
               \/ \E t \in Txid : AskAgain(b, t)
      BY <1>2, <2>1, <2>4, <3>3, RestLocks
    <3> QED
      BY <1>5, <2>4, <3>1, <3>2, <3>3 DEF BackendStep
  <2> QED
    BY <2>2, <2>3, <2>4
<1>6. UNCHANGED vars => UNCHANGED backendVars /\ UNCHANGED prep
  BY DEF vars, backendVars, rpcVars
<1>7. RpcNext => UNCHANGED prep
  BY DEF RpcNext, LoseReg, LoseAsk, LoseCall
<1> QED
  BY <1>3, <1>4, <1>5, <1>6, <1>7 DEF Next, BackendNext

(* Whoever locks a path for writing is a call for it that is prepared and  *)
(* in doubt, or whose outcome a handler is carrying out, or one that its   *)
(* outcome overtook: Commit and Abort give every lock back, for any        *)
(* number of calls, of handlers of one call and of threads, with any       *)
(* crash and any failing write of a store.                                 *)
THEOREM LocksReturnedCorrect ==
  ASSUME DistinctTids, WriteMayFail = FALSE
  PROVE  Spec => []LocksReturned
<1>1. LockInv => LocksReturned
  BY DEF LockInv, LockHolds, LocksUsed, LocksReturned, Used
<1>2. LockInv /\ [Next]_vars => LockInv'
  BY LockInvNext
<1> QED
  BY <1>1, <1>2, LockInvInit, PTL DEF Spec

=============================================================================
