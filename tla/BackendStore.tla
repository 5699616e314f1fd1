---------------------------- MODULE BackendStore ----------------------------
(***************************************************************************)
(* The store processes, backend_store.cc: Prepare, Commit and Abort, the   *)
(* thread that asks the coordinator for overdue outcomes, and the recovery *)
(* of a restarted process from its log.                                    *)
(*                                                                         *)
(* mem[b] is what the process of store b loses when it ends, disk[b] what  *)
(* it finds when it is started again.  Processes crash, the machine does   *)
(* not: what was written to a file is there after a restart.               *)
(***************************************************************************)
EXTENDS Rpc, Sequences

CONSTANTS
  Path,            \* the paths of the files that are stored
  PathOf,          \* PathOf[s], OpOf[s]: path and op of call s
  OpOf,
  StoreThread,     \* StoreThread[s]: the thread that runs the Prepare call of s
  Main,            \* the main thread, which runs Recover
  NULL,            \* what lock_db[path] is when operator[] had to insert it
  StoreWriteMayFail,  \* whether open() and write() can fail in a store
  MayTimeOut,      \* the txids whose outcome can be late enough for the retry thread to ask
  MaxHandlers,     \* bound on the Commit, or Abort, handlers of one txid that run at once
  MaxStoreCrash    \* bound on the crashes of the stores

ASSUME BackendAssumption ==
  /\ PathOf \in [Store -> Path]
  /\ OpOf \in [Store -> {"store", "delete"}]
  /\ StoreThread \in [Store -> Thread]
  /\ Main \notin Thread \cup {None}
  /\ NULL \notin Store \cup {None}
  /\ StoreWriteMayFail \in BOOLEAN
  /\ MayTimeOut \subseteq Txid
  /\ MaxHandlers \in Nat \ {0}
  /\ MaxStoreCrash \in Nat

VARIABLES
  mem,           \* mem[b]: the process
  disk,          \* disk[b]: its files
  store_crashes  \* number of crashes so far

backendVars == <<mem, disk, store_crashes>>

TxState == {"PREPARE", "ABORT", "COMMIT"}

\* A record of store_log gives the path and op of the entry it was made from: those of req.
NoRecord == [state_t |-> "none", req |-> None]

\* What a Commit handler is about to do: rename or unlink, set the state, log and unlock.
\* An Abort handler is at "log" only.
Stage == {"file", "state", "log"}

(***************************************************************************)
(* Objects are named by the call that made them: an entry, a lock, the     *)
(* inode of a temporary file.                                              *)
(***************************************************************************)
Memory == [
  status    : {"off", "registering", "recovering", "up"},
  exiting   : BOOLEAN,                         \* a Commit handler is at exit(0)
  tx_db     : [Txid -> Store \cup {None}],     \* the Tx_entry of a txid
  state_t   : [Store -> TxState],              \* its state_t
  lock_db   : [Path -> Store \cup {None, NULL}],
  lock      : [Store -> [writer : Thread \cup {Main, None}, readers : Int]],
  pc        : [Store -> {"none", "lookup", "insert", "open", "copy", "append",
                         "wrlock", "log"}],    \* where the Prepare handler is
  file_lock : [Store -> Store \cup {None, NULL}],
  fd        : [Store -> [inode : Store \cup {None}, offset : Nat]],
  log_lock  : Thread \cup {None},             \* who left it locked after a failed write
  handlers  : [Kind -> [Txid -> [Stage -> Nat]]],  \* the Commit and Abort handlers that run
  asking    : Txid \cup {None}]                \* what the retry thread waits for

\* A file's content: the buffers written to it, and None for a hole.
Disk == [
  store_log : [Txid -> [state_t : TxState, req : Store] \cup {NoRecord}],
  temp      : [Txid -> Store \cup {None}],     \* the inode of file "<txid>"
  file      : [Path -> Store \cup {None}],
  data      : [Store -> Seq(Store \cup {None})]]

BackendTypeOK ==
  /\ mem \in [Backend -> Memory]
  /\ disk \in [Backend -> Disk]
  /\ store_crashes \in Nat

Unlocked == [writer |-> None, readers |-> 0]

NotRunning == [
  status    |-> "off",
  exiting   |-> FALSE,
  tx_db     |-> [t \in Txid |-> None],
  state_t   |-> [s \in Store |-> "PREPARE"],
  lock_db   |-> [p \in Path |-> None],
  lock      |-> [s \in Store |-> Unlocked],
  pc        |-> [s \in Store |-> "none"],
  file_lock |-> [s \in Store |-> None],
  fd        |-> [s \in Store |-> [inode |-> None, offset |-> 0]],
  log_lock  |-> None,
  handlers  |-> [k \in Kind |-> [t \in Txid |-> [stage \in Stage |-> 0]]],
  asking    |-> None]

BackendInit ==
  /\ mem = [b \in Backend |-> NotRunning]
  /\ disk = [b \in Backend |-> [
       store_log |-> [t \in Txid |-> NoRecord],
       temp      |-> [t \in Txid |-> None],
       file      |-> [p \in Path |-> None],
       data      |-> [s \in Store |-> <<>>]]]
  /\ store_crashes = 0

\* Process b goes on with memory m.
Becomes(b, m) == mem' = [mem EXCEPT ![b] = m]

ProcessEnd(b) == Becomes(b, NotRunning)

-----------------------------------------------------------------------------
(* The read-write locks of the C library.  A thread that asks for a lock   *)
(* it holds gets an error and goes on; so does a reader of a lock whose    *)
(* count is -1.  An unlock is believed whoever makes it.                   *)

CanWrLock(lock, thread) == lock = Unlocked \/ lock.writer = thread
WrLocked(lock, thread) == [lock EXCEPT !.writer = thread]

CanRdLock(lock, thread) == lock.writer \in {None, thread}
RdLocked(lock, thread) ==
  IF lock.writer = thread \/ lock.readers = -1 THEN lock
  ELSE [lock EXCEPT !.readers = lock.readers + 1]

UnlockOf(lock) ==
  IF lock.writer # None THEN [lock EXCEPT !.writer = None]
  ELSE [lock EXCEPT !.readers = lock.readers - 1]

-----------------------------------------------------------------------------
(* Start and recovery.  The first start, which truncates an empty log, is  *)
(* the same as a recovery from it.                                         *)

\* main calls Register before anything else, and does not look at the result.
StoreStart(b) ==
  /\ mem[b].status = "off"
  /\ Becomes(b, [mem[b] EXCEPT !.status = "registering"])
  /\ regs' = regs \cup {b}
  /\ UNCHANGED <<disk, store_crashes, prep, calls, asks>>

\* The last record of each txid counts.
LastRecord(b, t) == disk[b].store_log[t]
Prepared(b) == {t \in Txid : LastRecord(b, t).state_t = "PREPARE"}

\* The calls whose records are in doubt; each of their paths gets one lock, held by Main.
InDoubt(b) == {s \in Store : LastRecord(b, TidOf[s]) = [state_t |-> "PREPARE", req |-> s]}

RecoveredLock(b, p) ==
  LET R == {s \in InDoubt(b) : PathOf[s] = p}
  IN IF R = {} THEN None ELSE CHOOSE s \in R : TRUE

\* The server listens after Recover, which waits for the CommitVote calls it makes, if any:
\* they are all put in flight at once here; they are made one by one.
StoreRecover(b) ==
  /\ mem[b].status = "registering"
  /\ b \notin regs
  /\ Becomes(b, [mem[b] EXCEPT
       !.status  = IF Prepared(b) = {} THEN "up" ELSE "recovering",
       !.tx_db   = [t \in Txid |-> LastRecord(b, t).req],
       !.state_t = [s \in Store |-> IF LastRecord(b, TidOf[s]).req = s
                                         THEN LastRecord(b, TidOf[s]).state_t ELSE @[s]],
       !.lock_db = [p \in Path |-> RecoveredLock(b, p)],
       !.lock    = [s \in Store |-> IF RecoveredLock(b, PathOf[s]) = s
                                         THEN WrLocked(@[s], Main) ELSE @[s]]])
  /\ asks' = asks \cup (Prepared(b) \X {b})
  /\ UNCHANGED <<disk, store_crashes, prep, calls, regs>>

Listen(b) ==
  /\ mem[b].status = "recovering"
  /\ \A t \in Prepared(b) : <<t, b>> \notin asks \/ mem[b].asking = t
  /\ Becomes(b, [mem[b] EXCEPT !.status = "up"])
  /\ UNCHANGED <<disk, store_crashes, rpcVars>>

-----------------------------------------------------------------------------
(* Prepare, step by step. *)

Preparing(b, s, at) == mem[b].status = "up" /\ mem[b].pc[s] = at
FileLock(b, s) == mem[b].lock[mem[b].file_lock[s]]

ThreadIdle(b, s) == \A r \in Store : StoreThread[r] = StoreThread[s] => mem[b].pc[r] = "none"

(* Mutant: a call whose answer is under way is executed a second time. *)
ArrivesAgain(b, s) == prep[s][b] \in {"sent", "ok"}

Arrives(b, s) == prep[s][b] = "sent"

\* lock_db is searched, and later written, without any lock.
PrepareLookup(b, s) ==
  /\ Preparing(b, s, "none")
  /\ Arrives(b, s)
  /\ ThreadIdle(b, s)
  /\ SetPrep(s, b, "taken")
  /\ Becomes(b, [mem[b] EXCEPT
       !.pc[s] = IF mem[b].lock_db[PathOf[s]] = None THEN "lookup" ELSE "insert",
       !.file_lock[s] = mem[b].lock_db[PathOf[s]]])
  /\ UNCHANGED <<disk, store_crashes, calls, asks, regs>>

\* A handler that found no lock goes on with the one it makes, inserted or not.
PrepareNewLock(b, s) ==
  /\ Preparing(b, s, "lookup")
  /\ Becomes(b, [mem[b] EXCEPT
       !.pc[s] = "insert",
       !.file_lock[s] = s,
       !.lock_db[PathOf[s]] = IF @ = None THEN s ELSE @])
  /\ UNCHANGED <<disk, store_crashes, rpcVars>>

\* tx_db_lock is waited for: the retry thread holds it across its CommitVote call.
PrepareInsert(b, s) ==
  /\ Preparing(b, s, "insert")
  /\ mem[b].file_lock[s] # NULL
  /\ mem[b].asking = None
  /\ Becomes(b, [mem[b] EXCEPT
       !.pc[s] = IF OpOf[s] = "store" THEN "open" ELSE "wrlock",
       !.state_t[s] = "PREPARE",
       !.tx_db[TidOf[s]] = IF @ = None THEN s ELSE @])
  /\ UNCHANGED <<disk, store_crashes, rpcVars>>

\* printf of *file_lock: the process is killed when lock_db held a NULL.
PrepareNullLock(b, s) ==
  /\ Preparing(b, s, "insert")
  /\ mem[b].file_lock[s] = NULL
  /\ ProcessEnd(b)
  /\ UNCHANGED <<disk, store_crashes, rpcVars>>

\* open(O_CREAT | O_TRUNC): a file "<txid>" that is there is emptied.  The handler goes on
\* when it fails, and its writes then fail too.
PrepareOpen(b, s) ==
  /\ Preparing(b, s, "open")
  /\ LET old == disk[b].temp[TidOf[s]]
         inode == IF old = None THEN s ELSE old
     IN /\ disk' = [disk EXCEPT ![b].temp[TidOf[s]] = inode, ![b].data[inode] = <<>>]
        /\ Becomes(b, [mem[b] EXCEPT !.pc[s] = "copy",
                              !.fd[s] = [inode |-> inode, offset |-> 0]])
  /\ UNCHANGED <<store_crashes, rpcVars>>

PrepareOpenFails(b, s) ==
  /\ StoreWriteMayFail
  /\ Preparing(b, s, "open")
  /\ Becomes(b, [mem[b] EXCEPT !.pc[s] = "copy"])
  /\ UNCHANGED <<disk, store_crashes, rpcVars>>

\* write(fd, new): what is before the offset stays, a gap becomes a hole.
Written(old, offset, new) ==
  LET end == offset + Len(new)
  IN [i \in 1..(IF end > Len(old) THEN end ELSE Len(old)) |->
        IF i \in offset + 1 .. end THEN new[i - offset]
        ELSE IF i <= Len(old) THEN old[i] ELSE None]

Write(b, s, new) ==
  LET fd == mem[b].fd[s]
  IN IF fd.inode = None
       THEN UNCHANGED disk
       ELSE disk' = [disk EXCEPT ![b].data[fd.inode] = Written(@, fd.offset, new)]

\* What a write of the buffers new puts into the file: a failed one nothing, unnoticed.
Attempts(new) == {new} \cup (IF StoreWriteMayFail THEN {<<>>} ELSE {})

Content(b, p) == IF disk[b].file[p] = None THEN <<>> ELSE disk[b].data[disk[b].file[p]]

\* The stored file is copied under the read lock ...
PrepareCopy(b, s) ==
  /\ Preparing(b, s, "copy")
  /\ CanRdLock(FileLock(b, s), StoreThread[s])
  /\ \E copied \in Attempts(Content(b, PathOf[s])) :
       /\ Write(b, s, copied)
       /\ Becomes(b, [mem[b] EXCEPT
            !.pc[s] = "append",
            !.lock[mem[b].file_lock[s]] = RdLocked(@, StoreThread[s]),
            !.fd[s].offset = Len(copied)])
  /\ UNCHANGED <<store_crashes, rpcVars>>

\* ... which is released before the buffer is appended.
PrepareAppend(b, s) ==
  /\ Preparing(b, s, "append")
  /\ \E new \in Attempts(<<s>>) : Write(b, s, new)
  /\ Becomes(b, [mem[b] EXCEPT
       !.pc[s] = "wrlock",
       !.lock[mem[b].file_lock[s]] = UnlockOf(@),
       !.fd[s] = [inode |-> None, offset |-> 0]])
  /\ UNCHANGED <<store_crashes, rpcVars>>

PrepareWrLock(b, s) ==
  /\ Preparing(b, s, "wrlock")
  /\ CanWrLock(FileLock(b, s), StoreThread[s])
  /\ Becomes(b, [mem[b] EXCEPT
       !.pc[s] = "log",
       !.lock[mem[b].file_lock[s]] = WrLocked(@, StoreThread[s])])
  /\ UNCHANGED <<disk, store_crashes, rpcVars>>

(* Mutant: a Prepare is not logged. *)
OutcomesLogged(d, t, state, s) ==
  IF state = "PREPARE" THEN d ELSE [d EXCEPT !.store_log[t] = [state_t |-> state, req |-> s]]

(* Mutant: the END of the state enum is logged in the place of COMMIT. *)
EndLogged(d, t, state, s) ==
  [d EXCEPT !.store_log[t] = [state_t |-> IF state = "COMMIT" THEN "END" ELSE state, req |-> s]]

(* Mutant: every outcome is logged as an abort. *)
AbortLogged(d, t, state, s) ==
  [d EXCEPT !.store_log[t] = [state_t |-> IF state = "PREPARE" THEN state ELSE "ABORT", req |-> s]]

\* tpcLog: the files d with one more record.
Logged(d, t, state, s) == [d EXCEPT !.store_log[t] = [state_t |-> state, req |-> s]]

\* A thread that left log_lock locked gets EDEADLK and goes on.
LogLockFree(b, thread) == mem[b].log_lock \in {None, thread}

PrepareEnd(b, s, log_lock_left) ==
  /\ Becomes(b, [mem[b] EXCEPT !.pc[s] = "none", !.file_lock[s] = None,
                        !.log_lock = log_lock_left])
  /\ SetPrep(s, b, "ok")
  /\ UNCHANGED <<store_crashes, calls, asks, regs>>

\* tpcLog logs the state_t that the entry has by now.
PrepareLog(b, s) ==
  /\ Preparing(b, s, "log")
  /\ LogLockFree(b, StoreThread[s])
  /\ disk' = [disk EXCEPT ![b] = Logged(@, TidOf[s], mem[b].state_t[s], s)]
  /\ PrepareEnd(b, s, None)

\* tpcLog returns errno with log_lock held; Prepare does not act on rc and answers "ok".
PrepareLogFails(b, s) ==
  /\ StoreWriteMayFail
  /\ Preparing(b, s, "log")
  /\ LogLockFree(b, StoreThread[s])
  /\ UNCHANGED disk
  /\ PrepareEnd(b, s, StoreThread[s])

-----------------------------------------------------------------------------
(* Abort and Commit.  No lock is held from the test of the state to the    *)
(* unlock: handlers of one txid run beside one another, of one outcome or  *)
(* of both.  The entry of a txid, and the lock of a path, are never        *)
(* replaced by others, so that it does not matter when a handler finds     *)
(* them.  The record and the unlock are one step: only Recover reads the   *)
(* record, in a process that has forgotten the locks.                      *)

Takes(b, k, t) == mem[b].status = "up" /\ TakeCall(k, t, b)

\* A handler of k and t is about to do what the stage says.
At(b, k, t, stage) == mem[b].handlers[k][t][stage] > 0

RoomFor(b, k, t) ==
  LET n(stage) == mem[b].handlers[k][t][stage]
  IN n("file") + n("state") + n("log") < MaxHandlers

Enters(h, k, t, stage) == [h EXCEPT ![k][t][stage] = @ + 1]
Leaves(h, k, t, stage) == [h EXCEPT ![k][t][stage] = @ - 1]
MovesOn(h, k, t, from, to) == Enters(Leaves(h, k, t, from), k, t, to)

\* lock_db[path]: a missing lock is inserted as NULL.
LockLookup(b, s) == IF mem[b].lock_db[PathOf[s]] = None THEN NULL ELSE mem[b].lock_db[PathOf[s]]

AbortBegin(b, t) ==
  /\ Takes(b, "abort", t)
  /\ LET e == mem[b].tx_db[t]
     IN IF e = None
          THEN UNCHANGED <<mem, disk>>
          ELSE /\ RoomFor(b, "abort", t)
               /\ Becomes(b, [mem[b] EXCEPT
                    !.state_t[e] = "ABORT",
                    !.lock_db[PathOf[e]] = LockLookup(b, e),
                    !.handlers = Enters(@, "abort", t, "log")])
               /\ disk' = [disk EXCEPT ![b].temp[t] = None]
  /\ UNCHANGED <<store_crashes, prep, asks, regs>>

MayCommit(state) == state # "COMMIT"

CommitBegin(b, t) ==
  /\ Takes(b, "commit", t)
  /\ LET e == mem[b].tx_db[t]
     IN IF e # None /\ MayCommit(mem[b].state_t[e])
          THEN /\ RoomFor(b, "commit", t)
               /\ Becomes(b, [mem[b] EXCEPT
                    !.lock_db[PathOf[e]] = LockLookup(b, e),
                    !.handlers = Enters(@, "commit", t, "file")])
          ELSE Becomes(b, [mem[b] EXCEPT !.exiting = TRUE])
  /\ UNCHANGED <<disk, store_crashes, prep, asks, regs>>

(* Mutant: the stored file is written and emptied in place, not replaced and unlinked. *)
ChangedInPlace(d, t, s) ==
  CASE OpOf[s] = "delete" /\ d.file[PathOf[s]] # None -> [d EXCEPT !.data[d.file[PathOf[s]]] = <<>>]
    [] OpOf[s] = "store" /\ d.temp[t] # None /\ d.file[PathOf[s]] # None ->
         [d EXCEPT !.data[d.file[PathOf[s]]] = d.data[d.temp[t]], !.temp[t] = None]
    [] OpOf[s] = "store" /\ d.temp[t] # None /\ d.file[PathOf[s]] = None ->
         [d EXCEPT !.file[PathOf[s]] = d.temp[t], !.temp[t] = None]
    [] OTHER -> d

(* Mutant: the path is unlinked before the rename. *)
UnlinkedFirst(d, t, s) ==
  IF OpOf[s] = "delete" THEN [d EXCEPT !.file[PathOf[s]] = None]
  ELSE [d EXCEPT !.file[PathOf[s]] = d.temp[t], !.temp[t] = None]

\* rename of "<txid>" to the path, or unlink of the path; a missing file changes nothing.
Applied(d, t, s) ==
  CASE OpOf[s] = "delete" -> [d EXCEPT !.file[PathOf[s]] = None]
    [] OpOf[s] = "store" /\ d.temp[t] # None ->
         [d EXCEPT !.file[PathOf[s]] = d.temp[t], !.temp[t] = None]
    [] OTHER -> d

CommitFile(b, t) ==
  /\ At(b, "commit", t, "file")
  /\ disk' = [disk EXCEPT ![b] = Applied(@, t, mem[b].tx_db[t])]
  /\ Becomes(b, [mem[b] EXCEPT !.handlers = MovesOn(@, "commit", t, "file", "state")])
  /\ UNCHANGED <<store_crashes, rpcVars>>

CommitState(b, t) ==
  /\ At(b, "commit", t, "state")
  /\ Becomes(b, [mem[b] EXCEPT
       !.state_t[mem[b].tx_db[t]] = "COMMIT",
       !.handlers = MovesOn(@, "commit", t, "state", "log")])
  /\ UNCHANGED <<disk, store_crashes, rpcVars>>

(* Mutant: Commit and Abort do not unlock the file. *)
KeepLocked(b, k, t, log_lock_left) ==
  Becomes(b, [mem[b] EXCEPT !.log_lock = log_lock_left,
                     !.handlers = Leaves(@, k, t, "log"),
                     !.exiting = @ \/ k = "commit"])

\* The end of both, after tpcLog: file_lock is unlocked, which kills the process when it is NULL.
UnlockFile(b, k, t, log_lock_left) ==
  LET lock == mem[b].lock_db[PathOf[mem[b].tx_db[t]]]
  IN IF lock = NULL
       THEN ProcessEnd(b)
       ELSE Becomes(b, [mem[b] EXCEPT
              !.lock[lock] = UnlockOf(@),
              !.log_lock = log_lock_left,
              !.handlers = Leaves(@, k, t, "log"),
              !.exiting = @ \/ k = "commit"])

LogAndUnlock(b, k, t) ==
  /\ At(b, k, t, "log")
  /\ \E thread \in Thread : LogLockFree(b, thread)
  /\ LET e == mem[b].tx_db[t]
     IN disk' = [disk EXCEPT ![b] = Logged(@, t, mem[b].state_t[e], e)]
  /\ UnlockFile(b, k, t, None)
  /\ UNCHANGED <<store_crashes, rpcVars>>

\* The record is not written; neither handler looks at rc.
LogFailsAndUnlock(b, k, t) ==
  /\ StoreWriteMayFail
  /\ At(b, k, t, "log")
  /\ \E thread \in Thread : LogLockFree(b, thread) /\ UnlockFile(b, k, t, thread)
  /\ UNCHANGED <<disk, store_crashes, rpcVars>>

\* exit(0) at the end of every Commit.
Exit(b) ==
  /\ mem[b].exiting
  /\ ProcessEnd(b)
  /\ UNCHANGED <<disk, store_crashes, rpcVars>>

-----------------------------------------------------------------------------
(* AskCoordRetryRunnable: any wait for an outcome of MayTimeOut may be      *)
(* longer than the timeout.  A call in flight is not made a second time.   *)

AskAgain(b, t) ==
  /\ mem[b].status \in {"recovering", "up"}
  /\ mem[b].asking = None
  /\ t \in MayTimeOut
  /\ mem[b].tx_db[t] # None
  /\ mem[b].state_t[mem[b].tx_db[t]] = "PREPARE"
  /\ <<t, b>> \notin asks
  /\ asks' = asks \cup {<<t, b>>}
  /\ Becomes(b, [mem[b] EXCEPT !.asking = t])
  /\ UNCHANGED <<disk, store_crashes, prep, calls, regs>>

AskReturns(b) ==
  /\ mem[b].asking # None
  /\ <<mem[b].asking, b>> \notin asks
  /\ Becomes(b, [mem[b] EXCEPT !.asking = None])
  /\ UNCHANGED <<disk, store_crashes, rpcVars>>

StoreCrash(b) ==
  /\ mem[b].status # "off"
  /\ store_crashes < MaxStoreCrash
  /\ store_crashes' = store_crashes + 1
  /\ ProcessEnd(b)
  /\ UNCHANGED <<disk, rpcVars>>

PrepareStep(b, s) ==
  \/ PrepareLookup(b, s)
  \/ PrepareNewLock(b, s)
  \/ PrepareInsert(b, s)
  \/ PrepareNullLock(b, s)
  \/ PrepareOpen(b, s)
  \/ PrepareOpenFails(b, s)
  \/ PrepareCopy(b, s)
  \/ PrepareAppend(b, s)
  \/ PrepareWrLock(b, s)
  \/ PrepareLog(b, s)
  \/ PrepareLogFails(b, s)

OutcomeStep(b, t) ==
  \/ AbortBegin(b, t)
  \/ CommitBegin(b, t)
  \/ CommitFile(b, t)
  \/ CommitState(b, t)
  \/ \E k \in Kind : LogAndUnlock(b, k, t) \/ LogFailsAndUnlock(b, k, t)

BackendStep(b) ==
  \/ StoreStart(b)
  \/ StoreRecover(b)
  \/ Listen(b)
  \/ \E s \in Store : PrepareStep(b, s)
  \/ \E t \in Txid : OutcomeStep(b, t) \/ AskAgain(b, t)
  \/ AskReturns(b)
  \/ Exit(b)
  \/ StoreCrash(b)

BackendNext == \E b \in Backend : BackendStep(b)
=============================================================================
