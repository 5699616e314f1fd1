-------------------------- MODULE StoreDurability --------------------------
(***************************************************************************)
(* A store and a machine whose power can fail.  The processes see the      *)
(* files as the kernel has them; after a power failure there is what had   *)
(* reached the disk: what fsync was called for, and what the kernel        *)
(* happened to write back, names in the order of the calls that changed    *)
(* them, the data of each file at any time.  Only the log is ever synced.  *)
(*                                                                         *)
(* One path, and one handler at a time: interleavings are the business of  *)
(* BackendStore.tla.                                                       *)
(***************************************************************************)
EXTENDS Integers, Sequences

CONSTANTS
  Txid,            \* the transactions, each a call that appends one buffer to the file
  None,
  MaxPowerFailure, \* bound on the power failures
  MaxKill          \* bound on the ends of the process alone

Path == "path"

\* A path that is stored is not the name of a temporary file.
ASSUME DurabilityAssumption ==
  /\ Path \notin Txid /\ None \notin Txid
  /\ MaxPowerFailure \in Nat /\ MaxKill \in Nat

VARIABLES
  kernel,      \* the files as system calls find them
  disk,        \* the files as a power failure leaves them
  unwritten,   \* the changes of names that have not reached the disk, in order
  at,          \* at[t]: where the Prepare or Commit handler of t is
  tx_db,       \* tx_db[t]: the state_t in the memory of the process
  said,        \* said[t]: the last line that the handlers of t printed
  decision,    \* decision[t]: the coordinator's
  power_failures, kills

durVars == <<kernel, disk, unwritten, at, tx_db, said, decision, power_failures, kills>>

Name == Txid \cup {Path}

(* names: the inode of a file, named by the call that made it; data: the   *)
(* buffers in an inode; log: the records of store_log.                     *)
NoFiles == [names |-> [n \in Name |-> None],
            data  |-> [i \in Txid |-> <<>>],
            log   |-> <<>>]

DurInit ==
  /\ kernel = NoFiles /\ disk = NoFiles /\ unwritten = <<>>
  /\ at = [t \in Txid |-> "none"]
  /\ tx_db = [t \in Txid |-> "none"]
  /\ said = [t \in Txid |-> "nothing"]
  /\ decision = [t \in Txid |-> "none"]
  /\ power_failures = 0 /\ kills = 0

Read(files, name) == IF files.names[name] = None THEN <<>> ELSE files.data[files.names[name]]

Records(log, t) == {log[n].state_t : n \in {m \in DOMAIN log : log[m].txid = t}}

-----------------------------------------------------------------------------
(* The file system. *)

Changed(names, changes) == [n \in Name |-> IF n \in DOMAIN changes THEN changes[n] ELSE names[n]]

Renames(changes) ==
  /\ kernel' = [kernel EXCEPT !.names = Changed(@, changes)]
  /\ unwritten' = Append(unwritten, changes)

WriteBackName ==
  /\ unwritten # <<>>
  /\ disk' = [disk EXCEPT !.names = Changed(@, Head(unwritten))]
  /\ unwritten' = Tail(unwritten)
  /\ UNCHANGED <<kernel, at, tx_db, said, decision, power_failures, kills>>

WriteBackData(i) ==
  /\ disk.data[i] # kernel.data[i]
  /\ disk' = [disk EXCEPT !.data[i] = kernel.data[i]]
  /\ UNCHANGED <<kernel, unwritten, at, tx_db, said, decision, power_failures, kills>>

(* Mutant: tpcLog without its fsync. *)
NoSync(log) == disk' = disk

Fsync(log) == disk' = [disk EXCEPT !.log = log]

-----------------------------------------------------------------------------
(* The handlers. *)

Idle == \A t \in Txid : at[t] = "none"

\* The lock of the path stays with a transaction until its outcome; Recover takes it again.
Unlocked == \A t \in Txid : tx_db[t] # "PREPARE"

\* open(path, O_RDWR | O_CREAT | O_TRUNC) of the file "<txid>"
PrepareOpen(t) ==
  /\ Unlocked /\ tx_db[t] = "none" /\ said[t] = "nothing" /\ decision[t] = "none"
  /\ tx_db' = [tx_db EXCEPT ![t] = "PREPARE"]
  /\ at' = [at EXCEPT ![t] = "write"]
  /\ Renames([n \in {t} |-> t])
  /\ UNCHANGED <<disk, said, decision, power_failures, kills>>

(* Mutant: Prepare appends to the stored file itself. *)
WriteStored(t) ==
  /\ at[t] = "write"
  /\ at' = [at EXCEPT ![t] = "log"]
  /\ LET i == IF kernel.names[Path] = None THEN t ELSE kernel.names[Path]
     IN kernel' = [kernel EXCEPT !.data[i] = Append(@, t)]
  /\ UNCHANGED <<disk, unwritten, tx_db, said, decision, power_failures, kills>>

\* The copy of the stored file and the buffer; close() is no fsync.
PrepareWrite(t) ==
  /\ at[t] = "write"
  /\ at' = [at EXCEPT ![t] = "log"]
  /\ kernel' = [kernel EXCEPT !.data[t] = Append(Read(kernel, Path), t)]
  /\ UNCHANGED <<disk, unwritten, tx_db, said, decision, power_failures, kills>>

\* tpcLog: the record, and everything before it in the log, is on the disk.
TpcLog(t) ==
  LET log == Append(kernel.log, [txid |-> t, state_t |-> tx_db'[t]])
  IN kernel' = [kernel EXCEPT !.log = log] /\ Fsync(log)

PrepareLog(t) ==
  /\ at[t] = "log"
  /\ UNCHANGED tx_db
  /\ TpcLog(t)
  /\ at' = [at EXCEPT ![t] = "none"]
  /\ said' = [said EXCEPT ![t] = "Prepare logging done."]
  /\ UNCHANGED <<unwritten, decision, power_failures, kills>>

\* Abort: unlink of the temporary file and the record.
Abort(t) ==
  /\ Idle /\ decision[t] = "ABORT" /\ tx_db[t] = "PREPARE"
  /\ tx_db' = [tx_db EXCEPT ![t] = "ABORT"]
  /\ LET log == Append(kernel.log, [txid |-> t, state_t |-> "ABORT"])
     IN /\ kernel' = [kernel EXCEPT !.names[t] = None, !.log = log]
        /\ Fsync(log)
  /\ unwritten' = Append(unwritten, [n \in {t} |-> None])
  /\ UNCHANGED <<at, said, decision, power_failures, kills>>

\* rename of "<txid>" to the path, nothing when it is gone.
CommitRename(t) ==
  /\ Idle /\ decision[t] = "COMMIT" /\ tx_db[t] = "PREPARE"
  /\ at' = [at EXCEPT ![t] = "renamed"]
  /\ IF kernel.names[t] = None
       THEN UNCHANGED <<kernel, unwritten>>
       ELSE Renames([n \in {t, Path} |-> IF n = t THEN None ELSE kernel.names[t]])
  /\ said' = [said EXCEPT ![t] = "Renamed while committing"]
  /\ UNCHANGED <<disk, tx_db, decision, power_failures, kills>>

CommitLog(t) ==
  /\ at[t] = "renamed"
  /\ tx_db' = [tx_db EXCEPT ![t] = "COMMIT"]
  /\ TpcLog(t)
  /\ at' = [at EXCEPT ![t] = "none"]
  /\ said' = [said EXCEPT ![t] = "Commit logging done."]
  /\ UNCHANGED <<unwritten, decision, power_failures, kills>>

\* The coordinator commits on the vote alone, and may abort before.
Decide(t) ==
  /\ decision[t] = "none"
  /\ \/ said[t] = "Prepare logging done." /\ decision' = [decision EXCEPT ![t] = "COMMIT"]
     \/ decision' = [decision EXCEPT ![t] = "ABORT"]
  /\ UNCHANGED <<kernel, disk, unwritten, at, tx_db, said, power_failures, kills>>

-----------------------------------------------------------------------------
(* Mutant: a transaction in doubt is not taken up again. *)
RecoveredDecided(log, t) ==
  CASE "COMMIT" \in Records(log, t) -> "COMMIT"
    [] "ABORT" \in Records(log, t) -> "ABORT"
    [] OTHER -> "none"

\* Recover: the last record of each transaction; its PREPARE is always its first.
RecoveredState(log, t) ==
  CASE "COMMIT" \in Records(log, t) -> "COMMIT"
    [] "ABORT" \in Records(log, t) -> "ABORT"
    [] Records(log, t) = {"PREPARE"} -> "PREPARE"
    [] OTHER -> "none"

\* The process ends, at exit(0) after a Commit for one, and recovers from the files it finds.
RestartFrom(files) ==
  /\ kernel' = files
  /\ at' = [t \in Txid |-> "none"]
  /\ tx_db' = [t \in Txid |-> RecoveredState(files.log, t)]
  /\ UNCHANGED <<disk, said, decision>>

Kill ==
  /\ kills < MaxKill
  /\ kills' = kills + 1
  /\ RestartFrom(kernel)
  /\ UNCHANGED <<unwritten, power_failures>>

PowerFailure ==
  /\ power_failures < MaxPowerFailure
  /\ power_failures' = power_failures + 1
  /\ RestartFrom(disk)
  /\ unwritten' = <<>>
  /\ UNCHANGED kills

Handler(t) ==
  \/ PrepareWrite(t)
  \/ PrepareLog(t)
  \/ Abort(t)
  \/ CommitRename(t)
  \/ CommitLog(t)

DurNext ==
  \/ WriteBackName
  \/ \E t \in Txid : PrepareOpen(t) \/ Handler(t) \/ Decide(t) \/ WriteBackData(t)
  \/ Kill
  \/ PowerFailure

\* A handler that can run does, and the coordinator's outcome is asked for until it comes.
DurSpec == DurInit /\ [][DurNext]_durVars /\ \A t \in Txid : WF_durVars(Handler(t))

-----------------------------------------------------------------------------
(***************************************************************************)
(* Whatever the power does, what a store has voted for is on record, and   *)
(* what it has recorded as its outcome stays recorded: tpcLog has synced   *)
(* the record before the answer.                                           *)
(***************************************************************************)
RecordsSurvive ==
  \A t \in Txid :
    /\ said[t] # "nothing" => Records(disk.log, t) # {}
    /\ said[t] = "Commit logging done." => "COMMIT" \in Records(disk.log, t)

(***************************************************************************)
(* However much of its unsynced work is lost or kept, a transaction that   *)
(* is not committed never shows in the stored file on the disk.            *)
(***************************************************************************)
UndecidedUnseen ==
  \A files \in {kernel, disk} : \A n \in DOMAIN Read(files, Path) :
    decision[Read(files, Path)[n]] = "COMMIT"

(***************************************************************************)
(* A store that has voted records the decision in the end, through every   *)
(* power failure and restart: Recover takes up what is in doubt.           *)
(***************************************************************************)
OutcomeRecorded ==
  \A t \in Txid :
    said[t] = "Prepare logging done." /\ decision[t] # "none" ~> decision[t] \in Records(disk.log, t)
=============================================================================
