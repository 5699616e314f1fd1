----------------------------- MODULE TwoPCStore -----------------------------
(***************************************************************************)
(* The whole system: the coordinator of Coordinator.tla and the stores of  *)
(* BackendStore.tla, which share the calls of Rpc.tla and nothing else.    *)
(***************************************************************************)
EXTENDS Coordinator, BackendStore

vars == <<coordVars, backendVars, rpcVars>>

Init == RpcInit /\ CoordInit /\ BackendInit

Next ==
  \/ CoordNext /\ UNCHANGED backendVars
  \/ BackendNext /\ UNCHANGED coordVars
  \/ RpcNext /\ UNCHANGED <<coordVars, backendVars>>

Spec == Init /\ [][Next]_vars

(***************************************************************************)
(* What the write lock of a path is there for, and does not give once      *)
(* calls for the path overlap: while a store prepares a call, or is in     *)
(* doubt about it, it does not begin the Prepare of another one for the    *)
(* path.  UpdatesKept and VoteBacked are about OrderlySpec, whose clients  *)
(* see to that; the rest is about Spec.                                    *)
(***************************************************************************)
Waits(b, s) ==
  \A r \in Store : PathOf[r] = PathOf[s] => mem[b].pc[r] = "none" /\ r \notin InDoubt(b)

Orderly == \A b \in Backend, s \in Store : PrepareLookup(b, s) => Waits(b, s)

OrderlySpec == Init /\ [][Next /\ Orderly]_vars

SystemTypeOK == TypeOK /\ BackendTypeOK

Recorded(b, t) == LastRecord(b, t).state_t

(***************************************************************************)
(* No store commits what was not decided, and once the decision is logged  *)
(* no store aborts it: the outcomes recorded by the stores agree with the  *)
(* coordinator's log, and so with one another.                             *)
(***************************************************************************)
Agreement ==
  \A t \in Txid, b \in Backend :
    /\ Recorded(b, t) = "COMMIT" => t \in log
    /\ t \in log => Recorded(b, t) # "ABORT"

(***************************************************************************)
(* No call was committed while a store still executed its Prepare, which a *)
(* Register call that is half-way makes possible.                          *)
(***************************************************************************)
NoVoteMissed ==
  \A s \in Store, b \in Backend : TidOf[s] \in log => prep[s][b] \in {"none", "counted"}

OnlyAppends(p) == \A s \in Store : PathOf[s] = p => OpOf[s] = "store"

(***************************************************************************)
(* A commit can be carried out at every store whose vote was counted, what *)
(* ever crashes there are: until the store has recorded it, its log has    *)
(* the PREPARE record, and, if nothing is deleted there, what was prepared *)
(* is in the temporary file, or in its place when a Commit was cut short   *)
(* after the rename.                                                       *)
(***************************************************************************)
Holds(b, inode, s) ==
  /\ inode # None
  /\ \E i \in DOMAIN disk[b].data[inode] : disk[b].data[inode][i] = s

Backed(b, s) ==
  /\ Recorded(b, TidOf[s]) = "PREPARE"
  /\ OnlyAppends(PathOf[s]) => \/ Holds(b, disk[b].temp[TidOf[s]], s)
                               \/ Holds(b, disk[b].file[PathOf[s]], s)

VoteHolds(b, s) ==
  TidOf[s] \in log /\ prep[s][b] = "counted" =>
    Recorded(b, TidOf[s]) = "COMMIT" \/ Backed(b, s)

VoteBacked == NoVoteMissed => \A s \in Store, b \in Backend : VoteHolds(b, s)

(***************************************************************************)
(* What a reader of a stored file sees comes from committed calls only.    *)
(***************************************************************************)
NoDirtyData ==
  \A b \in Backend, p \in Path :
    \A i \in DOMAIN Content(b, p) :
      Content(b, p)[i] # None /\ TidOf[Content(b, p)[i]] \in log

(***************************************************************************)
(* No committed update is lost: while nothing is deleted there, the file   *)
(* holds the buffer of every call that its store has recorded as           *)
(* committed, though Commit calls are repeated, run beside one another and *)
(* are cut short.                                                          *)
(***************************************************************************)
UpdatesKept ==
  NoVoteMissed =>
  \A b \in Backend, s \in Store :
    OnlyAppends(PathOf[s]) /\ Recorded(b, TidOf[s]) = "COMMIT" =>
      Holds(b, disk[b].file[PathOf[s]], s)

(***************************************************************************)
(* A store that has recorded an outcome never records another one.         *)
(***************************************************************************)
Decided(r) == r.state_t \in {"ABORT", "COMMIT"}

OutcomeStable ==
  [][\A b \in Backend, t \in Txid :
       Decided(LastRecord(b, t)) => LastRecord(b, t)'.state_t = LastRecord(b, t).state_t]_disk

(***************************************************************************)
(* No lock is left behind: a path is locked for writing only as long as a  *)
(* call for it is in doubt at the store, or its outcome is being carried   *)
(* out, so whoever waits for the lock waits for such a call.  The          *)
(* exception is a call whose outcome came before its answer was counted:   *)
(* it may take the lock after its outcome has given it back.               *)
(***************************************************************************)
InUse(b, s) ==
  \/ mem[b].pc[s] = "log"
  \/ mem[b].tx_db[TidOf[s]] = s /\ mem[b].state_t[s] = "PREPARE"
  \/ \E k \in Kind, stage \in Stage : At(b, k, TidOf[s], stage)

Overtaken(b, s) == prep[s][b] = "ok" /\ mem[b].state_t[s] # "PREPARE"

LocksReturned ==
  \A b \in Backend, p \in Path :
    LET l == mem[b].lock_db[p]
    IN mem[b].status = "up" /\ l \in Store /\ mem[b].lock[l].writer # None =>
         \E s \in Store : PathOf[s] = p /\ (InUse(b, s) \/ Overtaken(b, s))

-----------------------------------------------------------------------------
(***************************************************************************)
(* The stores do what Coordinator.tla takes its surroundings to do, so its *)
(* properties hold of the whole system.                                    *)
(***************************************************************************)
StoresConform == CoordSpec

(***************************************************************************)
(* What comments of the source say of the program, and the code does not   *)
(* keep: see the findings.                                                 *)
(***************************************************************************)

(* A Commit call finds the entry of its transaction: "This should never    *)
(* happen" of the branch in Commit for a missing entry.                    *)
CommitEntryFound ==
  [][\A b \in Backend, t \in Txid : CommitBegin(b, t) => mem[b].tx_db[t] # None]_vars

(* A Commit that is made again because a crash cut the first one short,    *)
(* after it had put the new file in place, changes no file: "Need to be    *)
(* idempotent" of the rename in Commit.                                    *)
InPlace(b, s) ==
  /\ s # None /\ OpOf[s] = "store"
  /\ prep[s][b] = "counted" /\ mem[b].state_t[s] = "PREPARE"
  /\ disk[b].file[PathOf[s]] = s

CommitIdempotent ==
  [][\A b \in Backend, t \in Txid :
       CommitFile(b, t) /\ InPlace(b, mem[b].tx_db[t]) => UNCHANGED disk]_vars

(* The lock that a Commit unlocks is the one that its Prepare, or Recover,  *)
(* has locked: "Nedd to get the appropriate lock from lock_db" in Commit.  *)
AppropriateLock ==
  [][\A b \in Backend, s \in Store :
       /\ NoVoteMissed /\ mem[b].tx_db[TidOf[s]] = s
       /\ LogAndUnlock(b, "commit", TidOf[s])
       => \E l \in Store : /\ l = mem[b].lock_db[PathOf[s]]
                           /\ mem[b].lock[l].writer \in {StoreThread[s], Main}]_vars
=============================================================================
