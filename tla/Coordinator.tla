----------------------------- MODULE Coordinator -----------------------------
(***************************************************************************)
(* The coordinator process, greeter_server.cc: registration of the stores, *)
(* the two-phase commit of a Store or Delete call, CommitVote, and the     *)
(* recovery of a restarted process from its two files.                     *)
(*                                                                         *)
(* One step is what a thread does between two points where another thread, *)
(* a call or a crash can matter.  CoordSpec closes the module with stores  *)
(* that do whatever the protocol lets them do (Env...).                    *)
(***************************************************************************)
EXTENDS Rpc

CONSTANTS
  CoordThread,     \* CoordThread[s]: the thread that runs the handler of s
  Recovered,       \* the pointer to an entry that Recover has built
  WriteMayFail,    \* whether write() to the log or to conf can fail
  MaxCoordCrash    \* bound on the crashes of the coordinator

ASSUME CoordAssumption ==
  /\ CoordThread \in [Store -> Thread]
  /\ Recovered \notin Store \cup {None}
  /\ WriteMayFail \in BOOLEAN
  /\ MaxCoordCrash \in Nat

VARIABLES
  up,           \* the process runs and listens
  crashes,      \* number of crashes so far
  conf,         \* file "conf": the registered stores
  log,          \* file "log": the txids with a COMMIT record, the only records written
  log_lock,     \* the thread that left it locked after a failed write, or None
  reg_db,       \* the registered stores, in memory
  R_FACTOR,     \* the number of votes a commit takes
  registering,  \* the store whose Register handler holds reg_db_lock, if any
  tx_db,        \* tx_db[t]: pointer to a Tx_entry: the call that made it
  tx,           \* tx[s]: the Tx_entry that call s made
  pc,           \* where the handler of s is
  asked,        \* the stores the handler of s has made GetVote threads for
  waiting,      \* those whose GetVote thread has not ended
  reply         \* what the client of s was told

coordVars == <<up, crashes, conf, log, log_lock, reg_db, R_FACTOR, registering,
               tx_db, tx, pc, asked, waiting, reply>>

State == {"PREPARE", "ABORT", "COMMIT"}
TxEntry == [state_t : State, vote_count : Nat]
NewEntry == [state_t |-> "PREPARE", vote_count |-> 0]

CoordTypeOK ==
  /\ up \in BOOLEAN
  /\ crashes \in Nat
  /\ conf \subseteq Backend
  /\ log \subseteq Txid
  /\ log_lock \in Thread \cup {None}
  /\ reg_db \subseteq Backend
  /\ R_FACTOR \in Nat
  /\ registering \in SUBSET Backend
  /\ tx_db \in [Txid -> Store \cup {None, Recovered}]
  /\ tx \in [Store -> TxEntry]
  /\ pc \in [Store -> {"idle", "voting", "logged", "done"}]
  /\ asked \in [Store -> SUBSET Backend]
  /\ waiting \in [Store -> SUBSET Backend]
  /\ reply \in [Store -> {"none", "ok", "aborted", "error"}]

\* The first start, with recover = 0: both files are truncated.
CoordInit ==
  /\ up = TRUE
  /\ crashes = 0
  /\ conf = {}
  /\ log = {}
  /\ log_lock = None
  /\ reg_db = {}
  /\ R_FACTOR = 0
  /\ registering = {}
  /\ tx_db = [t \in Txid |-> None]
  /\ tx = [s \in Store |-> NewEntry]
  /\ pc = [s \in Store |-> "idle"]
  /\ asked = [s \in Store |-> {}]
  /\ waiting = [s \in Store |-> {}]
  /\ reply = [s \in Store |-> "none"]

getTid(s) == TidOf[s]

\* The state_t that a lookup of t in tx_db leads to.
EntryState(t) ==
  IF tx_db[t] = None THEN "none"
  ELSE IF tx_db[t] = Recovered THEN "COMMIT"
  ELSE tx[tx_db[t]].state_t

-----------------------------------------------------------------------------
(* Register: the insertion and R_FACTOR are written under reg_db_lock, but *)
(* Store reads both without it.                                            *)

RegisterFree == registering = {}

\* What Register adds to conf: a store that is new to reg_db, unless write() fails unnoticed.
Saved(b) == {IF b \in reg_db THEN {} ELSE {b}} \cup (IF WriteMayFail THEN {{}} ELSE {})

RegisterInsert(b) ==
  /\ up
  /\ b \in regs
  /\ RegisterFree
  /\ registering' = {b}
  /\ \E saved \in Saved(b) : conf' = conf \cup saved
  /\ reg_db' = reg_db \cup {b}
  /\ UNCHANGED <<up, crashes, log, log_lock, R_FACTOR, tx_db, tx, pc, asked,
                 waiting, reply, rpcVars>>

RegisterCount(b) ==
  /\ up
  /\ b \in registering
  /\ registering' = registering \ {b}
  /\ R_FACTOR' = Cardinality(reg_db)
  /\ regs' = regs \ {b}
  /\ UNCHANGED <<up, crashes, conf, log, log_lock, reg_db, tx_db, tx, pc, asked,
                 waiting, reply, prep, calls, asks>>

-----------------------------------------------------------------------------
(* Store: the first phase. *)

Running == {s \in Store : pc[s] \in {"voting", "logged"}}

ThreadFree(s) == \A r \in Running : CoordThread[r] # CoordThread[s]

\* tx_db.insert does nothing when the key is there.
InsertEntry(t, s) == IF tx_db[t] = None THEN [tx_db EXCEPT ![t] = s] ELSE tx_db

\* The entry is made and inserted, and one GetVote thread made per registered store.
StoreBegin(s) ==
  /\ up
  /\ pc[s] = "idle"
  /\ ThreadFree(s)
  /\ pc' = [pc EXCEPT ![s] = "voting"]
  /\ tx' = [tx EXCEPT ![s] = NewEntry]
  /\ tx_db' = InsertEntry(getTid(s), s)
  /\ asked' = [asked EXCEPT ![s] = reg_db]
  /\ waiting' = [waiting EXCEPT ![s] = reg_db]
  /\ SendPrepare(s, reg_db)
  /\ UNCHANGED <<up, crashes, conf, log, log_lock, reg_db, R_FACTOR, registering,
                 reply, calls, asks, regs>>

\* GetVoteRunnable, when BackendClient::Prepare returns true.
GetVoteReturn(s, b) ==
  /\ b \in waiting[s]
  /\ prep[s][b] = "ok"
  /\ SetPrep(s, b, "counted")
  /\ tx' = [tx EXCEPT ![s].vote_count = @ + 1]
  /\ waiting' = [waiting EXCEPT ![s] = @ \ {b}]
  /\ UNCHANGED <<up, crashes, conf, log, log_lock, reg_db, R_FACTOR, registering,
                 tx_db, pc, asked, reply, calls, asks, regs>>

(* Mutant: every answer is counted as a vote. *)
CountFailure(s, b) ==
  /\ b \in waiting[s]
  /\ waiting' = [waiting EXCEPT ![s] = @ \ {b}]
  /\ tx' = [tx EXCEPT ![s].vote_count = @ + 1]
  /\ UNCHANGED <<up, crashes, conf, log, log_lock, reg_db, R_FACTOR, registering,
                 tx_db, pc, asked, reply, rpcVars>>

(* Mutant: a failed call takes a vote back that it never gave. *)
UncountFailure(s, b) ==
  /\ b \in waiting[s]
  /\ waiting' = [waiting EXCEPT ![s] = @ \ {b}]
  /\ tx' = [tx EXCEPT ![s].vote_count = @ - 1]
  /\ UNCHANGED <<up, crashes, conf, log, log_lock, reg_db, R_FACTOR, registering,
                 tx_db, pc, asked, reply, rpcVars>>

(* Mutant: the thread of a failed call is not joined. *)
VoteNeverFails(s, b) == FALSE /\ UNCHANGED <<coordVars, rpcVars>>

\* GetVoteRunnable, when BackendClient::Prepare returns false: the call failed.
GetVoteFails(s, b) ==
  /\ b \in waiting[s]
  /\ waiting' = [waiting EXCEPT ![s] = @ \ {b}]
  /\ UNCHANGED <<up, crashes, conf, log, log_lock, reg_db, R_FACTOR, registering,
                 tx_db, tx, pc, asked, reply, rpcVars>>

-----------------------------------------------------------------------------
(* Store: the decision.  The join loop runs over reg_db as it is then.     *)

Joined(s) == pc[s] = "voting" /\ waiting[s] = {}

AllVoted(s) == tx[s].vote_count = R_FACTOR

Finish(s, answer) ==
  /\ pc' = [pc EXCEPT ![s] = "done"]
  /\ asked' = [asked EXCEPT ![s] = {}]
  /\ reply' = [reply EXCEPT ![s] = answer]

StoreAbort(s) ==
  /\ Joined(s)
  /\ ~AllVoted(s)
  /\ tx' = [tx EXCEPT ![s].state_t = "ABORT"]
  /\ SendCall("abort", getTid(s), reg_db)
  /\ Finish(s, "aborted")
  /\ UNCHANGED <<up, crashes, conf, log, log_lock, reg_db, R_FACTOR, registering,
                 tx_db, waiting, prep, asks, regs>>

\* wrlock(&log_lock): a thread that has it already gets EDEADLK and goes on.
LogLockFor(s) == log_lock \in {None, CoordThread[s]}

(* Mutant: the call of tpcLog is commented out, as it is for the other states. *)
NoLog(t) == UNCHANGED log

tpcLog(t) == log' = log \cup {t}

\* tpcLog(txid, COMMIT); the handler has not yet set state_t.
StoreLog(s) ==
  /\ Joined(s)
  /\ AllVoted(s)
  /\ LogLockFor(s)
  /\ tpcLog(getTid(s))
  /\ log_lock' = None
  /\ pc' = [pc EXCEPT ![s] = "logged"]
  /\ UNCHANGED <<up, crashes, conf, reg_db, R_FACTOR, registering, tx_db, tx, asked,
                 waiting, reply, rpcVars>>

\* tpcLog returns errno with log_lock held; Store does not look at rc.
StoreLogFails(s) ==
  /\ WriteMayFail
  /\ Joined(s)
  /\ AllVoted(s)
  /\ LogLockFor(s)
  /\ log_lock' = CoordThread[s]
  /\ pc' = [pc EXCEPT ![s] = "logged"]
  /\ UNCHANGED <<up, crashes, conf, log, reg_db, R_FACTOR, registering, tx_db, tx,
                 asked, waiting, reply, rpcVars>>

StoreAnnounce(s) ==
  /\ pc[s] = "logged"
  /\ tx' = [tx EXCEPT ![s].state_t = "COMMIT"]
  /\ SendCall("commit", getTid(s), reg_db)
  /\ Finish(s, "ok")
  /\ UNCHANGED <<up, crashes, conf, log, log_lock, reg_db, R_FACTOR, registering,
                 tx_db, waiting, prep, asks, regs>>

-----------------------------------------------------------------------------
(* CommitVote: a store asks for the outcome of t.  No answer is sent while *)
(* the transaction is in its first phase.                                  *)

(* Mutant: a transaction in its first phase is answered as an aborted one. *)
AbortUndecided(t) == IF EntryState(t) = "COMMIT" THEN {"commit"} ELSE {"abort"}

(* Mutant: a transaction in its first phase is answered as a committed one. *)
CommitUndecided(t) == IF EntryState(t) \in {"COMMIT", "PREPARE"} THEN {"commit"} ELSE {"abort"}

(* Mutant: a transaction that is not in the table is not answered. *)
NoPresumedAbort(t) ==
  CASE EntryState(t) = "COMMIT" -> {"commit"}
    [] EntryState(t) = "ABORT" -> {"abort"}
    [] OTHER -> {}

Answer(t) ==
  CASE EntryState(t) = "COMMIT" -> {"commit"}
    [] EntryState(t) \in {"ABORT", "none"} -> {"abort"}     \* "none": presumed abort
    [] EntryState(t) = "PREPARE" -> {}

CommitVote(t, b) ==
  /\ up
  /\ <<t, b>> \in asks
  /\ asks' = asks \ {<<t, b>>}
  /\ \/ /\ Answer(t) = {}
        /\ UNCHANGED calls
     \/ \E k \in Answer(t) : calls[k][t][b] < MaxCalls /\ SendCall(k, t, {b})
  /\ UNCHANGED <<coordVars, prep, regs>>

-----------------------------------------------------------------------------
(* Crash and recovery. *)

\* Everything but the two files is lost; the calls it was executing fail.
ProcessEnds ==
  /\ up' = FALSE
  /\ log_lock' = None
  /\ reg_db' = {}
  /\ R_FACTOR' = 0
  /\ registering' = {}
  /\ tx_db' = [t \in Txid |-> None]
  /\ tx' = [s \in Store |-> NewEntry]
  /\ pc' = [s \in Store |-> IF s \in Running THEN "done" ELSE pc[s]]
  /\ asked' = [s \in Store |-> {}]
  /\ waiting' = [s \in Store |-> {}]
  /\ reply' = [s \in Store |-> IF s \in Running THEN "error" ELSE reply[s]]
  /\ regs' = regs \ registering
  /\ UNCHANGED <<conf, log, prep, calls, asks>>

CoordCrash ==
  /\ up
  /\ crashes < MaxCoordCrash
  /\ crashes' = crashes + 1
  /\ ProcessEnds

(***************************************************************************)
(* reg_db has grown since the GetVote threads were made: the join loop     *)
(* reads past the end of tid_v.  Joining that garbage either kills the     *)
(* process (this step) or returns (the decision steps above).              *)
(***************************************************************************)
JoinPastEnd(s) ==
  /\ Joined(s)
  /\ Cardinality(reg_db) > Cardinality(asked[s])
  /\ UNCHANGED crashes
  /\ ProcessEnds

(* Mutant: recovery does not read the log. *)
NoEntries == [t \in Txid |-> None]

\* The entries that the backward scan of the log leaves in tx_db.
LogEntries == [t \in Txid |-> IF t \in log THEN Recovered ELSE None]

\* Restart with recover = 1: every logged commit is announced to every store again.
Recover ==
  /\ ~up
  /\ up' = TRUE
  /\ reg_db' = conf
  /\ R_FACTOR' = Cardinality(conf)
  /\ tx_db' = LogEntries
  /\ calls' = [calls EXCEPT !["commit"] =
                 [t \in Txid |-> [b \in Backend |->
                    IF t \in log /\ b \in conf THEN @[t][b] + 1 ELSE @[t][b]]]]
  /\ UNCHANGED <<crashes, conf, log, log_lock, registering, tx, pc, asked, waiting,
                 reply, prep, asks, regs>>

StoreStep(s) ==
  \/ StoreBegin(s)
  \/ \E b \in Backend : GetVoteReturn(s, b) \/ GetVoteFails(s, b)
  \/ StoreAbort(s)
  \/ StoreLog(s)
  \/ StoreLogFails(s)
  \/ StoreAnnounce(s)
  \/ JoinPastEnd(s)

CoordNext ==
  \/ \E s \in Store : StoreStep(s)
  \/ \E b \in Backend : RegisterInsert(b) \/ RegisterCount(b)
  \/ \E t \in Txid, b \in Backend : CommitVote(t, b)
  \/ CoordCrash
  \/ Recover

-----------------------------------------------------------------------------
(***************************************************************************)
(* The other side: stores that take a Prepare call and may answer it, take *)
(* Commit and Abort calls, register whenever they start, and ask for the   *)
(* outcome of transactions, only after they took their Prepare calls.      *)
(***************************************************************************)
EnvPrepare(s, b) ==
  /\ \/ prep[s][b] = "sent" /\ SetPrep(s, b, "taken")
     \/ prep[s][b] = "taken" /\ SetPrep(s, b, "ok")
  /\ UNCHANGED <<calls, asks, regs>>

Took(b, t) == \E s \in Store : TidOf[s] = t /\ prep[s][b] \in {"taken", "ok", "counted"}

EnvAsk(b) ==
  /\ \E T \in SUBSET {t \in Txid : Took(b, t)} : asks' = asks \cup (T \X {b})
  /\ UNCHANGED <<prep, calls, regs>>

EnvRegister(b) ==
  /\ regs' = regs \cup {b}
  /\ UNCHANGED <<prep, calls, asks>>

EnvTake(k, t, b) == TakeCall(k, t, b) /\ UNCHANGED <<prep, asks, regs>>

EnvNext ==
  /\ \/ \E s \in Store, b \in Backend : EnvPrepare(s, b)
     \/ \E b \in Backend : EnvAsk(b) \/ EnvRegister(b)
     \/ \E k \in Kind, t \in Txid, b \in Backend : EnvTake(k, t, b)
     \/ RpcNext
  /\ UNCHANGED coordVars

ClosedInit == RpcInit /\ CoordInit

CoordSpec ==
  /\ ClosedInit
  /\ [][CoordNext \/ EnvNext]_<<coordVars, rpcVars>>

-----------------------------------------------------------------------------
TypeOK == RpcTypeOK /\ CoordTypeOK

(***************************************************************************)
(* Nothing tells anyone that t is committed, neither an entry that         *)
(* CommitVote would answer from, nor a Commit call, nor a reply to the     *)
(* client, before the COMMIT record of t is in the log.                    *)
(***************************************************************************)
Committed(t) ==
  \/ EntryState(t) = "COMMIT"
  \/ \E b \in Backend : calls["commit"][t][b] > 0
  \/ \E s \in Store : TidOf[s] = t /\ reply[s] = "ok"

WriteAhead == \A t \in Txid : Committed(t) => t \in log

(***************************************************************************)
(* Once the COMMIT record of t is in the log no Abort call for t is in     *)
(* flight, no lookup finds t aborted or, in a running coordinator, finds   *)
(* no entry (which CommitVote would answer with a presumed abort), and no  *)
(* client was told of an abort, whatever crashes and late CommitVote calls *)
(* there are.  It takes ids that differ from call to call.                 *)
(***************************************************************************)
OneOutcome ==
  \A t \in log :
    /\ \A b \in Backend : calls["abort"][t][b] = 0
    /\ up => EntryState(t) \in {"PREPARE", "COMMIT"}
    /\ \A s \in Store : TidOf[s] = t => reply[s] # "aborted"

(***************************************************************************)
(* A call is committed with the vote of every store it asked; a vote can   *)
(* be missing only while a Register handler is between its insertion into  *)
(* reg_db and its write of R_FACTOR, and then one vote at most.            *)
(***************************************************************************)
MissingVotes(s) == {b \in asked[s] : prep[s][b] # "counted"}

Commits(s) == pc[s] = "voting" /\ pc'[s] = "logged"

VotesComplete ==
  [][\A s \in Store :
       Commits(s) => Cardinality(MissingVotes(s)) <= Cardinality(registering)]_coordVars
=============================================================================
