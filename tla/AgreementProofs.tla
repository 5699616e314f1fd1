-------------------------- MODULE AgreementProofs --------------------------
(***************************************************************************)
(* Proofs about the coordinator and the whole system, for any numbers of   *)
(* stores, calls, ids, paths, threads, crashes and late calls.  First the  *)
(* theorems on the coordinator alone, whatever its stores and clients do   *)
(* within CoordSpec.  Then the types of the whole system, and that its     *)
(* stores do only what Coordinator.tla takes its surroundings to do, so    *)
(* that what was proved of the coordinator alone holds in it.  Then that   *)
(* the stores agree with the coordinator, and so with one another, and     *)
(* keep to what they recorded.  From that the system implements the        *)
(* abstract atomic commitment.                                             *)
(***************************************************************************)
EXTENDS TwoPCRefines, FiniteSetTheorems, TLAPS

-----------------------------------------------------------------------------
(* The coordinator. *)

allVars == <<coordVars, rpcVars>>

(* The stores are finitely many, so R_FACTOR is always a number. *)
LEMMA CardinalityOfBackends ==
  ASSUME NEW B \in SUBSET Backend
  PROVE  Cardinality(B) \in Nat
BY FS_Subset, FS_CardinalityType, RpcAssumption

(* Counting one more call per store keeps calls a table of numbers. *)
LEMMA SendCallType ==
  ASSUME RpcTypeOK, NEW k \in Kind, NEW t \in Txid, NEW B, SendCall(k, t, B)
  PROVE  calls' \in [Kind -> [Txid -> [Backend -> Nat]]]
<1> DEFINE c == [b \in Backend |-> IF b \in B THEN calls[k][t][b] + 1 ELSE calls[k][t][b]]
<1>1. c \in [Backend -> Nat]
  BY DEF RpcTypeOK
<1>2. calls' = [calls EXCEPT ![k][t] = c]
  BY DEF SendCall
<1> QED
  BY <1>1, <1>2 DEF RpcTypeOK

(* A call that leaves the network was in it, so the count stays a number. *)
LEMMA TakeCallType ==
  ASSUME RpcTypeOK, NEW k \in Kind, NEW t \in Txid, NEW b \in Backend, TakeCall(k, t, b)
  PROVE  calls' \in [Kind -> [Txid -> [Backend -> Nat]]]
<1>1. calls[k][t][b] - 1 \in Nat
  BY DEF RpcTypeOK, TakeCall
<1> QED
  BY <1>1 DEF RpcTypeOK, TakeCall

-----------------------------------------------------------------------------
(* Type correctness. *)

LEMMA TypeInit == ClosedInit => TypeOK
BY RpcAssumption, CoordAssumption
DEF ClosedInit, RpcInit, CoordInit, TypeOK, RpcTypeOK, CoordTypeOK, PrepStage, TxEntry, NewEntry, State

(* Every step of a Store handler keeps the types. *)
LEMMA TypeStore ==
  ASSUME TypeOK, NEW s \in Store, StoreStep(s)
  PROVE  TypeOK'
<1> USE RpcAssumption, CoordAssumption DEF TypeOK, CoordTypeOK
<1>1. TidOf[s] \in Txid
  OBVIOUS
<1>2. CASE StoreBegin(s)
  <2>1. prep' \in [Store -> [Backend -> PrepStage]]
    BY <1>2 DEF StoreBegin, SendPrepare, RpcTypeOK, PrepStage
  <2> QED
    BY <1>2, <2>1 DEF StoreBegin, RpcTypeOK, InsertEntry, getTid, TxEntry, NewEntry, State
<1>3. CASE \E b \in Backend : GetVoteReturn(s, b)
  <2>1. PICK b \in Backend : GetVoteReturn(s, b)
    BY <1>3
  <2>2. tx' \in [Store -> TxEntry]
    BY <2>1 DEF GetVoteReturn, TxEntry
  <2> QED
    BY <2>1, <2>2 DEF GetVoteReturn, SetPrep, RpcTypeOK, PrepStage
<1>4. CASE \E b \in Backend : GetVoteFails(s, b)
  BY <1>4 DEF GetVoteFails, RpcTypeOK, rpcVars
<1>5. CASE StoreAbort(s)
  <2>1. calls' \in [Kind -> [Txid -> [Backend -> Nat]]]
    BY <1>1, <1>5, SendCallType DEF StoreAbort, getTid, Kind
  <2>2. tx' \in [Store -> TxEntry]
    BY <1>5 DEF StoreAbort, TxEntry, State
  <2> QED
    BY <1>5, <2>1, <2>2 DEF StoreAbort, Finish, RpcTypeOK
<1>6. CASE StoreLog(s)
  BY <1>1, <1>6 DEF StoreLog, tpcLog, getTid, RpcTypeOK, rpcVars
<1>7. CASE StoreLogFails(s)
  BY <1>7 DEF StoreLogFails, RpcTypeOK, rpcVars
<1>8. CASE StoreAnnounce(s)
  <2>1. calls' \in [Kind -> [Txid -> [Backend -> Nat]]]
    BY <1>1, <1>8, SendCallType DEF StoreAnnounce, getTid, Kind
  <2>2. tx' \in [Store -> TxEntry]
    BY <1>8 DEF StoreAnnounce, TxEntry, State
  <2> QED
    BY <1>8, <2>1, <2>2 DEF StoreAnnounce, Finish, RpcTypeOK
<1>9. CASE JoinPastEnd(s)
  BY <1>9 DEF JoinPastEnd, ProcessEnds, RpcTypeOK, TxEntry, NewEntry, State
<1> QED
  BY <1>2, <1>3, <1>4, <1>5, <1>6, <1>7, <1>8, <1>9 DEF StoreStep

(* So does every other step of the coordinator. *)
LEMMA TypeCoord ==
  ASSUME TypeOK, CoordNext
  PROVE  TypeOK'
<1> USE RpcAssumption, CoordAssumption DEF TypeOK, CoordTypeOK
<1>1. CASE \E s \in Store : StoreStep(s)
  BY <1>1, TypeStore
<1>2. CASE \E b \in Backend : RegisterInsert(b)
  <2>1. PICK b \in Backend : RegisterInsert(b)
    BY <1>2
  <2>2. \A saved \in Saved(b) : saved \subseteq Backend
    BY DEF Saved
  <2>3. conf' \subseteq Backend
    BY <2>1, <2>2 DEF RegisterInsert
  <2> QED
    BY <2>1, <2>3 DEF RegisterInsert, RpcTypeOK, rpcVars
<1>3. CASE \E b \in Backend : RegisterCount(b)
  BY <1>3, CardinalityOfBackends DEF RegisterCount, RpcTypeOK
<1>4. CASE \E t \in Txid, b \in Backend : CommitVote(t, b)
  <2>1. PICK t \in Txid, b \in Backend : CommitVote(t, b)
    BY <1>4
  <2>2. Answer(t) \subseteq Kind
    BY DEF Answer, Kind, EntryState, TxEntry, State
  <2>3. calls' \in [Kind -> [Txid -> [Backend -> Nat]]]
    BY <2>1, <2>2, SendCallType DEF CommitVote, RpcTypeOK
  <2> QED
    BY <2>1, <2>3 DEF CommitVote, RpcTypeOK, coordVars
<1>5. CASE CoordCrash
  <2>1. crashes' \in Nat
    BY <1>5 DEF CoordCrash
  <2>2. ProcessEnds
    BY <1>5 DEF CoordCrash
  <2> QED
    BY <2>1, <2>2 DEF ProcessEnds, RpcTypeOK, TxEntry, NewEntry, State
<1>6. CASE Recover
  <2>1. calls' \in [Kind -> [Txid -> [Backend -> Nat]]]
    <3> DEFINE c == [t \in Txid |-> [b \in Backend |->
                       IF t \in log /\ b \in conf THEN calls["commit"][t][b] + 1
                       ELSE calls["commit"][t][b]]]
    <3>1. c \in [Txid -> [Backend -> Nat]]
      BY DEF RpcTypeOK, Kind
    <3>2. calls' = [calls EXCEPT !["commit"] = c]
      BY <1>6 DEF Recover
    <3> QED
      BY <3>1, <3>2 DEF RpcTypeOK
  <2> QED
    BY <1>6, <2>1, CardinalityOfBackends DEF Recover, LogEntries, RpcTypeOK
<1> QED
  BY <1>1, <1>2, <1>3, <1>4, <1>5, <1>6 DEF CoordNext

(* And every step of the surroundings. *)
LEMMA TypeEnv ==
  ASSUME TypeOK, EnvNext
  PROVE  TypeOK'
<1> USE RpcAssumption
<1>1. CoordTypeOK'
  BY DEF TypeOK, CoordTypeOK, EnvNext, coordVars
<1>2. CASE \E s \in Store, b \in Backend : EnvPrepare(s, b)
  <2>1. PICK s \in Store, b \in Backend, stage \in {"taken", "ok"} :
           /\ SetPrep(s, b, stage)
           /\ UNCHANGED <<calls, asks, regs>>
    BY <1>2 DEF EnvPrepare
  <2>2. prep' \in [Store -> [Backend -> PrepStage]]
    BY <2>1 DEF TypeOK, RpcTypeOK, SetPrep, PrepStage
  <2> QED
    BY <1>1, <2>1, <2>2 DEF TypeOK, RpcTypeOK
<1>3. CASE \E b \in Backend : EnvAsk(b) \/ EnvRegister(b)
  <2>1. PICK b \in Backend : EnvAsk(b) \/ EnvRegister(b)
    BY <1>3
  <2>2. CASE EnvAsk(b)
    <3>1. PICK T \in SUBSET Txid : asks' = asks \cup (T \X {b})
      BY <2>2 DEF EnvAsk
    <3>2. T \X {b} \subseteq Txid \X Backend
      OBVIOUS
    <3> QED
      BY <1>1, <2>2, <3>1, <3>2 DEF TypeOK, RpcTypeOK, EnvAsk
  <2>3. CASE EnvRegister(b)
    BY <1>1, <2>3 DEF TypeOK, RpcTypeOK, EnvRegister
  <2> QED
    BY <2>1, <2>2, <2>3
<1>4. CASE \E k \in Kind, t \in Txid, b \in Backend : EnvTake(k, t, b)
  <2>1. calls' \in [Kind -> [Txid -> [Backend -> Nat]]]
    BY <1>4, TakeCallType DEF TypeOK, EnvTake
  <2> QED
    BY <1>1, <1>4, <2>1 DEF TypeOK, RpcTypeOK, EnvTake
<1>5. CASE RpcNext
  <2>1. PICK b \in Backend :
           \/ LoseReg(b)
           \/ \E t \in Txid : LoseAsk(t, b) \/ \E k \in Kind : LoseCall(k, t, b)
    BY <1>5 DEF RpcNext
  <2>2. CASE LoseReg(b)
    BY <1>1, <2>2 DEF TypeOK, RpcTypeOK, LoseReg
  <2>3. CASE \E t \in Txid : LoseAsk(t, b)
    BY <1>1, <2>3 DEF TypeOK, RpcTypeOK, LoseAsk
  <2>4. CASE \E t \in Txid, k \in Kind : LoseCall(k, t, b)
    <3>1. calls' \in [Kind -> [Txid -> [Backend -> Nat]]]
      BY <2>4, TakeCallType DEF TypeOK, LoseCall
    <3> QED
      BY <1>1, <2>4, <3>1 DEF TypeOK, RpcTypeOK, LoseCall
  <2> QED
    BY <2>1, <2>2, <2>3, <2>4
<1> QED
  BY <1>2, <1>3, <1>4, <1>5 DEF EnvNext

(* A step that changes nothing keeps the types. *)
LEMMA TypeStutter == TypeOK /\ UNCHANGED allVars => TypeOK'
BY DEF TypeOK, RpcTypeOK, CoordTypeOK, allVars, coordVars, rpcVars

(* Every step of the coordinator and of its surroundings keeps the types. *)
LEMMA TypeNext == TypeOK /\ [CoordNext \/ EnvNext]_allVars => TypeOK'
BY TypeCoord, TypeEnv, TypeStutter

(* The variables of the coordinator and of its calls keep their types. *)
THEOREM TypeCorrect == CoordSpec => []TypeOK
<1>1. ClosedInit => TypeOK
  BY TypeInit
<1>2. TypeOK /\ [CoordNext \/ EnvNext]_allVars => TypeOK'
  BY TypeNext
<1> QED
  BY <1>1, <1>2, PTL DEF CoordSpec, allVars

-----------------------------------------------------------------------------
(***************************************************************************)
(* Nothing tells of a commit before its record is in the log.  The         *)
(* invariant says of every place a commit is read from, or is about to be, *)
(* that the record is there: a handler past tpcLog, the pointers and the   *)
(* entries of tx_db, the calls in flight, the replies.                     *)
(***************************************************************************)
OwnPointers == \A t \in Txid : tx_db[t] \in Store => TidOf[tx_db[t]] = t

LogFirst ==
  /\ \A s \in Store :
       /\ pc[s] = "logged" => TidOf[s] \in log
       /\ tx[s].state_t = "COMMIT" => TidOf[s] \in log
       /\ reply[s] = "ok" => TidOf[s] \in log
  /\ \A t \in Txid :
       /\ tx_db[t] = Recovered => t \in log
       /\ \A b \in Backend : calls["commit"][t][b] > 0 => t \in log

LogInv == TypeOK /\ OwnPointers /\ LogFirst

(* A recovered entry, or an entry found committed, has its record. *)
LEMMA CommittedEntryLogged ==
  ASSUME LogInv, NEW t \in Txid, EntryState(t) = "COMMIT"
  PROVE  t \in log
BY CoordAssumption DEF LogInv, OwnPointers, LogFirst, EntryState, TypeOK, CoordTypeOK

(* The invariant is stronger than the property. *)
LEMMA LogInvImplies == LogInv => WriteAhead
BY CommittedEntryLogged DEF LogInv, LogFirst, WriteAhead, Committed

(* It holds at the start: nobody was told of anything. *)
LEMMA LogInvInit == ClosedInit => LogInv
BY TypeInit, RpcAssumption, CoordAssumption
DEF ClosedInit, RpcInit, CoordInit, LogInv, OwnPointers, LogFirst, NewEntry, Kind

(* Only a commit that is logged is put in flight, so the calls stay backed. *)
LEMMA SendCommitLogged ==
  ASSUME LogInv, NEW k \in Kind, NEW t \in Txid, NEW B, SendCall(k, t, B),
         k = "commit" => t \in log'
  PROVE  \A u \in Txid, b \in Backend :
           calls'["commit"][u][b] > 0 => u \in log \cup log'
BY DEF LogInv, LogFirst, TypeOK, RpcTypeOK, SendCall, Kind

(* Every step of a Store handler keeps it. *)
LEMMA LogInvStore ==
  ASSUME WriteMayFail = FALSE, LogInv, NEW s \in Store, StoreStep(s)
  PROVE  LogInv'
<1> USE RpcAssumption, CoordAssumption DEF LogInv, TypeOK, CoordTypeOK
<1>1. TypeOK'
  BY TypeStore
<1>2. CASE StoreBegin(s)
  BY <1>1, <1>2 DEF StoreBegin, SendPrepare, InsertEntry, getTid, NewEntry, OwnPointers, LogFirst
<1>3. CASE \E b \in Backend : GetVoteReturn(s, b)
  BY <1>1, <1>3 DEF GetVoteReturn, OwnPointers, LogFirst, TxEntry
<1>4. CASE \E b \in Backend : GetVoteFails(s, b)
  BY <1>1, <1>4 DEF GetVoteFails, OwnPointers, LogFirst, rpcVars
<1>5. CASE StoreAbort(s)
  <2>1. \A u \in Txid, b \in Backend : calls'["commit"][u][b] > 0 => u \in log
    BY <1>5, SendCommitLogged DEF StoreAbort, getTid, Kind
  <2> QED
    BY <1>1, <1>5, <2>1 DEF StoreAbort, Finish, OwnPointers, LogFirst, TxEntry
<1>6. CASE StoreLog(s)
  BY <1>1, <1>6 DEF StoreLog, tpcLog, getTid, OwnPointers, LogFirst, rpcVars
<1>7. CASE StoreAnnounce(s)
  <2>1. TidOf[s] \in log
    BY <1>7 DEF StoreAnnounce, LogFirst
  <2>2. \A u \in Txid, b \in Backend : calls'["commit"][u][b] > 0 => u \in log
    BY <1>7, <2>1, SendCommitLogged DEF StoreAnnounce, getTid, Kind
  <2> QED
    BY <1>1, <1>7, <2>1, <2>2 DEF StoreAnnounce, Finish, OwnPointers, LogFirst, TxEntry
<1>8. CASE JoinPastEnd(s)
  BY <1>1, <1>8 DEF JoinPastEnd, ProcessEnds, NewEntry, OwnPointers, LogFirst
<1> QED
  BY <1>2, <1>3, <1>4, <1>5, <1>6, <1>7, <1>8 DEF StoreStep, StoreLogFails

(* Every other step of the coordinator keeps it. *)
LEMMA LogInvCoord ==
  ASSUME WriteMayFail = FALSE, LogInv, CoordNext
  PROVE  LogInv'
<1> USE RpcAssumption, CoordAssumption
<1>1. TypeOK'
  BY TypeCoord DEF LogInv
<1>2. CASE \E s \in Store : StoreStep(s)
  BY <1>2, LogInvStore
<1>3. CASE \E b \in Backend : RegisterInsert(b) \/ RegisterCount(b)
  BY <1>1, <1>3 DEF LogInv, OwnPointers, LogFirst, RegisterInsert, RegisterCount, rpcVars
<1>4. CASE \E t \in Txid, b \in Backend : CommitVote(t, b)
  <2>1. PICK t \in Txid, b \in Backend : CommitVote(t, b)
    BY <1>4
  <2>2. "commit" \in Answer(t) => t \in log
    BY CommittedEntryLogged DEF Answer, LogInv, EntryState, TypeOK, CoordTypeOK, TxEntry, State
  <2>3. Answer(t) \subseteq Kind
    BY DEF Answer, Kind, LogInv, EntryState, TypeOK, CoordTypeOK, TxEntry, State
  <2>4. \A u \in Txid, c \in Backend : calls'["commit"][u][c] > 0 => u \in log
    <3>1. CASE UNCHANGED calls
      BY <3>1 DEF LogInv, LogFirst
    <3>2. CASE \E k \in Answer(t) : SendCall(k, t, {b})
      <4>1. PICK k \in Answer(t) : SendCall(k, t, {b})
        BY <3>2
      <4>2. log' = log
        BY <2>1 DEF CommitVote, coordVars
      <4> QED
        BY <2>2, <2>3, <4>1, <4>2, SendCommitLogged
    <3> QED
      BY <2>1, <3>1, <3>2 DEF CommitVote
  <2> QED
    BY <1>1, <2>1, <2>4 DEF LogInv, OwnPointers, LogFirst, CommitVote, coordVars
<1>5. CASE CoordCrash
  BY <1>1, <1>5
  DEF CoordCrash, ProcessEnds, LogInv, OwnPointers, LogFirst, NewEntry, TypeOK, CoordTypeOK
<1>6. CASE Recover
  <2>1. \A t \in Txid, b \in Backend : calls'["commit"][t][b] > 0 => t \in log
    BY <1>6 DEF Recover, LogInv, LogFirst, TypeOK, RpcTypeOK, Kind
  <2> QED
    BY <1>1, <1>6, <2>1 DEF Recover, LogEntries, LogInv, OwnPointers, LogFirst
<1> QED
  BY <1>2, <1>3, <1>4, <1>5, <1>6 DEF CoordNext

(* The surroundings change neither the coordinator nor add calls of its. *)
LEMMA EnvCalls ==
  ASSUME TypeOK, EnvNext
  PROVE  \A k \in Kind, t \in Txid, b \in Backend : calls'[k][t][b] <= calls[k][t][b]
<1>1. CASE UNCHANGED calls
  BY <1>1 DEF TypeOK, RpcTypeOK
<1>2. CASE \E k \in Kind, t \in Txid, b \in Backend : TakeCall(k, t, b)
  BY <1>2 DEF TypeOK, RpcTypeOK, TakeCall
<1> QED
  BY <1>1, <1>2
  DEF EnvNext, EnvPrepare, EnvAsk, EnvRegister, EnvTake, RpcNext, LoseReg, LoseAsk, LoseCall

(* What the stores and the network do keeps it. *)
LEMMA LogInvEnv ==
  ASSUME LogInv, EnvNext
  PROVE  LogInv'
<1>1. TypeOK'
  BY TypeEnv DEF LogInv
<1>2. UNCHANGED coordVars
  BY DEF EnvNext
<1>3. \A t \in Txid, b \in Backend : calls'["commit"][t][b] > 0 => t \in log
  <2>1. \A t \in Txid, b \in Backend :
          /\ calls["commit"][t][b] \in Nat
          /\ calls'["commit"][t][b] \in Nat
    BY <1>1 DEF LogInv, TypeOK, RpcTypeOK, Kind
  <2> QED
    BY <2>1, EnvCalls DEF LogInv, LogFirst, Kind
<1> QED
  BY <1>1, <1>2, <1>3 DEF LogInv, OwnPointers, LogFirst, coordVars

(* With a log whose writes succeed, a commit is told only after its record *)
(* is in the log, for any numbers of stores and calls and any ids.         *)
THEOREM WriteAheadCorrect ==
  ASSUME WriteMayFail = FALSE
  PROVE  CoordSpec => []WriteAhead
<1>1. ClosedInit => LogInv
  BY LogInvInit
<1>2. LogInv /\ [CoordNext \/ EnvNext]_allVars => LogInv'
  <2>1. LogInv /\ UNCHANGED allVars => LogInv'
    BY TypeStutter DEF LogInv, OwnPointers, LogFirst, allVars, coordVars, rpcVars
  <2> QED
    BY <2>1, LogInvCoord, LogInvEnv
<1>3. LogInv => WriteAhead
  BY LogInvImplies
<1> QED
  BY <1>1, <1>2, <1>3, PTL DEF CoordSpec, allVars

-----------------------------------------------------------------------------
(***************************************************************************)
(* With ids that differ from call to call, a logged commit is never        *)
(* contradicted.  The invariant follows an id through the life of its one  *)
(* call: a record in the log belongs to a call past its decision, and so   *)
(* does an abort, told, sent or answered; a lookup that finds no entry     *)
(* for an id that was handed out means that its call ended without a       *)
(* record; and an id is asked for only when it was handed out.             *)
(***************************************************************************)
DistinctTids == \A r, s \in Store : TidOf[r] = TidOf[s] => r = s

Over(s) == pc[s] = "done" /\ TidOf[s] \notin log

LogOwned == \A t \in log : \E s \in Store : TidOf[s] = t /\ pc[s] \in {"logged", "done"}

AbortsOver ==
  /\ \A s \in Store : tx[s].state_t = "ABORT" \/ reply[s] = "aborted" => Over(s)
  /\ \A s \in Store, b \in Backend : calls["abort"][TidOf[s]][b] > 0 => Over(s)

Pointers ==
  /\ \A t \in Txid : tx_db[t] = Recovered => t \in log
  /\ \A s \in Store : up /\ tx_db[TidOf[s]] = None /\ pc[s] # "idle" => Over(s)
  /\ \A s \in Store : tx_db[TidOf[s]] \in Store => pc[tx_db[TidOf[s]]] # "idle"
  /\ ~up => Running = {}

AsksKnown ==
  /\ \A s \in Store, b \in Backend : prep[s][b] # "none" => pc[s] # "idle"
  /\ \A a \in asks : \E s \in Store : TidOf[s] = a[1] /\ pc[s] # "idle"

OutcomeInv ==
  /\ TypeOK
  /\ OwnPointers
  /\ LogOwned
  /\ AbortsOver
  /\ Pointers
  /\ AsksKnown
  /\ \A t \in Txid, b \in Backend :
       calls["abort"][t][b] > 0 => \E s \in Store : TidOf[s] = t

(* The invariant is stronger than the property. *)
LEMMA OutcomeInvImplies ==
  ASSUME DistinctTids, OutcomeInv
  PROVE  OneOutcome
<1> SUFFICES ASSUME NEW t \in log
             PROVE  /\ \A b \in Backend : calls["abort"][t][b] = 0
                    /\ up => EntryState(t) \in {"PREPARE", "COMMIT"}
                    /\ \A s \in Store : TidOf[s] = t => reply[s] # "aborted"
  BY DEF OneOutcome
<1> USE DEF OutcomeInv
<1>1. t \in Txid
  BY DEF TypeOK, CoordTypeOK
<1>2. \A s \in Store : TidOf[s] = t => ~Over(s)
  BY DEF Over
<1>3. \A b \in Backend : calls["abort"][t][b] = 0
  <2>1. \A b \in Backend : calls["abort"][t][b] \in Nat
    BY <1>1 DEF TypeOK, RpcTypeOK, Kind
  <2> QED
    BY <1>1, <1>2, <2>1 DEF AbortsOver
<1>4. up => EntryState(t) \in {"PREPARE", "COMMIT"}
  <2>1. PICK s \in Store : TidOf[s] = t /\ pc[s] \in {"logged", "done"}
    BY DEF LogOwned
  <2>2. up => tx_db[t] # None
    BY <1>2, <2>1 DEF Pointers
  <2>3. tx_db[t] \in Store => tx[tx_db[t]].state_t \in {"PREPARE", "COMMIT"}
    BY <1>1, <1>2 DEF OwnPointers, AbortsOver, TypeOK, CoordTypeOK, TxEntry, State
  <2> QED
    BY <1>1, <2>2, <2>3 DEF EntryState, TypeOK, CoordTypeOK
<1> QED
  BY <1>2, <1>3, <1>4 DEF AbortsOver

(* It holds at the start. *)
LEMMA OutcomeInvInit == ClosedInit => OutcomeInv
BY TypeInit, RpcAssumption, CoordAssumption
DEF ClosedInit, RpcInit, CoordInit, OutcomeInv, OwnPointers, LogOwned, AbortsOver, Pointers, AsksKnown,
    NewEntry, Kind, Running

(* After a step that aborts no call but those that are over, the calls in  *)
(* flight to abort are again only for those.                               *)
LEMMA SendAbortOver ==
  ASSUME OutcomeInv, NEW k \in Kind, NEW t \in Txid, NEW B, SendCall(k, t, B)
  PROVE  \A u \in Txid, b \in Backend :
           calls'["abort"][u][b] > 0 => calls["abort"][u][b] > 0 \/ (k = "abort" /\ u = t)
BY DEF OutcomeInv, TypeOK, RpcTypeOK, SendCall, Kind

(* The end of the process ends every call that is running, without a record *)
(* or with one.                                                            *)
LEMMA ProcessEndsOutcome ==
  ASSUME OutcomeInv, TypeOK', ProcessEnds
  PROVE  OutcomeInv'
<1> USE RpcAssumption, CoordAssumption DEF OutcomeInv, ProcessEnds
<1>1. \A s \in Store : Over(s) => Over(s)'
  BY DEF Over, Running
<1>2. \A s \in Store : pc[s] # "idle" => pc'[s] # "idle"
  BY DEF TypeOK, CoordTypeOK
<1>3. OwnPointers' /\ LogOwned'
  BY DEF OwnPointers, LogOwned, Running
<1>4. AbortsOver'
  BY <1>1 DEF AbortsOver, NewEntry
<1>5. Pointers'
  BY DEF Pointers, Running, TypeOK, CoordTypeOK
<1>6. AsksKnown'
  BY <1>2 DEF AsksKnown
<1> QED
  BY <1>3, <1>4, <1>5, <1>6

(* Every step of a Store handler keeps it. *)
LEMMA OutcomeInvStore ==
  ASSUME DistinctTids, OutcomeInv, NEW s \in Store, StoreStep(s)
  PROVE  OutcomeInv'
<1> USE RpcAssumption, CoordAssumption DEF OutcomeInv, TypeOK, CoordTypeOK
<1>1. TypeOK'
  BY TypeStore
<1>2. CASE StoreBegin(s)
  <2>1. pc[s] = "idle" /\ pc'[s] = "voting"
    BY <1>2 DEF StoreBegin
  <2>2. ~Over(s) /\ TidOf[s] \notin log
    BY <2>1 DEF Over, LogOwned, DistinctTids
  <2>3. OwnPointers' /\ LogOwned'
    BY <1>2 DEF StoreBegin, InsertEntry, getTid, OwnPointers, LogOwned
  <2>4. AbortsOver'
    BY <1>2, <2>2 DEF StoreBegin, NewEntry, AbortsOver, Over
  <2>5. Pointers'
    BY <1>2, <2>2 DEF StoreBegin, InsertEntry, getTid, Pointers, Over, DistinctTids, Running
  <2>6. AsksKnown'
    BY <1>2 DEF StoreBegin, SendPrepare, AsksKnown, RpcTypeOK
  <2> QED
    BY <1>1, <1>2, <2>3, <2>4, <2>5, <2>6 DEF StoreBegin
<1>3. CASE \E b \in Backend : GetVoteReturn(s, b)
  <2>1. PICK b \in Backend : GetVoteReturn(s, b)
    BY <1>3
  <2>2. AbortsOver'
    BY <2>1 DEF GetVoteReturn, AbortsOver, Over, TxEntry
  <2>3. AsksKnown'
    BY <2>1 DEF GetVoteReturn, SetPrep, AsksKnown, RpcTypeOK
  <2> QED
    BY <1>1, <2>1, <2>2, <2>3 DEF GetVoteReturn, OwnPointers, LogOwned, Pointers, Over, Running
<1>4. CASE \E b \in Backend : GetVoteFails(s, b)
  BY <1>1, <1>4 DEF GetVoteFails, OwnPointers, LogOwned, AbortsOver, Pointers, AsksKnown,
                   Over, Running, rpcVars
<1>5. CASE StoreAbort(s)
  <2>1. pc[s] = "voting" /\ pc' = [pc EXCEPT ![s] = "done"] /\ log' = log
    BY <1>5 DEF StoreAbort, Joined, Finish
  <2>2. TidOf[s] \notin log
    BY <2>1 DEF LogOwned, DistinctTids
  <2>3. Over(s)' /\ (\A r \in Store : Over(r) => Over(r)')
    BY <2>1, <2>2 DEF Over
  <2>4. \A u \in Txid, b \in Backend :
          calls'["abort"][u][b] > 0 => calls["abort"][u][b] > 0 \/ u = TidOf[s]
    BY <1>5, SendAbortOver DEF StoreAbort, getTid, Kind
  <2>5. AbortsOver'
    BY <1>5, <2>3, <2>4 DEF StoreAbort, Finish, AbortsOver, TxEntry, DistinctTids
  <2>6. Pointers'
    BY <1>5, <2>1, <2>3 DEF StoreAbort, Pointers, Running
  <2>7. AsksKnown' /\ LogOwned' /\ OwnPointers'
    BY <1>5, <2>1 DEF StoreAbort, AsksKnown, LogOwned, OwnPointers
  <2> QED
    BY <1>1, <2>4, <2>5, <2>6, <2>7
<1>6. CASE StoreLog(s) \/ StoreLogFails(s)
  <2>1. /\ pc[s] = "voting" /\ pc' = [pc EXCEPT ![s] = "logged"]
        /\ log' \in {log, log \cup {TidOf[s]}}
        /\ UNCHANGED <<up, tx_db, tx, reply, rpcVars>>
    BY <1>6 DEF StoreLog, StoreLogFails, tpcLog, Joined, getTid
  <2>2. \A r \in Store : Over(r) => Over(r)'
    BY <2>1 DEF Over, DistinctTids
  <2>3. LogOwned'
    BY <2>1 DEF LogOwned
  <2>4. AbortsOver' /\ AsksKnown' /\ OwnPointers'
    BY <2>1, <2>2 DEF AbortsOver, AsksKnown, OwnPointers, rpcVars
  <2>5. up
    BY <2>1 DEF Pointers, Running
  <2>6. Pointers'
    BY <2>1, <2>2, <2>5 DEF Pointers
  <2> QED
    BY <1>1, <2>1, <2>3, <2>4, <2>6 DEF rpcVars
<1>7. CASE StoreAnnounce(s)
  <2>1. /\ pc[s] = "logged" /\ pc' = [pc EXCEPT ![s] = "done"]
        /\ UNCHANGED <<log, up, tx_db, prep, asks>>
    BY <1>7 DEF StoreAnnounce, Finish
  <2>2. \A r \in Store : Over(r) => Over(r)'
    BY <2>1 DEF Over
  <2>3. \A u \in Txid, b \in Backend :
          calls'["abort"][u][b] > 0 => calls["abort"][u][b] > 0
    BY <1>7, SendAbortOver DEF StoreAnnounce, getTid, Kind
  <2>4. AbortsOver'
    BY <1>7, <2>2, <2>3 DEF StoreAnnounce, Finish, AbortsOver, TxEntry
  <2>5. Pointers' /\ LogOwned' /\ AsksKnown' /\ OwnPointers'
    BY <2>1, <2>2 DEF Pointers, LogOwned, AsksKnown, OwnPointers, Running
  <2> QED
    BY <1>1, <2>3, <2>4, <2>5
<1>8. CASE JoinPastEnd(s)
  <2>1. ProcessEnds
    BY <1>8 DEF JoinPastEnd
  <2> QED
    BY <1>1, <2>1, ProcessEndsOutcome
<1> QED
  BY <1>2, <1>3, <1>4, <1>5, <1>6, <1>7, <1>8 DEF StoreStep

(* Every other step of the coordinator keeps it. *)
LEMMA OutcomeInvCoord ==
  ASSUME DistinctTids, OutcomeInv, CoordNext
  PROVE  OutcomeInv'
<1> USE RpcAssumption, CoordAssumption DEF OutcomeInv
<1>1. TypeOK'
  BY TypeCoord
<1>2. CASE \E s \in Store : StoreStep(s)
  BY <1>2, OutcomeInvStore
<1>3. CASE \E b \in Backend : RegisterInsert(b) \/ RegisterCount(b)
  BY <1>1, <1>3 DEF RegisterInsert, RegisterCount, rpcVars, OwnPointers, LogOwned, AbortsOver,
                   Pointers, AsksKnown, Over, Running
<1>4. CASE \E t \in Txid, b \in Backend : CommitVote(t, b)
  <2>1. PICK t \in Txid, b \in Backend : CommitVote(t, b)
    BY <1>4
  <2>2. PICK s \in Store : TidOf[s] = t /\ pc[s] # "idle"
    BY <2>1 DEF CommitVote, AsksKnown
  <2>3. up /\ UNCHANGED coordVars /\ prep' = prep /\ asks' \subseteq asks
    BY <2>1 DEF CommitVote
  <2>4. "abort" \in Answer(t) => Over(s)
    <3>1. EntryState(t) = "none" => Over(s)
      BY <2>2, <2>3 DEF EntryState, Pointers, TypeOK, CoordTypeOK, TxEntry, State
    <3>2. EntryState(t) = "ABORT" => Over(s)
      BY <2>2, CoordAssumption
      DEF EntryState, OwnPointers, AbortsOver, DistinctTids, TypeOK, CoordTypeOK, TxEntry, State
    <3> QED
      BY <3>1, <3>2 DEF Answer, EntryState, TypeOK, CoordTypeOK, TxEntry, State
  <2>5. Answer(t) \subseteq Kind
    BY DEF Answer, Kind, EntryState, TypeOK, CoordTypeOK, TxEntry, State
  <2>6. \A u \in Txid, c \in Backend :
          calls'["abort"][u][c] > 0 => calls["abort"][u][c] > 0 \/ (u = t /\ Over(s))
    BY <2>1, <2>4, <2>5, SendAbortOver DEF CommitVote
  <2>7. AbortsOver'
    BY <2>2, <2>3, <2>6 DEF AbortsOver, Over, DistinctTids, coordVars
  <2> QED
    BY <1>1, <2>2, <2>3, <2>6, <2>7
    DEF OwnPointers, LogOwned, Pointers, AsksKnown, Over, Running, coordVars
<1>5. CASE CoordCrash
  <2>1. ProcessEnds
    BY <1>5 DEF CoordCrash
  <2> QED
    BY <1>1, <2>1, ProcessEndsOutcome
<1>6. CASE Recover
  <2>1. /\ up' /\ tx_db' = LogEntries
        /\ UNCHANGED <<log, tx, pc, reply, prep, asks>>
        /\ Running = {}
    BY <1>6 DEF Recover, Pointers
  <2>2. \A t \in Txid, b \in Backend : calls'["abort"][t][b] = calls["abort"][t][b]
    BY <1>6 DEF Recover, TypeOK, RpcTypeOK, Kind
  <2>3. \A s \in Store : pc[s] \in {"idle", "done"}
    BY <2>1 DEF Running, TypeOK, CoordTypeOK
  <2>4. AbortsOver'
    BY <2>1, <2>2 DEF AbortsOver, Over
  <2>5. Pointers' /\ OwnPointers'
    BY <2>1, <2>3 DEF Pointers, OwnPointers, LogEntries, Over
  <2> QED
    BY <1>1, <2>1, <2>2, <2>4, <2>5 DEF LogOwned, AsksKnown
<1> QED
  BY <1>2, <1>3, <1>4, <1>5, <1>6 DEF CoordNext

(* What the stores and the network do keeps it. *)
LEMMA OutcomeInvEnv ==
  ASSUME OutcomeInv, EnvNext
  PROVE  OutcomeInv'
<1> USE RpcAssumption DEF OutcomeInv
<1>1. TypeOK'
  BY TypeEnv
<1>2. UNCHANGED coordVars
  BY DEF EnvNext
<1>3. \A t \in Txid, b \in Backend : calls'["abort"][t][b] > 0 => calls["abort"][t][b] > 0
  <2>1. \A t \in Txid, b \in Backend :
          /\ calls["abort"][t][b] \in Nat
          /\ calls'["abort"][t][b] \in Nat
    BY <1>1 DEF TypeOK, RpcTypeOK, Kind
  <2> QED
    BY <2>1, EnvCalls DEF Kind
<1>4. AsksKnown'
  <2>1. CASE \E s \in Store, b \in Backend : EnvPrepare(s, b)
    <3>1. PICK s \in Store, b \in Backend, stage \in {"taken", "ok"} :
             SetPrep(s, b, stage) /\ prep[s][b] # "none" /\ asks' = asks
      BY <2>1 DEF EnvPrepare
    <3>2. \A r \in Store, c \in Backend : prep'[r][c] # "none" => prep[r][c] # "none"
      BY <3>1 DEF SetPrep, TypeOK, RpcTypeOK
    <3> QED
      BY <1>2, <3>1, <3>2 DEF AsksKnown, coordVars
  <2>2. CASE \E b \in Backend : EnvAsk(b)
    <3>1. PICK b \in Backend : EnvAsk(b)
      BY <2>2
    <3>2. PICK T \in SUBSET {t \in Txid : Took(b, t)} : asks' = asks \cup (T \X {b})
      BY <3>1 DEF EnvAsk
    <3>3. \A a \in T \X {b} : \E s \in Store : TidOf[s] = a[1] /\ pc[s] # "idle"
      BY DEF Took, AsksKnown
    <3> QED
      BY <1>2, <3>1, <3>2, <3>3 DEF EnvAsk, AsksKnown, coordVars
  <2>3. CASE prep' = prep /\ asks' \subseteq asks
    BY <1>2, <2>3 DEF AsksKnown, coordVars
  <2> QED
    BY <2>1, <2>2, <2>3
    DEF EnvNext, EnvRegister, EnvTake, RpcNext, LoseReg, LoseAsk, LoseCall
<1> QED
  BY <1>1, <1>2, <1>3, <1>4
  DEF OwnPointers, LogOwned, AbortsOver, Pointers, Over, Running, coordVars

(* With distinct ids, no abort is told, sent or answered for a transaction *)
(* whose commit is logged, whatever crashes and failed writes there are.   *)
THEOREM OneOutcomeCorrect ==
  ASSUME DistinctTids
  PROVE  CoordSpec => []OneOutcome
<1>1. ClosedInit => OutcomeInv
  BY OutcomeInvInit
<1>2. OutcomeInv /\ [CoordNext \/ EnvNext]_allVars => OutcomeInv'
  <2>1. OutcomeInv /\ UNCHANGED allVars => OutcomeInv'
    BY TypeStutter
    DEF OutcomeInv, OwnPointers, LogOwned, AbortsOver, Pointers, AsksKnown, Over, Running,
        allVars, coordVars, rpcVars
  <2> QED
    BY <2>1, OutcomeInvCoord, OutcomeInvEnv
<1>3. OutcomeInv => OneOutcome
  BY OutcomeInvImplies
<1> QED
  BY <1>1, <1>2, <1>3, PTL DEF CoordSpec, allVars

-----------------------------------------------------------------------------
(***************************************************************************)
(* No commit without the votes: VotesComplete of Coordinator.tla, whatever *)
(* stores register, fail to answer or are lost, and whenever they do.      *)
(***************************************************************************)
Given(s) == {b \in asked[s] : prep[s][b] = "counted"}

(***************************************************************************)
(* vote_count counts the asked stores that have voted, each once: a store  *)
(* is waited for only as long as its vote is not counted.  The asked       *)
(* stores are registered as long as the process lives.                     *)
(***************************************************************************)
Counting ==
  \A s \in Store :
    /\ pc[s] = "idle" => \A b \in Backend : prep[s][b] = "none"
    /\ pc[s] = "voting" => /\ tx[s].vote_count = Cardinality(Given(s))
                           /\ asked[s] \subseteq reg_db
                           /\ up
    /\ pc[s] # "voting" => waiting[s] = {}
    /\ waiting[s] \subseteq asked[s] \ Given(s)

(* R_FACTOR lags behind reg_db by the stores whose handlers are half-way.  *)
FactorLag == Cardinality(reg_db) <= R_FACTOR + Cardinality(registering)

VoteInv == TypeOK /\ Counting /\ FactorLag

-----------------------------------------------------------------------------
(* What an unchanged call has and what the others do is kept.              *)
LEMMA CountingKept ==
  ASSUME VoteInv, NEW s \in Store, NEW r \in Store,
         pc'[r] = pc[r], prep'[r] = prep[r], tx'[r] = tx[r], asked'[r] = asked[r],
         waiting'[r] = waiting[r], reg_db \subseteq reg_db', up' = up
  PROVE  /\ pc'[r] = "idle" => \A b \in Backend : prep'[r][b] = "none"
         /\ pc'[r] = "voting" => /\ tx'[r].vote_count = Cardinality(Given(r)')
                                 /\ asked'[r] \subseteq reg_db'
                                 /\ up'
         /\ pc'[r] # "voting" => waiting'[r] = {}
         /\ waiting'[r] \subseteq asked'[r] \ Given(r)'
<1>1. Given(r)' = Given(r)
  BY DEF Given
<1> QED
  BY <1>1 DEF VoteInv, Counting

(* It holds at the start: no call has begun. *)
LEMMA VoteInvInit == ClosedInit => VoteInv
<1> SUFFICES ASSUME ClosedInit PROVE VoteInv
  OBVIOUS
<1>1. TypeOK
  BY TypeInit
<1>2. Counting
  BY DEF ClosedInit, RpcInit, CoordInit, Counting
<1>3. FactorLag
  BY FS_EmptySet DEF ClosedInit, CoordInit, FactorLag
<1> QED
  BY <1>1, <1>2, <1>3 DEF VoteInv

(* The end of the process ends every first phase and empties reg_db.       *)
LEMMA ProcessEndsVotes ==
  ASSUME VoteInv, TypeOK', ProcessEnds
  PROVE  VoteInv'
<1>1. Counting'
  BY DEF ProcessEnds, Running, VoteInv, Counting, TypeOK, CoordTypeOK
<1>2. FactorLag'
  BY FS_EmptySet DEF ProcessEnds, FactorLag
<1> QED
  BY <1>1, <1>2 DEF VoteInv

(* Registration: reg_db grows, and R_FACTOR follows.                       *)
LEMMA VoteInvRegister ==
  ASSUME VoteInv, TypeOK', NEW b \in Backend, RegisterInsert(b) \/ RegisterCount(b)
  PROVE  VoteInv'
<1> USE DEF VoteInv, TypeOK, CoordTypeOK
<1>1. Counting'
  <2>1. /\ UNCHANGED <<pc, prep, tx, asked, waiting, up>>
        /\ reg_db \subseteq reg_db'
    BY DEF RegisterInsert, RegisterCount, rpcVars
  <2> QED
    BY <2>1, CountingKept DEF Counting
<1>2. IsFiniteSet(reg_db) /\ IsFiniteSet(registering)
  BY FS_Subset, RpcAssumption
<1>3. FactorLag'
  <2>1. CASE RegisterInsert(b)
    <3>1. registering = {} /\ registering' = {b} /\ R_FACTOR' = R_FACTOR
      BY <2>1 DEF RegisterInsert, RegisterFree
    <3>2. Cardinality(registering) = 0 /\ Cardinality(registering') = 1
      BY <3>1, FS_EmptySet, FS_Singleton
    <3>3. Cardinality(reg_db) \in Nat /\ Cardinality(reg_db') \in Nat
      BY CardinalityOfBackends
    <3>4. Cardinality(reg_db') <= Cardinality(reg_db) + 1
      <4>1. reg_db' = reg_db \cup {b}
        BY <2>1 DEF RegisterInsert
      <4>2. Cardinality(reg_db') = IF b \in reg_db THEN Cardinality(reg_db)
                                   ELSE Cardinality(reg_db) + 1
        BY <1>2, <4>1, FS_AddElement
      <4> QED
        BY <3>3, <4>2
    <3> QED
      BY <3>1, <3>2, <3>3, <3>4 DEF FactorLag
  <2>2. CASE RegisterCount(b)
    <3>1. R_FACTOR' = Cardinality(reg_db') /\ registering' \subseteq Backend
      BY <2>2 DEF RegisterCount
    <3>2. Cardinality(reg_db') \in Nat /\ Cardinality(registering') \in Nat
      BY CardinalityOfBackends
    <3> QED
      BY <3>1, <3>2 DEF FactorLag
  <2> QED
    BY <2>1, <2>2
<1> QED
  BY <1>1, <1>3

(* Every step of a Store handler keeps it. *)
LEMMA VoteInvStore ==
  ASSUME VoteInv, NEW s \in Store, StoreStep(s)
  PROVE  VoteInv'
<1> USE DEF VoteInv, TypeOK, CoordTypeOK
<1>1. TypeOK'
  BY TypeStore
<1> DEFINE Kept == /\ UNCHANGED <<reg_db, R_FACTOR, registering, up>>
                   /\ \A r \in Store \ {s} :
                        /\ pc'[r] = pc[r] /\ prep'[r] = prep[r] /\ tx'[r] = tx[r]
                        /\ asked'[r] = asked[r] /\ waiting'[r] = waiting[r]
           OwnCount == /\ pc'[s] # "idle"
                       /\ pc'[s] = "voting" => /\ tx'[s].vote_count = Cardinality(Given(s)')
                                               /\ asked'[s] \subseteq reg_db'
                                               /\ up'
                       /\ pc'[s] # "voting" => waiting'[s] = {}
                       /\ waiting'[s] \subseteq asked'[s] \ Given(s)'
<1>2. Kept /\ OwnCount => VoteInv'
  <2> SUFFICES ASSUME Kept, OwnCount PROVE VoteInv'
    OBVIOUS
  <2>1. Counting'
    BY CountingKept DEF Counting
  <2>2. FactorLag'
    BY DEF FactorLag
  <2> QED
    BY <1>1, <2>1, <2>2
<1>3. CASE StoreBegin(s)
  <2>1. /\ pc[s] = "idle" /\ pc' = [pc EXCEPT ![s] = "voting"]
        /\ tx'[s].vote_count = 0
        /\ asked'[s] = reg_db /\ waiting'[s] = reg_db /\ up'
        /\ prep' = [prep EXCEPT ![s] = [b \in Backend |-> IF b \in reg_db THEN "sent" ELSE @[b]]]
    BY <1>3 DEF StoreBegin, SendPrepare, NewEntry
  <2>2. Given(s)' = {}
    BY <2>1 DEF Given, RpcTypeOK
  <2>3. OwnCount
    BY <1>3, <2>1, <2>2, FS_EmptySet DEF StoreBegin
  <2>4. Kept
    BY <1>3, <2>1 DEF StoreBegin, RpcTypeOK
  <2> QED
    BY <1>2, <2>3, <2>4
<1>4. CASE \E b \in Backend : GetVoteReturn(s, b)
  <2>1. PICK b \in Backend : GetVoteReturn(s, b)
    BY <1>4
  <2>2. b \in asked[s] \ Given(s) /\ pc[s] = "voting"
    BY <2>1 DEF GetVoteReturn, Counting
  <2>3. Given(s)' = Given(s) \cup {b}
    BY <2>1, <2>2 DEF GetVoteReturn, SetPrep, Given, RpcTypeOK
  <2>4. Given(s) \in SUBSET Backend
    BY DEF Given
  <2>5. Cardinality(Given(s)') = Cardinality(Given(s)) + 1
    <3>1. IsFiniteSet(Given(s))
      BY <2>4, FS_Subset, RpcAssumption
    <3> QED
      BY <2>2, <2>3, <3>1, FS_AddElement
  <2>6. tx'[s].vote_count = tx[s].vote_count + 1
    BY <2>1 DEF GetVoteReturn, TxEntry
  <2>7. OwnCount
    BY <2>1, <2>2, <2>3, <2>5, <2>6 DEF GetVoteReturn, Counting
  <2>8. Kept
    BY <2>1 DEF GetVoteReturn, SetPrep, RpcTypeOK
  <2> QED
    BY <1>2, <2>7, <2>8
<1>5. CASE \E b \in Backend : GetVoteFails(s, b)
  <2>1. PICK b \in Backend : GetVoteFails(s, b)
    BY <1>5
  <2>2. Given(s)' = Given(s) /\ pc[s] = "voting"
    BY <2>1 DEF GetVoteFails, rpcVars, Given, Counting
  <2>3. OwnCount
    BY <2>1, <2>2 DEF GetVoteFails, Counting
  <2>4. Kept
    BY <2>1 DEF GetVoteFails, rpcVars
  <2> QED
    BY <1>2, <2>3, <2>4
<1>6. CASE StoreAbort(s)
  <2>1. OwnCount
    BY <1>6 DEF StoreAbort, Joined, Finish
  <2>2. Kept
    BY <1>6 DEF StoreAbort, Finish
  <2> QED
    BY <1>2, <2>1, <2>2
<1>7. CASE StoreLog(s) \/ StoreLogFails(s)
  <2>1. OwnCount
    BY <1>7 DEF StoreLog, StoreLogFails, Joined
  <2>2. Kept
    BY <1>7 DEF StoreLog, StoreLogFails, rpcVars
  <2> QED
    BY <1>2, <2>1, <2>2
<1>8. CASE StoreAnnounce(s)
  <2>1. OwnCount
    BY <1>8 DEF StoreAnnounce, Finish, Counting
  <2>2. Kept
    BY <1>8 DEF StoreAnnounce, Finish
  <2> QED
    BY <1>2, <2>1, <2>2
<1>9. CASE JoinPastEnd(s)
  BY <1>1, <1>9, ProcessEndsVotes DEF JoinPastEnd
<1> QED
  BY <1>3, <1>4, <1>5, <1>6, <1>7, <1>8, <1>9 DEF StoreStep

(* Every other step of the coordinator keeps it. *)
LEMMA VoteInvCoord ==
  ASSUME VoteInv, CoordNext
  PROVE  VoteInv'
<1> USE DEF VoteInv
<1>1. TypeOK'
  BY TypeCoord
<1>2. CASE \E s \in Store : StoreStep(s)
  BY <1>2, VoteInvStore
<1>3. CASE \E b \in Backend : RegisterInsert(b) \/ RegisterCount(b)
  BY <1>1, <1>3, VoteInvRegister
<1>4. CASE \E t \in Txid, b \in Backend : CommitVote(t, b)
  BY <1>1, <1>4 DEF CommitVote, coordVars, Counting, FactorLag, Given
<1>5. CASE CoordCrash
  BY <1>1, <1>5, ProcessEndsVotes DEF CoordCrash
<1>6. CASE Recover
  <2>1. \A s \in Store : pc[s] # "voting"
    BY <1>6 DEF Recover, Counting
  <2>2. Counting'
    BY <1>6, <2>1 DEF Recover, Counting, Given
  <2>3. R_FACTOR' = Cardinality(reg_db') /\ registering' = registering
    BY <1>6 DEF Recover
  <2>4. Cardinality(reg_db') \in Nat /\ Cardinality(registering) \in Nat
    BY <1>1, CardinalityOfBackends DEF TypeOK, CoordTypeOK
  <2>5. FactorLag'
    BY <2>3, <2>4 DEF FactorLag
  <2> QED
    BY <1>1, <2>2, <2>5
<1> QED
  BY <1>2, <1>3, <1>4, <1>5, <1>6 DEF CoordNext

(* The surroundings take and answer Prepare calls, but count no vote.      *)
LEMMA VoteInvEnv ==
  ASSUME VoteInv, EnvNext
  PROVE  VoteInv'
<1> USE DEF VoteInv
<1>1. TypeOK' /\ UNCHANGED coordVars
  BY TypeEnv DEF EnvNext
<1>2. \A s \in Store, b \in Backend :
        /\ prep'[s][b] = "counted" <=> prep[s][b] = "counted"
        /\ prep[s][b] = "none" => prep'[s][b] = "none"
  <2>1. CASE \E s \in Store, b \in Backend : EnvPrepare(s, b)
    BY <2>1 DEF EnvPrepare, SetPrep, TypeOK, RpcTypeOK
  <2>2. CASE prep' = prep
    BY <2>2
  <2> QED
    BY <2>1, <2>2 DEF EnvNext, EnvAsk, EnvRegister, EnvTake, RpcNext, LoseReg, LoseAsk, LoseCall
<1>3. \A s \in Store : Given(s)' = Given(s)
  <2> SUFFICES ASSUME NEW s \in Store PROVE Given(s)' = Given(s)
    OBVIOUS
  <2>1. asked'[s] = asked[s] /\ asked[s] \subseteq Backend
    BY <1>1 DEF coordVars, TypeOK, CoordTypeOK
  <2> QED
    BY <1>2, <2>1 DEF Given
<1>4. Counting'
  BY <1>1, <1>2, <1>3 DEF coordVars, Counting
<1> QED
  BY <1>1, <1>4 DEF coordVars, FactorLag

(* Every step keeps it. *)
LEMMA VoteInvNext == VoteInv /\ [CoordNext \/ EnvNext]_allVars => VoteInv'
<1>1. VoteInv /\ UNCHANGED allVars => VoteInv'
  <2> SUFFICES ASSUME VoteInv, UNCHANGED allVars PROVE VoteInv'
    OBVIOUS
  <2>1. \A s \in Store : Given(s)' = Given(s)
    BY DEF Given, allVars, coordVars, rpcVars
  <2>2. Counting'
    BY <2>1 DEF VoteInv, Counting, allVars, coordVars, rpcVars
  <2>3. FactorLag'
    BY DEF VoteInv, FactorLag, allVars, coordVars
  <2> QED
    BY <2>2, <2>3, TypeStutter DEF VoteInv
<1> QED
  BY <1>1, VoteInvCoord, VoteInvEnv

-----------------------------------------------------------------------------
(* Only the log steps of its own handler commit a call.                    *)
LEMMA CommitIsLogged ==
  ASSUME VoteInv, NEW s \in Store, Commits(s), [CoordNext \/ EnvNext]_allVars
  PROVE  Joined(s) /\ AllVoted(s)
<1> USE DEF VoteInv, TypeOK, CoordTypeOK, Commits
<1>1. \A r \in Store : StoreLog(r) \/ StoreLogFails(r) => r = s
  BY DEF StoreLog, StoreLogFails
<1>2. CASE \E r \in Store : StoreStep(r)
  <2>1. PICK r \in Store : StoreStep(r)
    BY <1>2
  <2>2. ~ProcessEnds
    BY DEF ProcessEnds, Running
  <2>3. StoreLog(r) \/ StoreLogFails(r)
    BY <2>1, <2>2
    DEF StoreStep, StoreBegin, GetVoteReturn, GetVoteFails, StoreAbort, StoreAnnounce, Finish,
        JoinPastEnd
  <2> QED
    BY <1>1, <2>3 DEF StoreLog, StoreLogFails
<1>3. CASE CoordNext /\ ~\E r \in Store : StoreStep(r)
  BY <1>3
  DEF CoordNext, RegisterInsert, RegisterCount, CommitVote, coordVars, CoordCrash, ProcessEnds,
      Running, Recover
<1> QED
  BY <1>2, <1>3 DEF EnvNext, allVars, coordVars

(* |asked| - |Given| <= |reg_db| - R_FACTOR <= |registering|               *)
LEMMA CommitHasVotes ==
  ASSUME VoteInv, NEW s \in Store, Joined(s), AllVoted(s)
  PROVE  Cardinality(MissingVotes(s)) <= Cardinality(registering)
<1> USE DEF VoteInv, TypeOK, CoordTypeOK
<1>1. /\ tx[s].vote_count = Cardinality(Given(s))
      /\ asked[s] \subseteq reg_db
      /\ Cardinality(Given(s)) = R_FACTOR
  BY DEF Joined, AllVoted, Counting
<1>2. IsFiniteSet(reg_db) /\ IsFiniteSet(asked[s])
  BY FS_Subset, RpcAssumption
<1>3. Cardinality(asked[s]) <= Cardinality(reg_db)
  BY <1>1, <1>2, FS_Subset
<1>4. Cardinality(MissingVotes(s)) = Cardinality(asked[s]) - Cardinality(Given(s))
  <2>1. MissingVotes(s) = asked[s] \ Given(s) /\ asked[s] \cap Given(s) = Given(s)
    BY DEF MissingVotes, Given
  <2> QED
    BY <1>2, <2>1, FS_Difference
<1>5. /\ Cardinality(asked[s]) \in Nat
      /\ Cardinality(reg_db) \in Nat
      /\ Cardinality(registering) \in Nat
  BY CardinalityOfBackends
<1> QED
  BY <1>1, <1>3, <1>4, <1>5 DEF FactorLag

(* A call is committed with the vote of every store it asked, save the one *)
(* whose Register handler is half-way, for any numbers of stores, calls    *)
(* and crashes and any ids.                                                *)
THEOREM VotesCompleteCorrect == CoordSpec => VotesComplete
<1>1. ClosedInit => VoteInv
  BY VoteInvInit
<1>2. VoteInv /\ [CoordNext \/ EnvNext]_allVars => VoteInv'
  BY VoteInvNext
<1> DEFINE Voted == \A s \in Store : Commits(s) =>
                      Cardinality(MissingVotes(s)) <= Cardinality(registering)
<1>3. VoteInv /\ [CoordNext \/ EnvNext]_allVars => [Voted]_coordVars
  BY CommitIsLogged, CommitHasVotes
<1> QED
  BY <1>1, <1>2, <1>3, PTL DEF CoordSpec, allVars, VotesComplete

-----------------------------------------------------------------------------
(* The whole system. *)

Processes == [Backend -> Memory]
Files == [Backend -> Disk]
RwLock == [writer : Thread \cup {Main, None}, readers : Int]
Buffers == Seq(Store \cup {None})

(* What a write puts into a file is a content again. *)
LEMMA WrittenType ==
  ASSUME NEW old \in Buffers, NEW offset \in Nat, NEW new \in Buffers
  PROVE  Written(old, offset, new) \in Buffers
<1> USE DEF Buffers
<1> DEFINE end == offset + Len(new)
           n == IF end > Len(old) THEN end ELSE Len(old)
           f(i) == IF i \in offset + 1 .. end THEN new[i - offset]
                   ELSE IF i <= Len(old) THEN old[i] ELSE None
<1>1. n \in Nat
  OBVIOUS
<1>2. \A i \in 1..n : f(i) \in Store \cup {None}
  OBVIOUS
<1>3. [i \in 1..n |-> f(i)] \in Seq(Store \cup {None})
  <2> HIDE DEF f, n
  <2> QED
    BY <1>1, <1>2
<1> QED
  BY <1>3 DEF Written

(* What Becomes does to one process leaves the others as they are. *)
LEMMA NewMemory ==
  ASSUME mem \in Processes, NEW b \in Backend, NEW m \in Memory, Becomes(b, m)
  PROVE  mem' \in Processes
BY DEF Becomes, Processes

(* The memory of a process that has ended is one of the right type. *)
LEMMA ProcessEndType ==
  ASSUME mem \in Processes, NEW b \in Backend, ProcessEnd(b)
  PROVE  mem' \in Processes
<1>1. NotRunning \in Memory
  BY DEF Memory, NotRunning, Unlocked, TxState
<1> QED
  BY <1>1, NewMemory DEF ProcessEnd

(* A write to a file keeps the types of the files. *)
LEMMA WriteType ==
  ASSUME mem \in Processes, disk \in Files, NEW b \in Backend, NEW s \in Store,
         NEW new \in Buffers, Write(b, s, new)
  PROVE  disk' \in Files
<1> DEFINE fd == mem[b].fd[s]
<1>1. fd.inode \in Store \cup {None} /\ fd.offset \in Nat
  BY DEF Processes, Memory
<1>2. CASE fd.inode = None
  BY <1>2 DEF Write
<1>3. CASE fd.inode # None
  <2>1. disk[b].data[fd.inode] \in Buffers
    BY <1>1, <1>3 DEF Files, Disk, Buffers
  <2>2. PICK w \in Buffers : disk' = [disk EXCEPT ![b].data[fd.inode] = w]
    <3>1. disk' = [disk EXCEPT ![b].data[fd.inode] =
                     Written(disk[b].data[fd.inode], fd.offset, new)]
      BY <1>3 DEF Write
    <3> QED
      BY <3>1, <2>1, <1>1, WrittenType
  <2> QED
    BY <2>2, <1>1, <1>3 DEF Files, Disk, Buffers
<1> QED
  BY <1>2, <1>3

(* The locks of the C library stay locks. *)
LEMMA LockTypes ==
  ASSUME NEW lock \in RwLock
  PROVE  /\ \A thread \in Thread :
              RdLocked(lock, thread) \in RwLock /\ WrLocked(lock, thread) \in RwLock
         /\ UnlockOf(lock) \in RwLock
BY DEF RwLock, RdLocked, WrLocked, UnlockOf

(***************************************************************************)
(* The handlers of Commit and Abort, which are counted: one enters, leaves *)
(* or moves on at a time.                                                  *)
(***************************************************************************)
Counts == [Kind -> [Txid -> [Stage -> Nat]]]

(* With one handler more or less the counts are counts; a handler is at a  *)
(* stage where there was none only when it has just come there.            *)
LEMMA CountsMove ==
  ASSUME NEW h \in Counts, NEW k \in Kind, NEW t \in Txid, NEW x \in Stage
  PROVE  /\ Enters(h, k, t, x) \in Counts
         /\ \A j \in Kind, u \in Txid, z \in Stage :
              Enters(h, k, t, x)[j][u][z] > 0 => h[j][u][z] > 0 \/ (j = k /\ u = t /\ z = x)
         /\ h[k][t][x] > 0 =>
              /\ Leaves(h, k, t, x) \in Counts
              /\ \A j \in Kind, u \in Txid, z \in Stage :
                   Leaves(h, k, t, x)[j][u][z] > 0 => h[j][u][z] > 0
<1>1. h[k][t][x] \in Nat
  BY DEF Counts
<1> DEFINE n == h[k][t][x]
<1>2. \A m \in Nat : [h EXCEPT ![k][t][x] = m] \in Counts
  BY <1>1 DEF Counts
<1>3. \A m : \A j \in Kind, u \in Txid, z \in Stage :
        \/ [h EXCEPT ![k][t][x] = m][j][u][z] = h[j][u][z]
        \/ j = k /\ u = t /\ z = x
  BY DEF Counts
<1>4. Enters(h, k, t, x) = [h EXCEPT ![k][t][x] = n + 1]
  BY DEF Enters
<1>5. Leaves(h, k, t, x) = [h EXCEPT ![k][t][x] = n - 1]
  BY DEF Leaves
<1>6. n \in Nat /\ n + 1 \in Nat /\ (n > 0 => n - 1 \in Nat)
  BY <1>1
<1>7. \A j \in Kind, u \in Txid, z \in Stage : j = k /\ u = t /\ z = x => h[j][u][z] = n
  OBVIOUS
<1> HIDE DEF n
<1>8. Enters(h, k, t, x) \in Counts /\ (n > 0 => Leaves(h, k, t, x) \in Counts)
  BY <1>2, <1>4, <1>5, <1>6
<1>9. \A j \in Kind, u \in Txid, z \in Stage :
         Enters(h, k, t, x)[j][u][z] > 0 => h[j][u][z] > 0 \/ (j = k /\ u = t /\ z = x)
  BY <1>3, <1>4
<1>10. ASSUME n > 0
       PROVE  \A j \in Kind, u \in Txid, z \in Stage :
                Leaves(h, k, t, x)[j][u][z] > 0 => h[j][u][z] > 0
  BY <1>3, <1>5, <1>7, <1>10
<1> QED
  BY <1>8, <1>9, <1>10 DEF n

(* So too when it goes from one stage to another. *)
LEMMA CountsMoveOn ==
  ASSUME NEW h \in Counts, NEW k \in Kind, NEW t \in Txid, NEW x \in Stage, NEW y \in Stage,
         h[k][t][x] > 0
  PROVE  /\ MovesOn(h, k, t, x, y) \in Counts
         /\ \A j \in Kind, u \in Txid, z \in Stage :
              MovesOn(h, k, t, x, y)[j][u][z] > 0 => h[j][u][z] > 0 \/ (j = k /\ u = t /\ z = y)
<1> DEFINE g == Leaves(h, k, t, x)
<1>1. /\ g \in Counts
      /\ \A j \in Kind, u \in Txid, z \in Stage : g[j][u][z] > 0 => h[j][u][z] > 0
  BY CountsMove
<1>2. MovesOn(h, k, t, x, y) = Enters(g, k, t, y)
  BY DEF MovesOn
<1> HIDE DEF g
<1>3. /\ Enters(g, k, t, y) \in Counts
      /\ \A j \in Kind, u \in Txid, z \in Stage :
           Enters(g, k, t, y)[j][u][z] > 0 => g[j][u][z] > 0 \/ (j = k /\ u = t /\ z = y)
  BY <1>1, CountsMove
<1> QED
  BY <1>1, <1>2, <1>3

(* What the counts of two moments say of one store: no handler is at a     *)
(* stage where none was, but for one of k and t that is at the stage x.    *)
NoneNew(b) ==
  \A j \in Kind, u \in Txid, z \in Stage : At(b, j, u, z)' => At(b, j, u, z)

OneNew(b, k, t, x) ==
  \A j \in Kind, u \in Txid, z \in Stage :
    At(b, j, u, z)' => At(b, j, u, z) \/ (j = k /\ u = t /\ z = x)

(* What a step does to the counts tells who is where after it. *)
LEMMA HandlersMove ==
  ASSUME mem \in Processes, NEW b \in Backend, NEW k \in Kind, NEW t \in Txid, NEW x \in Stage
  PROVE  /\ mem'[b].handlers = mem[b].handlers => NoneNew(b)
         /\ mem'[b].handlers = Enters(mem[b].handlers, k, t, x) => OneNew(b, k, t, x)
         /\ At(b, k, t, x) /\ mem'[b].handlers = Leaves(mem[b].handlers, k, t, x) => NoneNew(b)
         /\ \A y \in Stage :
              At(b, k, t, x) /\ mem'[b].handlers = MovesOn(mem[b].handlers, k, t, x, y) =>
                OneNew(b, k, t, y)
<1> DEFINE h == mem[b].handlers
           i == mem'[b].handlers
<1>1. h \in Counts
  BY DEF Processes, Memory, Counts
<1>2. \A j \in Kind, u \in Txid, z \in Stage :
        (At(b, j, u, z) <=> h[j][u][z] > 0) /\ (At(b, j, u, z)' <=> i[j][u][z] > 0)
  BY DEF At
<1> HIDE DEF h, i
<1>3. i = h => NoneNew(b)
  BY <1>2 DEF NoneNew
<1>4. \A j \in Kind, u \in Txid, z \in Stage :
        Enters(h, k, t, x)[j][u][z] > 0 => h[j][u][z] > 0 \/ (j = k /\ u = t /\ z = x)
  BY <1>1, CountsMove
<1>5. ASSUME h[k][t][x] > 0
      PROVE  \A j \in Kind, u \in Txid, z \in Stage :
               Leaves(h, k, t, x)[j][u][z] > 0 => h[j][u][z] > 0
  BY <1>1, <1>5, CountsMove
<1>6. \A y \in Stage : h[k][t][x] > 0 =>
        \A j \in Kind, u \in Txid, z \in Stage :
          MovesOn(h, k, t, x, y)[j][u][z] > 0 => h[j][u][z] > 0 \/ (j = k /\ u = t /\ z = y)
  BY <1>1, CountsMoveOn
<1>7. i = Enters(h, k, t, x) => OneNew(b, k, t, x)
  BY <1>2, <1>4 DEF OneNew
<1>8. At(b, k, t, x) /\ i = Leaves(h, k, t, x) => NoneNew(b)
  BY <1>2, <1>5 DEF NoneNew
<1>9. \A y \in Stage :
        At(b, k, t, x) /\ i = MovesOn(h, k, t, x, y) => OneNew(b, k, t, y)
  BY <1>2, <1>6 DEF OneNew
<1> QED
  BY <1>3, <1>7, <1>8, <1>9 DEF h, i

(***************************************************************************)
(* What a store relies on, beside the types: a handler of Prepare has the  *)
(* lock that it will take, and its call is not answered yet; one of Abort  *)
(* or Commit has its entry and a lock; an entry or a record belongs to a   *)
(* call of its id whose Prepare this store took.                           *)
(***************************************************************************)
Taken == {"taken", "ok", "counted"}

HandlersHold(b) ==
  \A s \in Store :
    /\ mem[b].pc[s] \in {"open", "copy", "append", "wrlock", "log"} => mem[b].file_lock[s] \in Store
    /\ mem[b].pc[s] = "insert" => mem[b].file_lock[s] # None
    /\ mem[b].pc[s] # "none" => prep[s][b] = "taken"

HalfwayHolds(b) ==
  \A k \in Kind, t \in Txid, stage \in Stage :
    At(b, k, t, stage) =>
      /\ mem[b].status \notin {"off", "registering"}
      /\ mem[b].tx_db[t] # None /\ mem[b].lock_db[PathOf[mem[b].tx_db[t]]] # None

EntriesHold(b) ==
  \A t \in Txid :
    LET e == mem[b].tx_db[t] IN e # None => TidOf[e] = t /\ prep[e][b] \in Taken

RecordsHold(b) ==
  \A t \in Txid :
    LET r == LastRecord(b, t) IN r.state_t # "none" => TidOf[r.req] = t /\ prep[r.req][b] \in Taken

StoreHolds(b) == HandlersHold(b) /\ HalfwayHolds(b) /\ EntriesHold(b) /\ RecordsHold(b)

(* The steps of Prepare keep the types. *)
LEMMA TypePrepare ==
  ASSUME mem \in Processes, disk \in Files, NEW b \in Backend, HandlersHold(b),
         NEW s \in Store, PrepareStep(b, s)
  PROVE  mem' \in Processes /\ disk' \in Files
<1> DEFINE m == mem[b]
           p == PathOf[s]
           t == TidOf[s]
           l == m.file_lock[s]
<1>1. m \in Memory /\ p \in Path /\ t \in Txid /\ StoreThread[s] \in Thread
  BY RpcAssumption, BackendAssumption DEF Processes
<1>2. CASE PrepareLookup(b, s)
  <2> DEFINE x == IF m.lock_db[p] = None THEN "lookup" ELSE "insert"
  <2>1. [m EXCEPT !.pc[s] = x, !.file_lock[s] = m.lock_db[p]] \in Memory
    <3> HIDE DEF m, p
    <3> QED
      BY <1>1 DEF Memory
  <2> QED
    BY <1>2, <2>1, NewMemory DEF PrepareLookup
<1>3. CASE PrepareNewLock(b, s)
  <2> DEFINE x == IF m.lock_db[p] = None THEN s ELSE m.lock_db[p]
  <2>1. x \in Store \cup {None, NULL}
    BY <1>1 DEF Memory
  <2>2. [m EXCEPT !.pc[s] = "insert", !.file_lock[s] = s, !.lock_db[p] = x] \in Memory
    <3> HIDE DEF m, p, x
    <3> QED
      BY <1>1, <2>1 DEF Memory
  <2> QED
    BY <1>3, <2>2, NewMemory DEF PrepareNewLock
<1>4. CASE PrepareInsert(b, s)
  <2> DEFINE x == IF OpOf[s] = "store" THEN "open" ELSE "wrlock"
             e == IF m.tx_db[t] = None THEN s ELSE m.tx_db[t]
  <2>1. e \in Store \cup {None}
    BY <1>1 DEF Memory
  <2>2. [m EXCEPT !.pc[s] = x, !.state_t[s] = "PREPARE", !.tx_db[t] = e] \in Memory
    <3> HIDE DEF m, t, e
    <3> QED
      BY <1>1, <2>1 DEF Memory, TxState
  <2> QED
    BY <1>4, <2>2, NewMemory DEF PrepareInsert
<1>5. CASE PrepareNullLock(b, s)
  BY <1>5, ProcessEndType DEF PrepareNullLock
<1>6. CASE PrepareOpen(b, s)
  <2> DEFINE i == IF disk[b].temp[t] = None THEN s ELSE disk[b].temp[t]
             fd == [inode |-> i, offset |-> 0]
  <2>1. i \in Store
    BY <1>1 DEF Files, Disk
  <2>2. [m EXCEPT !.pc[s] = "copy", !.fd[s] = fd] \in Memory
    <3>1. fd \in [inode : Store \cup {None}, offset : Nat]
      BY <2>1
    <3> HIDE DEF m, fd
    <3> QED
      BY <1>1, <3>1 DEF Memory
  <2>3. mem' \in Processes
    BY <1>6, <2>2, NewMemory DEF PrepareOpen
  <2>4. disk' = [disk EXCEPT ![b].temp[t] = i, ![b].data[i] = <<>>]
    BY <1>6 DEF PrepareOpen
  <2>5. disk' \in Files
    <3>1. <<>> \in Buffers
      BY DEF Buffers
    <3> HIDE DEF t, i
    <3> DEFINE d == [disk EXCEPT ![b].temp[t] = i]
    <3>2. d \in Files
      BY <1>1, <2>1 DEF Files, Disk
    <3>3. disk' = [d EXCEPT ![b].data[i] = <<>>]
      BY <2>4
    <3>4. [d[b] EXCEPT !.data[i] = <<>>] \in Disk
      <4>1. d[b] \in Disk
        BY <3>2 DEF Files
      <4> HIDE DEF d
      <4> QED
        BY <2>1, <3>1, <4>1 DEF Disk, Buffers
    <3> QED
      BY <3>2, <3>3, <3>4 DEF Files
  <2> QED
    BY <2>3, <2>5
<1>7. CASE PrepareOpenFails(b, s)
  <2>1. [m EXCEPT !.pc[s] = "copy"] \in Memory
    BY <1>1 DEF Memory
  <2> QED
    BY <1>7, <2>1, NewMemory DEF PrepareOpenFails
<1>8. CASE PrepareCopy(b, s)
  <2>1. Attempts(Content(b, p)) \subseteq Buffers
    <3>1. disk[b].file[p] \in Store \cup {None} /\ <<>> \in Buffers
      BY <1>1 DEF Files, Disk, Buffers
    <3>2. \A i \in Store : disk[b].data[i] \in Buffers
      BY DEF Files, Disk, Buffers
    <3> QED
      BY <3>1, <3>2 DEF Attempts, Content
  <2>2. PICK copied \in Attempts(Content(b, p)) :
          /\ Write(b, s, copied)
          /\ Becomes(b, [m EXCEPT !.pc[s] = "append",
                                  !.lock[l] = RdLocked(@, StoreThread[s]),
                                  !.fd[s].offset = Len(copied)])
    BY <1>8 DEF PrepareCopy
  <2> DEFINE n == Len(copied)
             k == RdLocked(m.lock[l], StoreThread[s])
             fd == [m.fd[s] EXCEPT !.offset = n]
  <2>3. l \in Store
    BY <1>8 DEF HandlersHold, PrepareCopy, Preparing
  <2>4. n \in Nat /\ k \in RwLock
    <3>1. m.lock[l] \in RwLock
      BY <1>1, <2>3 DEF Memory, RwLock
    <3>2. copied \in Buffers
      BY <2>1, <2>2
    <3>3. n \in Nat
      BY <3>2 DEF Buffers
    <3>4. k \in RwLock
      BY <1>1, <3>1, LockTypes
    <3> QED
      BY <3>3, <3>4
  <2>5. [m EXCEPT !.pc[s] = "append", !.lock[l] = k, !.fd[s] = fd] \in Memory
    <3>1. fd \in [inode : Store \cup {None}, offset : Nat]
      <4>1. m.fd[s] \in [inode : Store \cup {None}, offset : Nat]
        BY <1>1 DEF Memory
      <4> HIDE DEF m, n
      <4> QED
        BY <2>4, <4>1
    <3> HIDE DEF m, l, k, fd
    <3> QED
      BY <1>1, <2>3, <2>4, <3>1 DEF Memory, RwLock
  <2>6. mem' \in Processes
    BY <2>2, <2>5, NewMemory
  <2> QED
    BY <2>1, <2>2, <2>6, WriteType
<1>9. CASE PrepareAppend(b, s)
  <2>1. Attempts(<<s>>) \subseteq Buffers
    <3>1. <<s>> \in Buffers /\ <<>> \in Buffers
      BY DEF Buffers
    <3> QED
      BY <3>1 DEF Attempts
  <2> DEFINE k == UnlockOf(m.lock[l])
             fd == [inode |-> None, offset |-> 0]
  <2>2. l \in Store
    BY <1>9 DEF HandlersHold, PrepareAppend, Preparing
  <2>3. k \in RwLock
    BY <1>1, <2>2, LockTypes DEF Memory, RwLock
  <2>4. [m EXCEPT !.pc[s] = "wrlock", !.lock[l] = k, !.fd[s] = fd] \in Memory
    <3> HIDE DEF m, l, k
    <3> QED
      BY <1>1, <2>2, <2>3 DEF Memory, RwLock
  <2>5. mem' \in Processes
    BY <1>9, <2>4, NewMemory DEF PrepareAppend
  <2> QED
    BY <1>9, <2>1, <2>5, WriteType DEF PrepareAppend
<1>10. CASE PrepareWrLock(b, s)
  <2> DEFINE k == WrLocked(m.lock[l], StoreThread[s])
  <2>1. l \in Store
    BY <1>10 DEF HandlersHold, PrepareWrLock, Preparing
  <2>2. k \in RwLock
    BY <1>1, <2>1, LockTypes DEF Memory, RwLock
  <2>3. [m EXCEPT !.pc[s] = "log", !.lock[l] = k] \in Memory
    <3> HIDE DEF m, l, k
    <3> QED
      BY <1>1, <2>1, <2>2 DEF Memory, RwLock
  <2> QED
    BY <1>10, <2>3, NewMemory DEF PrepareWrLock
<1>11. CASE PrepareLog(b, s) \/ PrepareLogFails(b, s)
  <2>1. PICK x \in Thread \cup {None} :
          Becomes(b, [m EXCEPT !.pc[s] = "none", !.file_lock[s] = None, !.log_lock = x])
    BY <1>1, <1>11 DEF PrepareLog, PrepareLogFails, PrepareEnd
  <2>2. [m EXCEPT !.pc[s] = "none", !.file_lock[s] = None, !.log_lock = x] \in Memory
    <3> HIDE DEF m
    <3> QED
      BY <1>1 DEF Memory
  <2>3. mem' \in Processes
    BY <2>1, <2>2, NewMemory
  <2>4. Logged(disk[b], t, m.state_t[s], s) \in Disk
    <3>1. disk[b] \in Disk /\ m.state_t[s] \in TxState
      BY <1>1 DEF Files, Memory
    <3> HIDE DEF m, t
    <3> QED
      BY <1>1, <3>1 DEF Disk, Logged
  <2>5. disk' \in Files
    BY <1>11, <2>4 DEF PrepareLog, PrepareLogFails, Files
  <2> QED
    BY <2>3, <2>5
<1> QED
  BY <1>2, <1>3, <1>4, <1>5, <1>6, <1>7, <1>8, <1>9, <1>10, <1>11 DEF PrepareStep

(* So do the start, the recovery and the end of a process, and its asking. *)
LEMMA TypeOthers ==
  ASSUME mem \in Processes, disk \in Files, NEW b \in Backend, StoreHolds(b),
         \/ StoreStart(b) \/ StoreRecover(b) \/ Listen(b) \/ AskReturns(b)
         \/ Exit(b) \/ StoreCrash(b)
         \/ \E t \in Txid : AskAgain(b, t)
  PROVE  mem' \in Processes /\ disk' \in Files
<1> DEFINE m == mem[b]
<1>1. m \in Memory
  BY DEF Processes
<1>2. CASE StoreStart(b)
  <2>1. [m EXCEPT !.status = "registering"] \in Memory
    BY <1>1 DEF Memory
  <2> QED
    BY <1>2, <2>1, NewMemory DEF StoreStart
<1>3. CASE StoreRecover(b)
  <2> DEFINE u == IF Prepared(b) = {} THEN "up" ELSE "recovering"
             e == [t \in Txid |-> LastRecord(b, t).req]
             x == [s \in Store |-> IF LastRecord(b, TidOf[s]).req = s
                                         THEN LastRecord(b, TidOf[s]).state_t ELSE m.state_t[s]]
             d == [p \in Path |-> RecoveredLock(b, p)]
             l == [s \in Store |-> IF RecoveredLock(b, PathOf[s]) = s
                                         THEN WrLocked(m.lock[s], Main) ELSE m.lock[s]]
  <2>1. \A t \in Txid : LastRecord(b, t) \in [state_t : TxState, req : Store] \cup {NoRecord}
    BY DEF LastRecord, Files, Disk
  <2>2. e \in [Txid -> Store \cup {None}]
    BY <2>1 DEF NoRecord
  <2>3. x \in [Store -> TxState]
    <3>1. \A s \in Store :
            LastRecord(b, TidOf[s]).req = s => LastRecord(b, TidOf[s]).state_t \in TxState
      BY <2>1, RpcAssumption DEF NoRecord
    <3> QED
      BY <1>1, <3>1 DEF Memory
  <2>4. d \in [Path -> Store \cup {None, NULL}]
    BY DEF RecoveredLock, InDoubt
  <2>5. l \in [Store -> RwLock]
    <3>1. m.lock \in [Store -> RwLock]
      BY <1>1 DEF Memory, RwLock
    <3>2. \A lock \in RwLock : WrLocked(lock, Main) \in RwLock
      BY DEF RwLock, WrLocked
    <3> HIDE DEF m
    <3>3. \A s \in Store : m.lock[s] \in RwLock /\ WrLocked(m.lock[s], Main) \in RwLock
      BY <3>1, <3>2
    <3> QED
      BY <3>3
  <2>6. [m EXCEPT !.status = u, !.tx_db = e, !.state_t = x, !.lock_db = d, !.lock = l] \in Memory
    <3> HIDE DEF m, e, x, d, l
    <3> QED
      BY ZenonT(60), <1>1, <2>2, <2>3, <2>4, <2>5 DEF Memory, RwLock
  <2> QED
    BY <1>3, <2>6, NewMemory DEF StoreRecover
<1>4. CASE Listen(b)
  <2>1. [m EXCEPT !.status = "up"] \in Memory
    BY <1>1 DEF Memory
  <2> QED
    BY <1>4, <2>1, NewMemory DEF Listen
<1>5. CASE \E t \in Txid : AskAgain(b, t)
  <2>1. \A t \in Txid : [m EXCEPT !.asking = t] \in Memory
    BY <1>1 DEF Memory
  <2> QED
    BY <1>5, <2>1, NewMemory DEF AskAgain
<1>6. CASE AskReturns(b)
  <2>1. [m EXCEPT !.asking = None] \in Memory
    BY <1>1 DEF Memory
  <2> QED
    BY <1>6, <2>1, NewMemory DEF AskReturns
<1>7. CASE Exit(b) \/ StoreCrash(b)
  BY <1>7, ProcessEndType DEF Exit, StoreCrash
<1> QED
  BY <1>2, <1>3, <1>4, <1>5, <1>6, <1>7

(* And the handlers of Abort and Commit. *)
LEMMA TypeOutcome ==
  ASSUME mem \in Processes, disk \in Files, NEW b \in Backend, StoreHolds(b),
         NEW t \in Txid, OutcomeStep(b, t)
  PROVE  mem' \in Processes /\ disk' \in Files
<1> DEFINE m == mem[b]
           e == m.tx_db[t]
           p == PathOf[e]
<1>1. m \in Memory /\ disk[b] \in Disk /\ e \in Store \cup {None} /\ (e # None => p \in Path)
  BY BackendAssumption DEF Processes, Files, Memory
<1>2. CASE AbortBegin(b, t)
  <2>1. CASE e = None
    BY <1>2, <2>1 DEF AbortBegin
  <2>2. CASE e # None
    <3> DEFINE l == LockLookup(b, e)
               h == Enters(m.handlers, "abort", t, "log")
    <3>1. l \in Store \cup {None, NULL}
      BY <1>1, <2>2 DEF LockLookup, Memory
    <3>5. h \in Counts
      <4>1. m.handlers \in Counts /\ "abort" \in Kind /\ "log" \in Stage
        BY <1>1 DEF Memory, Counts, Kind, Stage
      <4> QED
        BY <4>1, CountsMove
    <3>2. [m EXCEPT !.state_t[e] = "ABORT", !.lock_db[p] = l, !.handlers = h] \in Memory
      <4> HIDE DEF m, e, p, l, h
      <4> QED
        BY <1>1, <2>2, <3>1, <3>5 DEF Memory, TxState, Counts
    <3>3. mem' \in Processes
      BY <1>2, <2>2, <3>2, NewMemory DEF AbortBegin
    <3>4. disk' \in Files
      <4> DEFINE x == [disk[b] EXCEPT !.temp[t] = None]
      <4>1. x \in Disk
        BY <1>1 DEF Disk
      <4>2. disk' = [disk EXCEPT ![b] = x]
        BY <1>2, <2>2 DEF AbortBegin
      <4> QED
        BY <4>1, <4>2 DEF Files
    <3> QED
      BY <3>3, <3>4
  <2> QED
    BY <2>1, <2>2
<1>3. CASE CommitBegin(b, t)
  <2>1. CASE e # None /\ MayCommit(m.state_t[e])
    <3> DEFINE l == LockLookup(b, e)
               h == Enters(m.handlers, "commit", t, "file")
    <3>1. l \in Store \cup {None, NULL}
      BY <1>1, <2>1 DEF LockLookup, Memory
    <3>2. h \in Counts
      <4>1. m.handlers \in Counts /\ "commit" \in Kind /\ "file" \in Stage
        BY <1>1 DEF Memory, Counts, Kind, Stage
      <4> QED
        BY <4>1, CountsMove
    <3>3. [m EXCEPT !.lock_db[p] = l, !.handlers = h] \in Memory
      <4> HIDE DEF m, e, p, l, h
      <4> QED
        BY <1>1, <2>1, <3>1, <3>2 DEF Memory, Counts
    <3> QED
      BY <1>3, <2>1, <3>3, NewMemory DEF CommitBegin
  <2>2. CASE ~(e # None /\ MayCommit(m.state_t[e]))
    <3>1. [m EXCEPT !.exiting = TRUE] \in Memory
      BY <1>1 DEF Memory
    <3> QED
      BY <1>3, <2>2, <3>1, NewMemory DEF CommitBegin
  <2>3. UNCHANGED disk
    BY <1>3 DEF CommitBegin
  <2> QED
    BY <2>1, <2>2, <2>3
<1>4. CASE CommitFile(b, t)
  <2>1. At(b, "commit", t, "file") /\ m.handlers \in Counts
    BY <1>1, <1>4 DEF CommitFile, Memory, Counts
  <2>2. e \in Store
    BY <1>1, <2>1 DEF StoreHolds, HalfwayHolds, Kind, Stage
  <2> DEFINE h == MovesOn(m.handlers, "commit", t, "file", "state")
  <2>3. h \in Counts
    BY <2>1, CountsMoveOn DEF Kind, Stage, At
  <2>4. [m EXCEPT !.handlers = h] \in Memory
    <3> HIDE DEF m, h
    <3> QED
      BY <1>1, <2>3 DEF Memory, Counts
  <2>5. mem' \in Processes
    BY <1>4, <2>4, NewMemory DEF CommitFile
  <2>6. Applied(disk[b], t, e) \in Disk
    <3> HIDE DEF e
    <3> DEFINE x == disk[b]
    <3>1. x \in Disk
      BY <1>1
    <3>2. [x EXCEPT !.file[p] = None] \in Disk
      <4> HIDE DEF x
      <4> QED
        BY <1>1, <2>2, <3>1 DEF Disk
    <3>3. [x EXCEPT !.file[p] = x.temp[t], !.temp[t] = None] \in Disk
      <4> HIDE DEF x
      <4> QED
        BY <1>1, <2>2, <3>1 DEF Disk
    <3> QED
      BY <3>1, <3>2, <3>3 DEF Applied
  <2>7. disk' \in Files
    BY <1>4, <2>6 DEF CommitFile, Files
  <2> QED
    BY <2>5, <2>7
<1>5. CASE CommitState(b, t)
  <2>1. At(b, "commit", t, "state") /\ m.handlers \in Counts
    BY <1>1, <1>5 DEF CommitState, Memory, Counts
  <2>2. e \in Store
    BY <1>1, <2>1 DEF StoreHolds, HalfwayHolds, Kind, Stage
  <2> DEFINE h == MovesOn(m.handlers, "commit", t, "state", "log")
  <2>3. h \in Counts
    BY <2>1, CountsMoveOn DEF Kind, Stage, At
  <2>4. [m EXCEPT !.state_t[e] = "COMMIT", !.handlers = h] \in Memory
    <3> HIDE DEF m, e, h
    <3> QED
      BY <1>1, <2>2, <2>3 DEF Memory, Counts, TxState
  <2> QED
    BY <1>5, <2>4, NewMemory DEF CommitState
<1>6. ASSUME NEW k \in Kind, NEW x \in Thread \cup {None}, At(b, k, t, "log"),
             UnlockFile(b, k, t, x)
      PROVE  mem' \in Processes
  <2>1. e \in Store /\ m.lock_db[p] \in Store \cup {NULL}
    BY <1>1, <1>6 DEF StoreHolds, HalfwayHolds, Memory, Stage
  <2>2. CASE m.lock_db[p] = NULL
    BY <1>6, <2>2, ProcessEndType DEF UnlockFile
  <2>3. CASE m.lock_db[p] # NULL
    <3> DEFINE l == m.lock_db[p]
               u == UnlockOf(m.lock[l])
               h == Leaves(m.handlers, k, t, "log")
               ex == (m.exiting \/ k = "commit")
    <3>1. l \in Store /\ m.lock[l] \in RwLock
      BY <1>1, <2>1, <2>3 DEF Memory, RwLock
    <3>2. u \in RwLock
      BY <3>1, LockTypes
    <3>3. h \in Counts
      <4>1. m.handlers \in Counts /\ "log" \in Stage /\ m.handlers[k][t]["log"] > 0
        BY <1>1, <1>6 DEF Memory, Counts, Stage, At
      <4> QED
        BY <4>1, CountsMove
    <3>4. ex \in BOOLEAN
      OBVIOUS
    <3>5. [m EXCEPT !.lock[l] = u, !.log_lock = x, !.handlers = h, !.exiting = ex] \in Memory
      <4> HIDE DEF m, l, u, h, ex
      <4> QED
        BY <1>1, <3>1, <3>2, <3>3, <3>4 DEF Memory, RwLock, Counts
    <3>6. Becomes(b, [m EXCEPT !.lock[l] = u, !.log_lock = x, !.handlers = h, !.exiting = ex])
      BY <1>6, <2>3 DEF UnlockFile
    <3> QED
      BY <3>5, <3>6, NewMemory
  <2> QED
    BY <2>2, <2>3
<1>7. CASE \E k \in Kind : LogAndUnlock(b, k, t) \/ LogFailsAndUnlock(b, k, t)
  <2>1. PICK k \in Kind : LogAndUnlock(b, k, t) \/ LogFailsAndUnlock(b, k, t)
    BY <1>7
  <2>2. PICK x \in Thread \cup {None} : At(b, k, t, "log") /\ UnlockFile(b, k, t, x)
    BY <2>1 DEF LogAndUnlock, LogFailsAndUnlock
  <2>3. mem' \in Processes
    BY <2>2, <1>6
  <2>4. e \in Store /\ m.state_t[e] \in TxState
    BY <1>1, <2>2 DEF StoreHolds, HalfwayHolds, Memory, Stage
  <2>5. Logged(disk[b], t, m.state_t[e], e) \in Disk
    <3> HIDE DEF m, e
    <3> QED
      BY <1>1, <2>4 DEF Disk, Logged
  <2>6. disk' \in Files
    BY <2>1, <2>5 DEF LogAndUnlock, LogFailsAndUnlock, Files
  <2> QED
    BY <2>3, <2>6
<1> QED
  BY <1>2, <1>3, <1>7, <1>4, <1>5 DEF OutcomeStep

(* A handler of Prepare takes its call, and answers it once. *)
LEMMA PrepareConforms ==
  ASSUME RpcTypeOK, NEW b \in Backend, HandlersHold(b), NEW s \in Store, PrepareStep(b, s)
  PROVE  EnvPrepare(s, b) \/ UNCHANGED rpcVars
<1>1. \A x : PrepareEnd(b, s, x) /\ mem[b].pc[s] = "log" => EnvPrepare(s, b)
  BY DEF PrepareEnd, EnvPrepare, HandlersHold
<1> QED
  BY <1>1 DEF PrepareStep, PrepareLookup, PrepareNewLock, PrepareInsert, PrepareNullLock,
     PrepareOpen, PrepareOpenFails, PrepareCopy, PrepareAppend, PrepareWrLock, PrepareLog,
     PrepareLogFails, EnvPrepare, Arrives, Preparing

(* Whatever a store does, the other stores do not see it; a Prepare call   *)
(* that was taken stays so.                                                *)
LEMMA OthersKept ==
  ASSUME RpcTypeOK, mem \in Processes, disk \in Files, NEW b \in Backend, HandlersHold(b),
         BackendStep(b)
  PROVE  /\ \A c \in Backend \ {b} :
              /\ mem'[c] = mem[c]
              /\ disk'[c] = disk[c]
              /\ \A s \in Store : prep'[s][c] = prep[s][c]
         /\ \A s \in Store : prep[s][b] \in Taken => prep'[s][b] \in Taken
         /\ \A s \in Store : prep'[s][b] # "none" => prep[s][b] # "none"
<1> DEFINE Same(x, y) == \A c \in Backend \ {b} : y[c] = x[c]
<1>1. Same(mem, mem')
  <2>1. \A m : Becomes(b, m) => Same(mem, mem')
    BY DEF Becomes, Processes
  <2> HIDE DEF Same
  <2>2. UNCHANGED mem => Same(mem, mem')
    BY DEF Same
  <2>3. ProcessEnd(b) => Same(mem, mem')
    BY <2>1 DEF ProcessEnd
  <2>4. \A x : \A k \in Kind, t \in Txid : UnlockFile(b, k, t, x) => Same(mem, mem')
    BY <2>1, <2>3 DEF UnlockFile
  <2>5. \A s \in Store : PrepareStep(b, s) => Same(mem, mem')
    BY ZenonT(60), <2>1, <2>3
    DEF PrepareStep, PrepareLookup, PrepareNewLock, PrepareInsert, PrepareNullLock,
       PrepareOpen, PrepareOpenFails, PrepareCopy, PrepareAppend, PrepareWrLock, PrepareLog,
       PrepareLogFails, PrepareEnd
  <2>6. \A t \in Txid : OutcomeStep(b, t) => Same(mem, mem')
    BY <2>1, <2>2, <2>4
    DEF OutcomeStep, AbortBegin, CommitBegin, CommitFile, CommitState, LogAndUnlock,
        LogFailsAndUnlock
  <2> QED
    BY <2>1, <2>3, <2>5, <2>6
    DEF BackendStep, StoreStart, StoreRecover, Listen, AskAgain, AskReturns, Exit, StoreCrash
<1>2. Same(disk, disk')
  <2>1. \A d : disk' = [disk EXCEPT ![b] = d] => Same(disk, disk')
    BY DEF Files
  <2>2. \A s \in Store : PrepareStep(b, s) => Same(disk, disk')
    <3> SUFFICES ASSUME NEW s \in Store, PrepareStep(b, s)
                 PROVE  Same(disk, disk')
      OBVIOUS
    <3>1. \A new : Write(b, s, new) => Same(disk, disk')
      BY DEF Write, Files
    <3>2. PrepareOpen(b, s) => Same(disk, disk')
      BY DEF PrepareOpen, Files
    <3> HIDE DEF Same
    <3>3. UNCHANGED disk => Same(disk, disk')
      BY DEF Same
    <3> QED
      BY <2>1, <3>1, <3>2, <3>3 DEF PrepareStep, PrepareLookup, PrepareNewLock, PrepareInsert,
         PrepareNullLock, PrepareOpenFails, PrepareCopy, PrepareAppend, PrepareWrLock,
         PrepareLog, PrepareLogFails
  <2>3. \A t \in Txid : OutcomeStep(b, t) => Same(disk, disk')
    <3> SUFFICES ASSUME NEW t \in Txid, OutcomeStep(b, t)
                 PROVE  Same(disk, disk')
      OBVIOUS
    <3>1. CASE AbortBegin(b, t)
      BY <3>1 DEF AbortBegin, Files
    <3>2. CASE CommitBegin(b, t) \/ CommitFile(b, t) \/ CommitState(b, t)
      BY <2>1, <3>2 DEF CommitBegin, CommitFile, CommitState
    <3>3. CASE \E k \in Kind : LogAndUnlock(b, k, t) \/ LogFailsAndUnlock(b, k, t)
      BY <2>1, <3>3 DEF LogAndUnlock, LogFailsAndUnlock
    <3> QED
      BY <3>1, <3>2, <3>3 DEF OutcomeStep
  <2>4. UNCHANGED disk => Same(disk, disk')
    OBVIOUS
  <2> HIDE DEF Same
  <2> QED
    BY <2>2, <2>3, <2>4
    DEF BackendStep, StoreStart, StoreRecover, Listen, AskAgain, AskReturns, Exit, StoreCrash
<1>3. UNCHANGED prep \/ \E s \in Store : EnvPrepare(s, b)
  BY PrepareConforms
  DEF BackendStep, StoreStart, StoreRecover, Listen, AskAgain, AskReturns, Exit, StoreCrash,
      OutcomeStep, AbortBegin, CommitBegin, CommitFile, CommitState, LogAndUnlock,
      LogFailsAndUnlock, rpcVars
<1> HIDE DEF Same
<1>4. CASE UNCHANGED prep
  BY <1>1, <1>2, <1>4 DEF Same
<1>5. CASE \E s \in Store : EnvPrepare(s, b)
  <2>1. PICK s \in Store : EnvPrepare(s, b)
    BY <1>5
  <2>2. PICK x \in {"taken", "ok"} :
          /\ prep' = [prep EXCEPT ![s][b] = x]
          /\ prep[s][b] \in {"sent", "taken"}
    BY <2>1 DEF EnvPrepare, SetPrep
  <2>3. /\ \A c \in Backend \ {b}, r \in Store : prep'[r][c] = prep[r][c]
        /\ \A r \in Store : prep'[r][b] = IF r = s THEN x ELSE prep[r][b]
    BY <2>2 DEF RpcTypeOK
  <2> QED
    BY <1>1, <1>2, <2>2, <2>3 DEF Same, Taken
<1> QED
  BY <1>3, <1>4, <1>5

(* A store asks only for transactions whose Prepare calls it took. *)
LEMMA AsksTaken ==
  ASSUME mem \in Processes, disk \in Files, NEW b \in Backend, StoreHolds(b)
  PROVE  /\ Prepared(b) \subseteq {t \in Txid : Took(b, t)}
         /\ \A t \in Txid : mem[b].tx_db[t] # None => Took(b, t)
<1>1. \A t \in Txid : mem[b].tx_db[t] \in Store \cup {None}
  BY DEF Processes, Memory
<1>2. \A t \in Txid : LastRecord(b, t).state_t = "PREPARE" => LastRecord(b, t).req \in Store
  BY DEF LastRecord, Files, Disk, NoRecord
<1> QED
  BY <1>1, <1>2 DEF StoreHolds, EntriesHold, RecordsHold, Prepared, Took, Taken

(* Every step of a store is one that Coordinator.tla takes it to make. *)
LEMMA StepConforms ==
  ASSUME RpcTypeOK, mem \in Processes, disk \in Files, NEW b \in Backend, StoreHolds(b),
         BackendStep(b), UNCHANGED coordVars
  PROVE  EnvNext \/ UNCHANGED rpcVars
<1>1. CASE \E s \in Store : PrepareStep(b, s)
  BY <1>1, PrepareConforms DEF StoreHolds, EnvNext
<1>2. CASE \E t \in Txid : OutcomeStep(b, t)
  BY <1>2 DEF OutcomeStep, AbortBegin, CommitBegin, CommitFile, CommitState, LogAndUnlock,
     LogFailsAndUnlock, Takes, EnvNext, EnvTake, Kind
<1>3. CASE StoreStart(b)
  BY <1>3 DEF StoreStart, EnvNext, EnvRegister
<1>4. CASE StoreRecover(b)
  <2>1. EnvAsk(b)
    BY <1>4, AsksTaken DEF StoreRecover, EnvAsk
  <2> QED
    BY <2>1 DEF EnvNext
<1>5. CASE \E t \in Txid : AskAgain(b, t)
  <2>1. PICK t \in Txid : AskAgain(b, t)
    BY <1>5
  <2>2. {t} \subseteq {u \in Txid : Took(b, u)}
    BY <2>1, AsksTaken DEF AskAgain
  <2>3. {<<t, b>>} = {t} \X {b}
    OBVIOUS
  <2>4. EnvAsk(b)
    BY <2>1, <2>2, <2>3 DEF AskAgain, EnvAsk
  <2> QED
    BY <2>4 DEF EnvNext
<1>6. CASE Listen(b) \/ AskReturns(b) \/ Exit(b) \/ StoreCrash(b)
  BY <1>6 DEF Listen, AskReturns, Exit, StoreCrash
<1> QED
  BY <1>1, <1>2, <1>3, <1>4, <1>5, <1>6 DEF BackendStep
(* A step that leaves a store's process and files alone, and takes no call *)
(* back from it, leaves everything it relies on in place.                  *)
LEMMA HoldsElsewhere ==
  ASSUME mem \in Processes, disk \in Files, NEW b \in Backend, StoreHolds(b),
         mem'[b] = mem[b], disk'[b] = disk[b],
         \A s \in Store : /\ prep[s][b] = "taken" => prep'[s][b] = "taken"
                          /\ prep[s][b] \in Taken => prep'[s][b] \in Taken
  PROVE  StoreHolds(b)'
<1>1. \A t \in Txid : mem[b].tx_db[t] \in Store \cup {None}
  BY DEF Processes, Memory
<1>2. \A t \in Txid : LastRecord(b, t).state_t # "none" => LastRecord(b, t).req \in Store
  BY DEF LastRecord, Files, Disk, NoRecord
<1>3. HandlersHold(b)'
  BY DEF StoreHolds, HandlersHold
<1>4. HalfwayHolds(b)'
  BY DEF StoreHolds, HalfwayHolds, At
<1>5. EntriesHold(b)'
  BY <1>1 DEF StoreHolds, EntriesHold
<1>6. RecordsHold(b)'
  BY <1>2 DEF StoreHolds, RecordsHold, LastRecord
<1> QED
  BY <1>3, <1>4, <1>5, <1>6 DEF StoreHolds

(* What a store relies on after its process has ended. *)
LEMMA EndHolds ==
  ASSUME mem \in Processes, disk \in Files, NEW b \in Backend, StoreHolds(b), ProcessEnd(b),
         \A s \in Store : prep[s][b] \in Taken => prep'[s][b] \in Taken,
         RecordsHold(b)'
  PROVE  StoreHolds(b)'
<1>1. mem'[b] = NotRunning
  BY DEF ProcessEnd, Becomes, Processes
<1> QED
  BY <1>1 DEF StoreHolds, HandlersHold, HalfwayHolds, EntriesHold, NotRunning, At

(* A store whose log, and whose Prepare calls, are left alone keeps its records. *)
LEMMA RecordsKept ==
  ASSUME disk \in Files, NEW b \in Backend, RecordsHold(b),
         \A s \in Store : prep[s][b] \in Taken => prep'[s][b] \in Taken,
         \A t \in Txid :
           \/ disk'[b].store_log[t] = disk[b].store_log[t]
           \/ /\ TidOf[disk'[b].store_log[t].req] = t
              /\ prep'[disk'[b].store_log[t].req][b] \in Taken
  PROVE  RecordsHold(b)'
<1>1. \A t \in Txid : LastRecord(b, t).state_t # "none" => LastRecord(b, t).req \in Store
  BY DEF LastRecord, Files, Disk, NoRecord
<1> QED
  BY <1>1 DEF RecordsHold, LastRecord

(* The steps of Prepare keep what the store relies on. *)
LEMMA PrepareHolds ==
  ASSUME RpcTypeOK, mem \in Processes, disk \in Files, NEW b \in Backend, StoreHolds(b),
         NEW s \in Store, PrepareStep(b, s)
  PROVE  StoreHolds(b)'
<1> DEFINE m == mem[b]
           p == PathOf[s]
           t == TidOf[s]
<1>1. m \in Memory /\ p \in Path /\ t \in Txid
  BY RpcAssumption, BackendAssumption DEF Processes
<1>2. \A x : Becomes(b, x) => mem'[b] = x
  BY DEF Becomes, Processes
<1>3. BackendStep(b)
  BY DEF BackendStep
<1>4. \A r \in Store : prep[r][b] \in Taken => prep'[r][b] \in Taken
  BY <1>3, OthersKept DEF StoreHolds
<1>5. \A r \in Store \ {s} : prep'[r][b] = prep[r][b]
  BY PrepareConforms DEF StoreHolds, EnvPrepare, SetPrep, RpcTypeOK, rpcVars
<1>6. RecordsHold(b)'
  <2>1. CASE PrepareLog(b, s)
    <3>1. prep'[s][b] \in Taken
      BY <1>4, <2>1 DEF StoreHolds, HandlersHold, PrepareLog, Preparing, Taken
    <3>2. disk' = [disk EXCEPT ![b] = Logged(disk[b], t, m.state_t[s], s)]
      BY <2>1 DEF PrepareLog
    <3>3. disk'[b].store_log =
            [disk[b].store_log EXCEPT ![t] = [state_t |-> m.state_t[s], req |-> s]]
      BY <1>1, <3>2 DEF Logged, Files, Disk
    <3>4. \A u \in Txid : \/ disk'[b].store_log[u] = disk[b].store_log[u]
                          \/ u = t /\ disk'[b].store_log[u].req = s
      BY <1>1, <3>3 DEF Files, Disk
    <3> QED
      BY <1>4, <3>1, <3>4, RecordsKept DEF StoreHolds
  <2>2. CASE ~PrepareLog(b, s)
    <3>1. disk'[b].store_log = disk[b].store_log
      <4>1. \A new : Write(b, s, new) => disk'[b].store_log = disk[b].store_log
        BY DEF Write, Files, Disk
      <4>2. PrepareOpen(b, s) => disk'[b].store_log = disk[b].store_log
        BY DEF PrepareOpen, Files, Disk
      <4> QED
        BY <2>2, <4>1, <4>2 DEF PrepareStep, PrepareLookup, PrepareNewLock, PrepareInsert,
           PrepareNullLock, PrepareOpenFails, PrepareCopy, PrepareAppend, PrepareWrLock,
           PrepareLogFails
    <3> QED
      BY <1>4, <3>1, RecordsKept DEF StoreHolds
  <2> QED
    BY <2>1, <2>2
<1>7. CASE PrepareNullLock(b, s)
  BY <1>4, <1>6, <1>7, EndHolds DEF PrepareNullLock
<1>8. ASSUME ~PrepareNullLock(b, s)
      PROVE  HandlersHold(b)'
  <2>6. DOMAIN m.pc = Store /\ DOMAIN m.file_lock = Store
    BY <1>1 DEF Memory
  <2>1. CASE PrepareLookup(b, s)
    <3>1. mem'[b].pc = [m.pc EXCEPT ![s] = IF m.lock_db[p] = None THEN "lookup" ELSE "insert"]
      BY <1>1, <1>2, <2>1 DEF PrepareLookup, Memory
    <3>2. mem'[b].file_lock = [m.file_lock EXCEPT ![s] = m.lock_db[p]]
      BY <1>1, <1>2, <2>1 DEF PrepareLookup, Memory
    <3>3. prep'[s][b] = "taken"
      BY <2>1 DEF PrepareLookup, SetPrep, RpcTypeOK
    <3> QED
      BY <1>5, <2>6, <3>1, <3>2, <3>3 DEF StoreHolds, HandlersHold
  <2>2. CASE PrepareNewLock(b, s)
    <3>1. /\ mem'[b].pc = [m.pc EXCEPT ![s] = "insert"]
          /\ mem'[b].file_lock = [m.file_lock EXCEPT ![s] = s]
      <4>1. mem'[b] = [m EXCEPT !.pc[s] = "insert", !.file_lock[s] = s,
                                !.lock_db[PathOf[s]] = IF @ = None THEN s ELSE @]
        BY <1>2, <2>2 DEF PrepareNewLock
      <4> QED
        BY <1>1, <4>1 DEF Memory
    <3>2. prep'[s][b] = "taken"
      BY <2>2 DEF PrepareNewLock, rpcVars, StoreHolds, HandlersHold, Preparing
    <3> QED
      BY <1>5, <2>6, <3>1, <3>2, RpcAssumption DEF StoreHolds, HandlersHold
  <2>3. CASE PrepareInsert(b, s)
    <3>1. /\ mem'[b].pc = [m.pc EXCEPT ![s] = IF OpOf[s] = "store" THEN "open" ELSE "wrlock"]
          /\ mem'[b].file_lock = m.file_lock
      BY ZenonT(60), <1>1, <1>2, <2>3 DEF PrepareInsert, Memory
    <3>2. m.file_lock[s] \in Store /\ prep'[s][b] = "taken"
      BY <1>1, <2>3 DEF PrepareInsert, rpcVars, StoreHolds, HandlersHold, Preparing, Memory
    <3> QED
      BY <1>5, <2>6, <3>1, <3>2 DEF StoreHolds, HandlersHold
  <2>4. ASSUME \/ PrepareOpen(b, s) \/ PrepareOpenFails(b, s)
               \/ PrepareCopy(b, s) \/ PrepareAppend(b, s) \/ PrepareWrLock(b, s)
        PROVE  HandlersHold(b)'
    <3>1. PICK x \in {"copy", "append", "wrlock", "log"} : mem'[b].pc = [m.pc EXCEPT ![s] = x]
      BY ZenonT(60), <1>1, <1>2, <2>4
      DEF PrepareOpen, PrepareOpenFails, PrepareCopy, PrepareAppend, PrepareWrLock, Memory
    <3>2. mem'[b].file_lock = m.file_lock
      BY ZenonT(60), <1>1, <1>2, <2>4
      DEF PrepareOpen, PrepareOpenFails, PrepareCopy, PrepareAppend, PrepareWrLock, Memory
    <3>3. m.file_lock[s] \in Store /\ prep'[s][b] = "taken"
      BY <1>1, <2>4
      DEF PrepareOpen, PrepareOpenFails, PrepareCopy, PrepareAppend, PrepareWrLock, rpcVars,
          StoreHolds, HandlersHold, Preparing, Memory
    <3> QED
      BY <1>5, <2>6, <3>1, <3>2, <3>3 DEF StoreHolds, HandlersHold
  <2>5. CASE PrepareLog(b, s) \/ PrepareLogFails(b, s)
    <3>1. /\ mem'[b].pc = [m.pc EXCEPT ![s] = "none"]
          /\ mem'[b].file_lock = [m.file_lock EXCEPT ![s] = None]
      BY ZenonT(60), <1>1, <1>2, <2>5 DEF PrepareLog, PrepareLogFails, PrepareEnd, Memory
    <3> QED
      BY <1>5, <2>6, <3>1 DEF StoreHolds, HandlersHold
  <2> QED
    BY <1>8, <2>1, <2>2, <2>3, <2>4, <2>5 DEF PrepareStep
<1>9. ASSUME ~PrepareNullLock(b, s)
      PROVE  HalfwayHolds(b)' /\ EntriesHold(b)'
  <2> DEFINE Frame ==
        /\ mem'[b].handlers = m.handlers /\ mem'[b].status = m.status
        /\ mem'[b].lock_db = m.lock_db \/ mem'[b].lock_db = [m.lock_db EXCEPT ![p] = s]
        /\ \/ mem'[b].tx_db = m.tx_db
           \/ /\ m.tx_db[t] = None
              /\ mem'[b].tx_db = [m.tx_db EXCEPT ![t] = s]
              /\ prep[s][b] = "taken"
  <2>1. ASSUME PrepareNewLock(b, s) PROVE Frame
    <3>1. /\ mem'[b].handlers = m.handlers /\ mem'[b].status = m.status /\ mem'[b].tx_db = m.tx_db
          /\ mem'[b].lock_db =
               [m.lock_db EXCEPT ![p] = IF m.lock_db[p] = None THEN s ELSE m.lock_db[p]]
      BY ZenonT(60), <1>1, <1>2, <2>1 DEF PrepareNewLock, Memory
    <3>2. m.lock_db[p] # None => mem'[b].lock_db = m.lock_db
      BY <1>1, <3>1 DEF Memory
    <3> QED
      BY <3>1, <3>2
  <2>2. ASSUME PrepareInsert(b, s) PROVE Frame
    <3>1. prep[s][b] = "taken"
      BY <2>2 DEF PrepareInsert, StoreHolds, HandlersHold, Preparing
    <3>2. /\ mem'[b].handlers = m.handlers /\ mem'[b].status = m.status
          /\ mem'[b].lock_db = m.lock_db
      BY ZenonT(60), <1>1, <1>2, <2>2 DEF PrepareInsert, Memory
    <3>4. mem'[b].tx_db = [m.tx_db EXCEPT ![t] = IF m.tx_db[t] = None THEN s ELSE m.tx_db[t]]
      BY ZenonT(60), <1>1, <1>2, <2>2 DEF PrepareInsert, Memory
    <3>3. m.tx_db[t] # None => mem'[b].tx_db = m.tx_db
      BY <1>1, <3>4 DEF Memory
    <3> QED
      BY <3>1, <3>2, <3>3, <3>4
  <2>3. ASSUME PrepareLookup(b, s) PROVE Frame
    BY <1>1, <1>2, <2>3 DEF PrepareLookup, Memory
  <2>4. ASSUME PrepareOpen(b, s) \/ PrepareOpenFails(b, s) PROVE Frame
    BY ZenonT(60), <1>1, <1>2, <2>4 DEF PrepareOpen, PrepareOpenFails, Memory
  <2>5. ASSUME PrepareCopy(b, s) PROVE Frame
    BY <1>1, <1>2, <2>5 DEF PrepareCopy, Memory
  <2>6. ASSUME PrepareAppend(b, s) PROVE Frame
    BY <1>1, <1>2, <2>6 DEF PrepareAppend, Memory
  <2>7. ASSUME PrepareWrLock(b, s) PROVE Frame
    BY <1>1, <1>2, <2>7 DEF PrepareWrLock, Memory
  <2>8. ASSUME PrepareLog(b, s) \/ PrepareLogFails(b, s) PROVE Frame
    BY ZenonT(60), <1>1, <1>2, <2>8 DEF PrepareLog, PrepareLogFails, PrepareEnd, Memory
  <2>9. Frame
    <3> HIDE DEF Frame
    <3> QED
      BY <1>9, <2>1, <2>2, <2>3, <2>4, <2>5, <2>6, <2>7, <2>8 DEF PrepareStep
  <2>10. HalfwayHolds(b)'
    <3>1. \A u \in Txid, k \in Kind, stage \in Stage :
            At(b, k, u, stage) => /\ mem'[b].tx_db[u] = m.tx_db[u]
                                  /\ m.tx_db[u] \in Store
      <4>1. m.tx_db \in [Txid -> Store \cup {None}]
        BY <1>1 DEF Memory
      <4>2. \A u \in Txid, k \in Kind, stage \in Stage : At(b, k, u, stage) => m.tx_db[u] # None
        BY DEF StoreHolds, HalfwayHolds
      <4> HIDE DEF m
      <4> QED
        BY <1>1, <2>9, <4>1, <4>2
    <3>2. \A q \in Path : m.lock_db[q] # None => mem'[b].lock_db[q] # None
      BY <1>1, <2>9, RpcAssumption DEF Memory
    <3>3. \A e \in Store : PathOf[e] \in Path
      BY BackendAssumption
    <3>4. NoneNew(b) /\ mem'[b].status = m.status
      BY <2>9 DEF NoneNew, At
    <3>5. ASSUME NEW k \in Kind, NEW u \in Txid, NEW z \in Stage, At(b, k, u, z)'
          PROVE  /\ mem'[b].status \notin {"off", "registering"}
                 /\ mem'[b].tx_db[u] # None /\ mem'[b].lock_db[PathOf[mem'[b].tx_db[u]]] # None
      <4>1. At(b, k, u, z)
        BY <3>4, <3>5 DEF NoneNew
      <4>2. m.status \notin {"off", "registering"} /\ m.lock_db[PathOf[m.tx_db[u]]] # None
        BY <4>1 DEF StoreHolds, HalfwayHolds
      <4> HIDE DEF m, p
      <4> QED
        BY <3>1, <3>2, <3>3, <3>4, <4>1, <4>2, RpcAssumption
    <3> QED
      BY <3>5 DEF HalfwayHolds
  <2>11. EntriesHold(b)'
    <3>1. m.tx_db \in [Txid -> Store \cup {None}]
      BY <1>1 DEF Memory
    <3>2. prep[s][b] = "taken" => prep'[s][b] \in Taken
      BY <1>4 DEF Taken
    <3> HIDE DEF m
    <3>3. ASSUME NEW u \in Txid, mem'[b].tx_db[u] # None
          PROVE  TidOf[mem'[b].tx_db[u]] = u /\ prep'[mem'[b].tx_db[u]][b] \in Taken
      <4>1. CASE mem'[b].tx_db[u] = m.tx_db[u]
        <5>1. TidOf[m.tx_db[u]] = u /\ prep[m.tx_db[u]][b] \in Taken
          BY <3>3, <4>1 DEF StoreHolds, EntriesHold, m
        <5>2. m.tx_db[u] \in Store
          BY <3>1, <3>3, <4>1
        <5> QED
          BY <1>4, <4>1, <5>1, <5>2
      <4>2. CASE u = t /\ mem'[b].tx_db[u] = s /\ prep[s][b] = "taken"
        BY <3>2, <4>2
      <4> QED
        BY <1>1, <2>9, <3>1, <4>1, <4>2
    <3> QED
      BY <3>3 DEF EntriesHold
  <2> QED
    BY <2>10, <2>11
<1> QED
  BY <1>6, <1>7, <1>8, <1>9 DEF StoreHolds

(* So do the handlers of Abort and Commit. *)
LEMMA OutcomeHolds ==
  ASSUME RpcTypeOK, mem \in Processes, disk \in Files, NEW b \in Backend, StoreHolds(b),
         NEW t \in Txid, OutcomeStep(b, t)
  PROVE  StoreHolds(b)'
<1> DEFINE m == mem[b]
           e == m.tx_db[t]
           p == PathOf[e]
           Frame ==
             /\ UNCHANGED prep
             /\ mem'[b].pc = m.pc /\ mem'[b].file_lock = m.file_lock
             /\ mem'[b].tx_db = m.tx_db /\ mem'[b].status = m.status
           SameLog == disk'[b].store_log = disk[b].store_log
<1>1. m \in Memory /\ disk[b] \in Disk /\ e \in Store \cup {None} /\ (e # None => p \in Path)
  BY BackendAssumption DEF Processes, Files, Memory
<1>2. \A x : Becomes(b, x) => mem'[b] = x
  BY DEF Becomes, Processes
<1>3. ASSUME Frame
      PROVE  HandlersHold(b)' /\ EntriesHold(b)'
  BY <1>1, <1>3 DEF StoreHolds, HandlersHold, EntriesHold, Memory
<1>4. ASSUME UNCHANGED prep, SameLog
      PROVE  RecordsHold(b)'
  BY <1>4, RecordsKept DEF StoreHolds
<1>5. ASSUME UNCHANGED <<mem, disk, prep>>
      PROVE  StoreHolds(b)'
  BY <1>5, HoldsElsewhere
<1>6. ASSUME NEW k \in Kind, NEW x \in Stage, e # None, m.status \notin {"off", "registering"},
             Frame, SameLog, OneNew(b, k, t, x), mem'[b].lock_db[p] # None,
             \A q \in Path : m.lock_db[q] # None => mem'[b].lock_db[q] # None
      PROVE  StoreHolds(b)'
  <2>1. \A u \in Txid : m.tx_db[u] \in Store \cup {None}
    BY <1>1 DEF Memory
  <2>2. \A r \in Store : PathOf[r] \in Path
    BY BackendAssumption
  <2>3. \A j \in Kind, u \in Txid, z \in Stage :
          At(b, j, u, z)' => m.tx_db[u] # None /\ mem'[b].lock_db[PathOf[m.tx_db[u]]] # None
    BY <1>6, <2>1, <2>2 DEF StoreHolds, HalfwayHolds, OneNew
  <2>4. HalfwayHolds(b)'
    BY <1>6, <2>3 DEF HalfwayHolds
  <2> QED
    BY <1>3, <1>4, <1>6, <2>4 DEF StoreHolds
<1> DEFINE Found == mem'[b].lock_db = [m.lock_db EXCEPT ![p] = LockLookup(b, e)]
<1>10. ASSUME e # None, Found
       PROVE  /\ mem'[b].lock_db[p] # None
              /\ \A q \in Path : m.lock_db[q] # None => mem'[b].lock_db[q] # None
  <2>1. LockLookup(b, e) # None
    BY BackendAssumption, RpcAssumption DEF LockLookup
  <2> QED
    BY <1>1, <1>10, <2>1 DEF Memory
<1>7. CASE AbortBegin(b, t)
  <2>1. CASE e = None
    BY <1>5, <1>7, <2>1 DEF AbortBegin
  <2>2. CASE e # None
    <3>1. Frame
      BY <1>1, <1>2, <1>7, <2>2 DEF AbortBegin, Memory
    <3>2. Found
      BY <1>1, <1>2, <1>7, <2>2 DEF AbortBegin, Memory
    <3>3. mem'[b].handlers = Enters(m.handlers, "abort", t, "log")
      BY <1>1, <1>2, <1>7, <2>2 DEF AbortBegin, Memory
    <3>4. SameLog
      BY <1>1, <1>7, <2>2 DEF AbortBegin, Disk, Files
    <3>5. m.status \notin {"off", "registering"}
      BY <1>7 DEF AbortBegin, Takes
    <3>6. "abort" \in Kind /\ "log" \in Stage
      BY DEF Kind, Stage
    <3>7. OneNew(b, "abort", t, "log")
      BY <3>3, <3>6, HandlersMove
    <3> HIDE DEF Frame, SameLog, Found, m, e, p
    <3> QED
      BY <1>6, <1>10, <2>2, <3>1, <3>2, <3>4, <3>5, <3>6, <3>7
  <2> QED
    BY <2>1, <2>2
<1>8. CASE CommitBegin(b, t)
  <2>1. CASE e # None /\ MayCommit(m.state_t[e])
    <3>1. Frame
      BY <1>1, <1>2, <1>8, <2>1 DEF CommitBegin, Memory
    <3>2. Found
      BY <1>1, <1>2, <1>8, <2>1 DEF CommitBegin, Memory
    <3>3. mem'[b].handlers = Enters(m.handlers, "commit", t, "file")
      BY <1>1, <1>2, <1>8, <2>1 DEF CommitBegin, Memory
    <3>4. SameLog
      BY <1>8 DEF CommitBegin
    <3>5. m.status \notin {"off", "registering"}
      BY <1>8 DEF CommitBegin, Takes
    <3>6. "commit" \in Kind /\ "file" \in Stage
      BY DEF Kind, Stage
    <3>7. OneNew(b, "commit", t, "file")
      BY <3>3, <3>6, HandlersMove
    <3> HIDE DEF Frame, SameLog, Found, m, e, p
    <3> QED
      BY <1>6, <1>10, <2>1, <3>1, <3>2, <3>4, <3>5, <3>6, <3>7
  <2>2. CASE ~(e # None /\ MayCommit(m.state_t[e]))
    <3>1. Becomes(b, [m EXCEPT !.exiting = TRUE]) /\ UNCHANGED <<disk, prep>>
      BY <1>8, <2>2 DEF CommitBegin
    <3>2. Frame /\ SameLog
      BY <1>1, <1>2, <3>1 DEF Memory
    <3>3. mem'[b].handlers = m.handlers /\ mem'[b].lock_db = m.lock_db
      BY <1>1, <1>2, <3>1 DEF Memory
    <3>4. HalfwayHolds(b)'
      BY <3>2, <3>3 DEF StoreHolds, HalfwayHolds, At
    <3> QED
      BY <1>3, <1>4, <3>2, <3>4 DEF StoreHolds
  <2> QED
    BY <2>1, <2>2
<1>11. ASSUME NEW x \in Stage, NEW y \in Stage, At(b, "commit", t, x), Frame, SameLog,
              mem'[b].lock_db = m.lock_db,
              mem'[b].handlers = MovesOn(m.handlers, "commit", t, x, y)
       PROVE  StoreHolds(b)'
  <2>1. "commit" \in Kind
    BY DEF Kind
  <2>2. /\ e # None /\ m.status \notin {"off", "registering"}
        /\ m.lock_db[p] # None
    BY <1>11, <2>1 DEF StoreHolds, HalfwayHolds
  <2>3. OneNew(b, "commit", t, y)
    BY <1>11, <2>1, HandlersMove
  <2> HIDE DEF Frame, SameLog, Found, m, e, p
  <2> QED
    BY <1>6, <1>11, <2>1, <2>2, <2>3
<1>12. CASE CommitFile(b, t)
  <2>1. /\ Frame /\ mem'[b].lock_db = m.lock_db
        /\ mem'[b].handlers = MovesOn(m.handlers, "commit", t, "file", "state")
    BY <1>1, <1>2, <1>12 DEF CommitFile, Memory, rpcVars
  <2>2. SameLog
    <3>1. disk' = [disk EXCEPT ![b] = Applied(disk[b], t, e)]
      BY <1>12 DEF CommitFile
    <3>2. Applied(disk[b], t, e).store_log = disk[b].store_log
      BY <1>1 DEF Applied, Disk
    <3> QED
      BY <3>1, <3>2 DEF Files
  <2>3. At(b, "commit", t, "file") /\ {"file", "state"} \subseteq Stage
    BY <1>12 DEF CommitFile, Stage
  <2> HIDE DEF Frame, SameLog, m
  <2> QED
    BY <1>11, <2>1, <2>2, <2>3
<1>13. CASE CommitState(b, t)
  <2>1. /\ Frame /\ mem'[b].lock_db = m.lock_db
        /\ mem'[b].handlers = MovesOn(m.handlers, "commit", t, "state", "log")
    BY <1>1, <1>2, <1>13 DEF CommitState, Memory, rpcVars
  <2>2. SameLog
    BY <1>13 DEF CommitState
  <2>3. At(b, "commit", t, "state") /\ {"log", "state"} \subseteq Stage
    BY <1>13 DEF CommitState, Stage
  <2> HIDE DEF Frame, SameLog, m
  <2> QED
    BY <1>11, <2>1, <2>2, <2>3
<1>9. CASE \E k \in Kind : LogAndUnlock(b, k, t) \/ LogFailsAndUnlock(b, k, t)
  <2>1. PICK k \in Kind : LogAndUnlock(b, k, t) \/ LogFailsAndUnlock(b, k, t)
    BY <1>9
  <2>2. PICK x : At(b, k, t, "log") /\ UnlockFile(b, k, t, x) /\ UNCHANGED prep
    BY <2>1 DEF LogAndUnlock, LogFailsAndUnlock, rpcVars
  <2>3. e \in Store /\ TidOf[e] = t /\ prep[e][b] \in Taken
    BY <1>1, <2>2 DEF StoreHolds, HalfwayHolds, EntriesHold, Stage
  <2>4. \A u \in Txid : \/ disk'[b].store_log[u] = disk[b].store_log[u]
                        \/ u = t /\ disk'[b].store_log[u].req = e
    <3>1. CASE LogAndUnlock(b, k, t)
      <4>1. disk' = [disk EXCEPT ![b] = Logged(disk[b], t, m.state_t[e], e)]
        BY <3>1 DEF LogAndUnlock
      <4>2. disk'[b].store_log =
              [disk[b].store_log EXCEPT ![t] = [state_t |-> m.state_t[e], req |-> e]]
        BY <1>1, <4>1 DEF Logged, Files, Disk
      <4> QED
        BY <1>1, <4>2 DEF Disk
    <3>2. CASE LogFailsAndUnlock(b, k, t)
      BY <3>2 DEF LogFailsAndUnlock
    <3> QED
      BY <2>1, <3>1, <3>2
  <2>5. RecordsHold(b)'
    BY <2>2, <2>3, <2>4, RecordsKept DEF StoreHolds
  <2>6. CASE ProcessEnd(b)
    BY <2>2, <2>5, <2>6, EndHolds
  <2>7. CASE ~ProcessEnd(b)
    <3> DEFINE l == m.lock_db[p]
    <3>1. Becomes(b, [m EXCEPT !.lock[l] = UnlockOf(@), !.log_lock = x,
                               !.handlers = Leaves(@, k, t, "log"),
                               !.exiting = @ \/ k = "commit"])
      BY <2>2, <2>7 DEF UnlockFile
    <3>2. PICK locks, log_lock_left, over, h :
            /\ mem'[b] = [m EXCEPT !.lock = locks, !.log_lock = log_lock_left,
                                   !.handlers = h, !.exiting = over]
            /\ h = Leaves(m.handlers, k, t, "log")
      BY <1>2, <3>1
    <3>3. /\ Frame /\ mem'[b].handlers = Leaves(m.handlers, k, t, "log")
          /\ mem'[b].lock_db = m.lock_db
      <4> HIDE DEF e, p, l
      <4> QED
        BY <1>1, <2>2, <3>2 DEF Memory
    <3>5. NoneNew(b)
      <4>1. "log" \in Stage
        BY DEF Stage
      <4> QED
        BY <2>2, <3>3, <4>1, HandlersMove
    <3>4. HalfwayHolds(b)'
      <4> HIDE DEF e, p, l
      <4> QED
        BY <3>3, <3>5 DEF StoreHolds, HalfwayHolds, NoneNew
    <3> QED
      BY <1>3, <2>5, <3>3, <3>4 DEF StoreHolds
  <2> QED
    BY <2>6, <2>7
<1> QED
  BY <1>7, <1>8, <1>9, <1>12, <1>13 DEF OutcomeStep

(* And the start, the recovery and the end of a process, and its asking. *)
LEMMA ProcessHolds ==
  ASSUME RpcTypeOK, mem \in Processes, disk \in Files, NEW b \in Backend, StoreHolds(b),
         \/ StoreStart(b) \/ StoreRecover(b) \/ Listen(b) \/ AskReturns(b)
         \/ Exit(b) \/ StoreCrash(b)
         \/ \E t \in Txid : AskAgain(b, t)
  PROVE  StoreHolds(b)'
<1> DEFINE m == mem[b]
<1>1. m \in Memory
  BY DEF Processes
<1>2. \A x : Becomes(b, x) => mem'[b] = x
  BY DEF Becomes, Processes
<1>3. UNCHANGED <<disk, prep>>
  BY DEF StoreStart, StoreRecover, Listen, AskAgain, AskReturns, Exit, StoreCrash, rpcVars
<1>4. RecordsHold(b)'
  BY <1>3, RecordsKept DEF StoreHolds
<1>5. CASE Exit(b) \/ StoreCrash(b)
  BY <1>3, <1>4, <1>5, EndHolds DEF Exit, StoreCrash
<1>6. ASSUME mem'[b].pc = m.pc, mem'[b].file_lock = m.file_lock
      PROVE  HandlersHold(b)'
  BY <1>3, <1>6 DEF StoreHolds, HandlersHold
<1>7. CASE StoreRecover(b)
  <2>1. mem'[b].pc = m.pc /\ mem'[b].file_lock = m.file_lock
    BY ZenonT(60), <1>1, <1>2, <1>7 DEF StoreRecover, Memory
  <2>2. \A k \in Kind, t \in Txid, stage \in Stage : ~At(b, k, t, stage)'
    <3>1. mem'[b].handlers = m.handlers
      BY <1>1, <1>2, <1>7 DEF StoreRecover, Memory
    <3> QED
      BY <1>7, <3>1 DEF StoreRecover, StoreHolds, HalfwayHolds, At
  <2>3. mem'[b].tx_db = [t \in Txid |-> LastRecord(b, t).req]
    BY <1>1, <1>2, <1>7 DEF StoreRecover, Memory
  <2>4. \A t \in Txid : LastRecord(b, t).req # None => LastRecord(b, t).state_t # "none"
    BY DEF LastRecord, Files, Disk, NoRecord, TxState
  <2>5. EntriesHold(b)'
    BY <1>3, <2>3, <2>4 DEF StoreHolds, RecordsHold, EntriesHold
  <2> QED
    BY <1>4, <1>6, <2>1, <2>2, <2>5 DEF StoreHolds, HalfwayHolds
<1>8. CASE StoreStart(b) \/ Listen(b) \/ AskReturns(b) \/ \E t \in Txid : AskAgain(b, t)
  <2>1. mem'[b].pc = m.pc /\ mem'[b].file_lock = m.file_lock
    BY ZenonT(60), <1>1, <1>2, <1>8 DEF StoreStart, Listen, AskReturns, AskAgain, Memory
  <2>2. mem'[b].handlers = m.handlers /\ mem'[b].lock_db = m.lock_db /\ mem'[b].tx_db = m.tx_db
    BY ZenonT(60), <1>1, <1>2, <1>8 DEF StoreStart, Listen, AskReturns, AskAgain, Memory
  <2>3. m.status \in {"off", "registering"} \/ mem'[b].status \notin {"off", "registering"}
    BY ZenonT(60), <1>1, <1>2, <1>8 DEF StoreStart, Listen, AskReturns, AskAgain, Memory
  <2>4. HalfwayHolds(b)' /\ EntriesHold(b)'
    BY <1>3, <2>2, <2>3 DEF StoreHolds, HalfwayHolds, EntriesHold, At
  <2> QED
    BY <1>4, <1>6, <2>1, <2>4 DEF StoreHolds
<1> QED
  BY <1>5, <1>7, <1>8

-----------------------------------------------------------------------------
(***************************************************************************)
(* The whole system.  Beside the types, the invariant says what a store    *)
(* relies on, and that no Prepare call is made before its Store call.      *)
(***************************************************************************)
Started == \A s \in Store, b \in Backend : prep[s][b] # "none" => pc[s] # "idle"

SystemInv == TypeOK /\ BackendTypeOK /\ Started /\ \A b \in Backend : StoreHolds(b)

(* The invariant holds at the start. *)
LEMMA SystemInvInit == Init => SystemInv
<1> SUFFICES ASSUME Init
             PROVE  SystemInv
  OBVIOUS
<1>1. TypeOK
  BY TypeInit DEF Init, ClosedInit
<1>2. NotRunning \in Memory
  BY DEF Memory, NotRunning, Unlocked, TxState
<1>3. BackendTypeOK
  <2>1. disk \in [Backend -> Disk]
    <3>1. <<>> \in Seq(Store \cup {None})
      OBVIOUS
    <3> QED
      BY <3>1 DEF Init, BackendInit, Disk
  <2> QED
    BY <1>2, <2>1 DEF Init, BackendInit, BackendTypeOK
<1>4. Started
  BY DEF Init, RpcInit, Started
<1>5. \A b \in Backend : StoreHolds(b)
  BY DEF Init, BackendInit, NotRunning, NoRecord, LastRecord,
         StoreHolds, HandlersHold, HalfwayHolds, EntriesHold, RecordsHold, At, Kind, Stage
<1> QED
  BY <1>1, <1>3, <1>4, <1>5 DEF SystemInv

(* The coordinator makes Prepare calls for calls that had made none, and   *)
(* counts those that were answered.                                        *)
LEMMA CoordPrep ==
  ASSUME TypeOK, Started, CoordNext
  PROVE  /\ Started'
         /\ \A s \in Store, b \in Backend :
              /\ prep[s][b] = "taken" => prep'[s][b] = "taken"
              /\ prep[s][b] \in Taken => prep'[s][b] \in Taken
<1> USE DEF TypeOK, RpcTypeOK, CoordTypeOK, Started, Taken
<1>1. CASE \E s \in Store : StoreBegin(s)
  BY <1>1 DEF StoreBegin, SendPrepare
<1>2. CASE \E s \in Store, b \in Backend : GetVoteReturn(s, b)
  BY <1>2 DEF GetVoteReturn, SetPrep
<1>3. CASE UNCHANGED prep /\ \A s \in Store : pc[s] # "idle" => pc'[s] # "idle"
  BY <1>3
<1>4. \/ \E s \in Store : StoreBegin(s)
      \/ \E s \in Store, b \in Backend : GetVoteReturn(s, b)
      \/ UNCHANGED prep /\ \A s \in Store : pc[s] # "idle" => pc'[s] # "idle"
  <2>1. ProcessEnds => UNCHANGED prep /\ \A s \in Store : pc[s] # "idle" => pc'[s] # "idle"
    BY DEF ProcessEnds
  <2> QED
    BY <2>1 DEF CoordNext, StoreStep, GetVoteFails, StoreAbort, StoreLog, StoreLogFails,
       StoreAnnounce, JoinPastEnd, RegisterInsert, RegisterCount, CommitVote, CoordCrash, Recover,
       Finish, rpcVars, coordVars
<1> QED
  BY <1>1, <1>2, <1>3, <1>4

(* Every step of a store keeps the types of its memory and its files. *)
LEMMA BackendTypeStep ==
  ASSUME BackendTypeOK, NEW b \in Backend, StoreHolds(b), BackendStep(b)
  PROVE  BackendTypeOK'
<1>1. mem \in Processes /\ disk \in Files
  BY DEF BackendTypeOK, Processes, Files
<1>2. mem' \in Processes /\ disk' \in Files
  <2>1. CASE \E s \in Store : PrepareStep(b, s)
    BY <1>1, <2>1, TypePrepare DEF StoreHolds
  <2>2. CASE \E t \in Txid : OutcomeStep(b, t)
    BY <1>1, <2>2, TypeOutcome
  <2>3. CASE \/ StoreStart(b) \/ StoreRecover(b) \/ Listen(b) \/ AskReturns(b)
             \/ Exit(b) \/ StoreCrash(b) \/ \E t \in Txid : AskAgain(b, t)
    BY <1>1, <2>3, TypeOthers
  <2> QED
    BY <2>1, <2>2, <2>3 DEF BackendStep
<1>3. store_crashes' \in Nat
  <2>1. \A s \in Store : PrepareStep(b, s) => store_crashes' = store_crashes
    BY DEF PrepareStep, PrepareLookup, PrepareNewLock, PrepareInsert, PrepareNullLock,
       PrepareOpen, PrepareOpenFails, PrepareCopy, PrepareAppend, PrepareWrLock, PrepareLog,
       PrepareLogFails, PrepareEnd
  <2>2. \A t \in Txid : OutcomeStep(b, t) => store_crashes' = store_crashes
    BY DEF OutcomeStep, AbortBegin, CommitBegin, CommitFile, CommitState, LogAndUnlock,
       LogFailsAndUnlock
  <2>3. store_crashes' \in {store_crashes, store_crashes + 1}
    BY <2>1, <2>2
    DEF BackendStep, StoreStart, StoreRecover, Listen, AskAgain, AskReturns, Exit, StoreCrash
  <2> QED
    BY <2>3 DEF BackendTypeOK
<1> QED
  BY <1>2, <1>3 DEF BackendTypeOK, Processes, Files

(* The steps of the coordinator keep the invariant. *)
LEMMA SystemInvCoord ==
  ASSUME SystemInv, CoordNext, UNCHANGED backendVars
  PROVE  SystemInv'
<1>1. TypeOK'
  BY TypeCoord DEF SystemInv
<1>2. BackendTypeOK'
  BY DEF SystemInv, BackendTypeOK, backendVars
<1>3. \A b \in Backend : StoreHolds(b)'
  BY CoordPrep, HoldsElsewhere DEF SystemInv, BackendTypeOK, Processes, Files, backendVars
<1> QED
  BY <1>1, <1>2, <1>3, CoordPrep DEF SystemInv

(* So do those of a store. *)
LEMMA SystemInvStore ==
  ASSUME SystemInv, NEW b \in Backend, BackendStep(b), UNCHANGED coordVars
  PROVE  SystemInv'
<1>1. RpcTypeOK /\ mem \in Processes /\ disk \in Files
  BY DEF SystemInv, TypeOK, BackendTypeOK, Processes, Files
<1>2. TypeOK'
  <2>1. CASE EnvNext
    BY <2>1, TypeEnv DEF SystemInv
  <2>2. CASE UNCHANGED rpcVars
    BY <2>2, TypeStutter DEF SystemInv, allVars
  <2> QED
    BY <1>1, <2>1, <2>2, StepConforms DEF SystemInv
<1>3. BackendTypeOK'
  BY BackendTypeStep DEF SystemInv
<1>4. StoreHolds(b)'
  BY <1>1, PrepareHolds, OutcomeHolds, ProcessHolds DEF SystemInv, BackendStep
<1>5. \A c \in Backend \ {b} : StoreHolds(c)'
  BY <1>1, OthersKept, HoldsElsewhere DEF SystemInv, StoreHolds
<1>6. Started'
  <2>1. \A s \in Store, c \in Backend : prep'[s][c] # "none" => prep[s][c] # "none"
    BY <1>1, OthersKept DEF SystemInv, StoreHolds
  <2> QED
    BY <2>1 DEF SystemInv, Started, coordVars
<1> QED
  BY <1>2, <1>3, <1>4, <1>5, <1>6 DEF SystemInv

(* And the calls that fail. *)
LEMMA SystemInvRpc ==
  ASSUME SystemInv, RpcNext, UNCHANGED <<coordVars, backendVars>>
  PROVE  SystemInv'
<1>1. EnvNext
  BY DEF EnvNext
<1>2. TypeOK'
  BY <1>1, TypeEnv DEF SystemInv
<1>3. UNCHANGED prep
  BY DEF RpcNext, LoseReg, LoseAsk, LoseCall
<1>4. \A b \in Backend : StoreHolds(b)'
  BY <1>3, HoldsElsewhere DEF SystemInv, BackendTypeOK, Processes, Files, backendVars
<1> QED
  BY <1>2, <1>3, <1>4 DEF SystemInv, BackendTypeOK, Started, coordVars, backendVars

(* The invariant is inductive. *)
LEMMA SystemInvNext == SystemInv /\ [Next]_vars => SystemInv'
<1> SUFFICES ASSUME SystemInv, [Next]_vars
             PROVE  SystemInv'
  OBVIOUS
<1>1. CASE UNCHANGED vars
  <2>1. TypeOK'
    BY <1>1, TypeStutter DEF SystemInv, vars, allVars
  <2>2. \A b \in Backend : StoreHolds(b)'
    BY <1>1, HoldsElsewhere
    DEF SystemInv, BackendTypeOK, Processes, Files, vars, backendVars, rpcVars
  <2> QED
    BY <1>1, <2>1, <2>2
    DEF SystemInv, BackendTypeOK, Started, vars, coordVars, backendVars, rpcVars
<1> QED
  BY <1>1, SystemInvCoord, SystemInvStore, SystemInvRpc DEF Next, BackendNext

(* All variables of the system keep their types; so do the contents of the *)
(* files, and the lock a running handler works with is one that exists.    *)
THEOREM SystemTypeCorrect == Spec => []SystemTypeOK
<1>1. Init => SystemInv
  BY SystemInvInit
<1>2. SystemInv /\ [Next]_vars => SystemInv'
  BY SystemInvNext
<1>3. SystemInv => SystemTypeOK
  BY DEF SystemInv, SystemTypeOK
<1> QED
  BY <1>1, <1>2, <1>3, PTL DEF Spec

(* Every step of the system is a step of CoordSpec, or a stutter of it. *)
LEMMA SystemStepConforms ==
  SystemInv /\ [Next]_vars => [CoordNext \/ EnvNext]_allVars
<1> SUFFICES ASSUME SystemInv, [Next]_vars
             PROVE  CoordNext \/ EnvNext \/ UNCHANGED allVars
  OBVIOUS
<1>1. CASE UNCHANGED vars
  BY <1>1 DEF vars, allVars
<1>2. CASE BackendNext /\ UNCHANGED coordVars
  <2>1. PICK b \in Backend : BackendStep(b)
    BY <1>2 DEF BackendNext
  <2>2. EnvNext \/ UNCHANGED rpcVars
    BY <1>2, <2>1, StepConforms DEF SystemInv, TypeOK, BackendTypeOK, Processes, Files
  <2> QED
    BY <1>2, <2>2 DEF allVars
<1>3. CASE RpcNext /\ UNCHANGED <<coordVars, backendVars>>
  BY <1>3 DEF EnvNext
<1> QED
  BY <1>1, <1>2, <1>3 DEF Next

(* Whatever the stores do, the coordinator sees nothing that Coordinator   *)
(* does not let its surroundings do: TwoPCStore implements CoordSpec.      *)
THEOREM StoresConformCorrect == Spec => StoresConform
<1>1. Init => SystemInv /\ ClosedInit
  BY SystemInvInit DEF Init, ClosedInit
<1>2. SystemInv /\ [Next]_vars => SystemInv' /\ [CoordNext \/ EnvNext]_allVars
  BY SystemInvNext, SystemStepConforms
<1> QED
  BY <1>1, <1>2, PTL DEF Spec, StoresConform, CoordSpec, allVars

(* In the whole system, too, nobody is told of a commit before it is on record. *)
COROLLARY SystemWriteAhead ==
  ASSUME WriteMayFail = FALSE
  PROVE  Spec => []WriteAhead
BY StoresConformCorrect, WriteAheadCorrect, PTL DEF StoresConform

(* And no commit on record is contradicted by an abort. *)
COROLLARY SystemOneOutcome ==
  ASSUME DistinctTids
  PROVE  Spec => []OneOutcome
BY StoresConformCorrect, OneOutcomeCorrect, PTL DEF StoresConform

-----------------------------------------------------------------------------

(***************************************************************************)
(* The outcome x is right for call s: a commit has its record in the log   *)
(* of the coordinator, an abort is one of a call that is over without one. *)
(***************************************************************************)
Outcome == {"COMMIT", "ABORT"}

Right(x, s) ==
  /\ x = "COMMIT" => TidOf[s] \in log
  /\ x = "ABORT" => Over(s)

(***************************************************************************)
(* What a store knows is right, in memory and on record; and an outcome is *)
(* never forgotten: where there is one on record, or a handler is about to *)
(* put one there, the entry has left the state PREPARE.  A Prepare that    *)
(* sets this state has neither entry nor record before; a handler of       *)
(* Commit is one of a call that is in the log of the coordinator.          *)
(***************************************************************************)
Early == {"lookup", "insert"}
Late == {"open", "copy", "append", "wrlock", "log"}

EntriesRight(b) == \A s \in Store : Right(mem[b].state_t[s], s)

RecordsRight(b) == \A t \in Txid : Right(Recorded(b, t), LastRecord(b, t).req)

HandlersKnown(b) ==
  \A s \in Store :
    /\ mem[b].pc[s] # "none" => mem[b].status = "up"
    /\ mem[b].pc[s] \in Early =>
         mem[b].tx_db[TidOf[s]] = None /\ Recorded(b, TidOf[s]) = "none"
    /\ mem[b].pc[s] \in Late => mem[b].tx_db[TidOf[s]] = s

Settled(b) ==
  \A t \in Txid :
    /\ mem[b].tx_db[t] # None /\ Recorded(b, t) \in Outcome =>
         mem[b].state_t[mem[b].tx_db[t]] # "PREPARE"
    /\ \A k \in Kind : At(b, k, t, "log") => mem[b].state_t[mem[b].tx_db[t]] # "PREPARE"

CommitsRight(b) == \A t \in Txid, stage \in Stage : At(b, "commit", t, stage) => t \in log

StoreKnows(b) ==
  EntriesRight(b) /\ RecordsRight(b) /\ HandlersKnown(b) /\ Settled(b) /\ CommitsRight(b)
-----------------------------------------------------------------------------
(* What is right stays right, whatever the coordinator does. *)

(* The log grows, and a call that is over without a record stays so. *)
LEMMA LogGrows ==
  ASSUME DistinctTids, OutcomeInv, CoordNext \/ UNCHANGED coordVars
  PROVE  /\ log \subseteq log'
         /\ \A s \in Store : Over(s) => Over(s)'
<1>1. ASSUME log' = log, \A s \in Store : pc[s] = "done" => pc'[s] = "done"
      PROVE  log \subseteq log' /\ \A s \in Store : Over(s) => Over(s)'
  BY <1>1 DEF Over
<1>2. CASE \E s \in Store : StoreLog(s)
  <2>1. PICK s \in Store : StoreLog(s)
    BY <1>2
  <2>2. pc[s] = "voting" /\ pc' = [pc EXCEPT ![s] = "logged"] /\ log' = log \cup {TidOf[s]}
    BY <2>1 DEF StoreLog, Joined, tpcLog, getTid
  <2> QED
    BY <2>2 DEF Over, DistinctTids, OutcomeInv, TypeOK, CoordTypeOK
<1>3. CASE \E s \in Store : \/ StoreBegin(s)
                            \/ \E b \in Backend : GetVoteReturn(s, b) \/ GetVoteFails(s, b)
                            \/ StoreAbort(s) \/ StoreLogFails(s) \/ StoreAnnounce(s)
  <2>1. PICK s \in Store : \/ StoreBegin(s)
                           \/ \E b \in Backend : GetVoteReturn(s, b) \/ GetVoteFails(s, b)
                           \/ StoreAbort(s) \/ StoreLogFails(s) \/ StoreAnnounce(s)
    BY <1>3
  <2>2. /\ log' = log
        /\ \/ pc' = pc
           \/ \E x : pc' = [pc EXCEPT ![s] = x] /\ (x = "done" \/ pc[s] # "done")
    BY <2>1 DEF StoreBegin, GetVoteReturn, GetVoteFails, StoreAbort, StoreLogFails, Joined,
       StoreAnnounce, Finish
  <2>3. pc \in [Store -> {"idle", "voting", "logged", "done"}]
    BY DEF OutcomeInv, TypeOK, CoordTypeOK
  <2>4. \A r \in Store : pc[r] = "done" => pc'[r] = "done"
    BY <2>2, <2>3
  <2> QED
    BY <1>1, <2>2, <2>4
<1>4. CASE \/ \E b \in Backend : RegisterInsert(b) \/ RegisterCount(b)
           \/ \E t \in Txid, b \in Backend : CommitVote(t, b)
           \/ Recover
           \/ UNCHANGED coordVars
  <2>1. log' = log /\ pc' = pc
    BY <1>4 DEF RegisterInsert, RegisterCount, CommitVote, Recover, coordVars
  <2> QED
    BY <1>1, <2>1
<1>5. CASE CoordCrash \/ \E s \in Store : JoinPastEnd(s)
  <2>1. ProcessEnds
    BY <1>5 DEF CoordCrash, JoinPastEnd
  <2> QED
    BY <1>1, <2>1 DEF ProcessEnds
<1> QED
  BY <1>2, <1>3, <1>4, <1>5 DEF CoordNext, StoreStep

(* A Commit or Abort call brings the right outcome to a call of its id. *)
LEMMA CallsRight ==
  ASSUME LogInv, OutcomeInv, NEW s \in Store, NEW b \in Backend
  PROVE  /\ calls["commit"][TidOf[s]][b] > 0 => Right("COMMIT", s)
         /\ calls["abort"][TidOf[s]][b] > 0 => Right("ABORT", s)
BY RpcAssumption DEF LogInv, LogFirst, OutcomeInv, AbortsOver, Right

(* Right stays right. *)
LEMMA RightKept ==
  ASSUME log \subseteq log', \A s \in Store : Over(s) => Over(s)',
         NEW x, NEW s \in Store, Right(x, s)
  PROVE  Right(x, s)'
BY DEF Right

(* A store whose process and files are left alone knows what it knew. *)
LEMMA KnowsElsewhere ==
  ASSUME mem \in Processes, disk \in Files, NEW b \in Backend, StoreKnows(b),
         mem'[b] = mem[b], disk'[b] = disk[b],
         log \subseteq log', \A s \in Store : Over(s) => Over(s)'
  PROVE  StoreKnows(b)'
<1>1. EntriesRight(b)'
  BY DEF StoreKnows, EntriesRight, Right
<1>2. \A t \in Txid : Recorded(b, t) # "none" => LastRecord(b, t).req \in Store
  BY DEF Recorded, LastRecord, Files, Disk, NoRecord
<1>3. RecordsRight(b)'
  BY <1>2 DEF StoreKnows, RecordsRight, Recorded, LastRecord, Right
<1>4. HandlersKnown(b)' /\ Settled(b)' /\ CommitsRight(b)'
  BY DEF StoreKnows, HandlersKnown, Settled, CommitsRight, Recorded, LastRecord, At
<1> QED
  BY <1>1, <1>3, <1>4 DEF StoreKnows

-----------------------------------------------------------------------------
(***************************************************************************)
(* The records.  A step of a store leaves its log alone or puts there, for *)
(* a call whose Prepare it took, what is right; and never PREPARE where an *)
(* outcome is on record.                                                   *)
(***************************************************************************)
Adds(b, x, s) ==
  disk'[b].store_log = [disk[b].store_log EXCEPT ![TidOf[s]] = [state_t |-> x, req |-> s]]

Records(b, x, s) ==
  /\ Adds(b, x, s)
  /\ prep[s][b] \in Taken
  /\ x = mem[b].state_t[s] /\ mem[b].tx_db[TidOf[s]] = s
  /\ Recorded(b, TidOf[s]) \in Outcome => x # "PREPARE"

(* Prepare adds a record at its end only, with what the entry says by then. *)
LEMMA PrepareRecords ==
  ASSUME mem \in Processes, disk \in Files, NEW b \in Backend, StoreHolds(b), StoreKnows(b),
         NEW s \in Store, PrepareStep(b, s)
  PROVE  IF PrepareLog(b, s) THEN Records(b, mem[b].state_t[s], s)
         ELSE disk'[b].store_log = disk[b].store_log
<1>1. TidOf[s] \in Txid /\ disk[b] \in Disk
  BY RpcAssumption DEF Files
<1>2. CASE PrepareLog(b, s)
  <2>1. mem[b].pc[s] = "log"
    BY <1>2 DEF PrepareLog, Preparing
  <2>2. mem[b].tx_db[TidOf[s]] = s /\ prep[s][b] \in Taken /\ s # None
    BY <2>1, RpcAssumption DEF StoreKnows, HandlersKnown, Late, StoreHolds, HandlersHold, Taken
  <2>3. Recorded(b, TidOf[s]) \in Outcome => mem[b].state_t[s] # "PREPARE"
    BY <1>1, <2>2 DEF StoreKnows, Settled
  <2>4. disk' = [disk EXCEPT ![b] = Logged(disk[b], TidOf[s], mem[b].state_t[s], s)]
    BY <1>2 DEF PrepareLog
  <2>5. Adds(b, mem[b].state_t[s], s)
    BY <1>1, <2>4 DEF Adds, Logged, Files, Disk
  <2> QED
    BY <1>2, <2>2, <2>3, <2>5 DEF Records
<1>3. CASE ~PrepareLog(b, s)
  <2>1. \A new : Write(b, s, new) => disk'[b].store_log = disk[b].store_log
    BY DEF Write, Files, Disk
  <2>2. PrepareOpen(b, s) => disk'[b].store_log = disk[b].store_log
    BY DEF PrepareOpen, Files, Disk
  <2> QED
    BY <1>3, <2>1, <2>2 DEF PrepareStep, PrepareLookup, PrepareNewLock, PrepareInsert,
       PrepareNullLock, PrepareOpenFails, PrepareCopy, PrepareAppend, PrepareWrLock, PrepareLogFails
<1> QED
  BY <1>2, <1>3

(* The end of a Commit or an Abort records the outcome of its entry. *)
LEMMA HalfwayRecords ==
  ASSUME mem \in Processes, disk \in Files, NEW b \in Backend, StoreHolds(b), StoreKnows(b),
         NEW k \in Kind, NEW t \in Txid, LogAndUnlock(b, k, t)
  PROVE  \E s \in Store : TidOf[s] = t /\ Records(b, mem[b].state_t[s], s)
<1> DEFINE e == mem[b].tx_db[t]
<1>1. At(b, k, t, "log") /\ "log" \in Stage
  BY DEF LogAndUnlock, Stage
<1>2. e \in Store /\ TidOf[e] = t /\ prep[e][b] \in Taken
  BY <1>1 DEF StoreHolds, HalfwayHolds, EntriesHold, Processes, Memory
<1>3. mem[b].state_t[e] # "PREPARE"
  BY <1>1 DEF StoreKnows, Settled
<1>4. disk' = [disk EXCEPT ![b] = Logged(disk[b], t, mem[b].state_t[e], e)]
  BY DEF LogAndUnlock
<1>5. Adds(b, mem[b].state_t[e], e)
  BY <1>2, <1>4 DEF Adds, Logged, Files, Disk
<1> QED
  BY <1>2, <1>3, <1>5 DEF Records

(* Every other step of a store leaves its log alone. *)
LEMMA OtherRecords ==
  ASSUME mem \in Processes, disk \in Files, NEW b \in Backend,
         \/ StoreStart(b) \/ StoreRecover(b) \/ Listen(b) \/ AskReturns(b)
         \/ Exit(b) \/ StoreCrash(b)
         \/ \E t \in Txid : \/ AskAgain(b, t) \/ AbortBegin(b, t) \/ CommitBegin(b, t)
                            \/ CommitFile(b, t) \/ CommitState(b, t)
                            \/ \E k \in Kind : LogFailsAndUnlock(b, k, t)
  PROVE  disk'[b].store_log = disk[b].store_log
<1>1. \A t \in Txid : AbortBegin(b, t) => disk'[b].store_log = disk[b].store_log
  BY ZenonT(60) DEF AbortBegin, Files, Disk
<1>2. \A t \in Txid : CommitFile(b, t) => disk'[b].store_log = disk[b].store_log
  <2> SUFFICES ASSUME NEW t \in Txid, CommitFile(b, t)
               PROVE  disk'[b].store_log = disk[b].store_log
    OBVIOUS
  <2>1. \A e : Applied(disk[b], t, e).store_log = disk[b].store_log
    <3>1. disk[b] \in Disk
      BY DEF Files
    <3> QED
      BY <3>1 DEF Applied, Disk
  <2>2. disk' = [disk EXCEPT ![b] = Applied(disk[b], t, mem[b].tx_db[t])]
    BY DEF CommitFile
  <2> QED
    BY <2>1, <2>2 DEF Files
<1> QED
  BY <1>1, <1>2 DEF StoreStart, StoreRecover, Listen, AskReturns, Exit, StoreCrash, AskAgain,
     CommitBegin, CommitState, LogFailsAndUnlock

(* So every step of a store leaves its records as they are or adds one. *)
LEMMA StepRecords ==
  ASSUME mem \in Processes, disk \in Files, NEW b \in Backend, StoreHolds(b), StoreKnows(b),
         BackendStep(b)
  PROVE  \/ disk'[b].store_log = disk[b].store_log
         \/ \E s \in Store : Records(b, mem[b].state_t[s], s)
<1>1. CASE \E s \in Store : PrepareStep(b, s)
  BY <1>1, PrepareRecords
<1>2. CASE \E k \in Kind, t \in Txid : LogAndUnlock(b, k, t)
  BY <1>2, HalfwayRecords
<1> QED
  BY <1>1, <1>2, OtherRecords DEF BackendStep, OutcomeStep

(* The records stay right. *)
LEMMA RecordsStayRight ==
  ASSUME mem \in Processes, disk \in Files, NEW b \in Backend, StoreHolds(b), StoreKnows(b),
         BackendStep(b), UNCHANGED coordVars
  PROVE  RecordsRight(b)'
<1>1. \A t \in Txid : Right(Recorded(b, t), LastRecord(b, t).req)
  BY DEF StoreKnows, RecordsRight
<1>2. \A x, s : Right(x, s) => Right(x, s)'
  BY DEF Right, Over, coordVars
<1>3. CASE disk'[b].store_log = disk[b].store_log
  BY <1>1, <1>2, <1>3 DEF RecordsRight, Recorded, LastRecord
<1>4. CASE \E s \in Store : Records(b, mem[b].state_t[s], s)
  <2>1. PICK s \in Store : Records(b, mem[b].state_t[s], s)
    BY <1>4
  <2>2. Right(mem[b].state_t[s], s)
    BY DEF StoreKnows, EntriesRight
  <2>3. \A t \in Txid : \/ LastRecord(b, t)' = LastRecord(b, t)
                        \/ LastRecord(b, t)' = [state_t |-> mem[b].state_t[s], req |-> s]
    BY <2>1 DEF Records, Adds, LastRecord, Files, Disk
  <2> QED
    BY <1>1, <1>2, <2>2, <2>3 DEF RecordsRight, Recorded
<1> QED
  BY <1>3, <1>4, StepRecords

-----------------------------------------------------------------------------
(* What a store knows besides its records. *)

KnowsRest(b) == EntriesRight(b) /\ HandlersKnown(b) /\ Settled(b) /\ CommitsRight(b)

(* A step that changes no entry, and records at most what an entry says;   *)
(* it may take a handler of Commit to what comes before its record.        *)
LEMMA EntriesAlone ==
  ASSUME mem \in Processes, NEW b \in Backend, StoreKnows(b), UNCHANGED coordVars,
         mem'[b].tx_db = mem[b].tx_db, mem'[b].state_t = mem[b].state_t,
         \A k \in Kind, t \in Txid, stage \in Stage :
           At(b, k, t, stage)' => \/ At(b, k, t, stage)
                                  \/ k = "commit" /\ t \in log /\ stage # "log",
         \A t \in Txid :
           \/ Recorded(b, t)' = Recorded(b, t)
           \/ mem[b].tx_db[t] # None /\ Recorded(b, t)' = mem[b].state_t[mem[b].tx_db[t]],
         \A s \in Store :
           \/ mem'[b].pc[s] = "none"
           \/ /\ mem'[b].status = "up"
              /\ \/ mem'[b].pc[s] = mem[b].pc[s]
                 \/ mem[b].pc[s] \in Late /\ mem'[b].pc[s] \in Late
                 \/ /\ mem'[b].pc[s] \in Early
                    /\ mem[b].tx_db[TidOf[s]] = None /\ Recorded(b, TidOf[s]) = "none"
  PROVE  KnowsRest(b)'
<1>1. EntriesRight(b)'
  BY DEF StoreKnows, EntriesRight, Right, Over, coordVars
<1>2. \A s \in Store : TidOf[s] \in Txid
  BY RpcAssumption
<1>3. HandlersKnown(b)'
  <2> SUFFICES ASSUME NEW s \in Store
               PROVE  /\ mem'[b].pc[s] # "none" => mem'[b].status = "up"
                      /\ mem'[b].pc[s] \in Early =>
                           mem'[b].tx_db[TidOf[s]] = None /\ Recorded(b, TidOf[s])' = "none"
                      /\ mem'[b].pc[s] \in Late => mem'[b].tx_db[TidOf[s]] = s
    BY DEF HandlersKnown
  <2>1. \A x \in Early : x \notin Late /\ x # "none"
    BY DEF Early, Late
  <2>2. mem'[b].pc[s] \in Early => mem[b].tx_db[TidOf[s]] = None /\ Recorded(b, TidOf[s]) = "none"
    BY <2>1 DEF StoreKnows, HandlersKnown
  <2>3. "none" \notin Late
    BY DEF Late
  <2>4. mem'[b].pc[s] \in Late => mem[b].tx_db[TidOf[s]] = s
    BY <2>1, <2>3 DEF StoreKnows, HandlersKnown
  <2> QED
    BY <1>2, <2>2, <2>4
<1>4. Settled(b)'
  <2>1. "log" \in Stage
    BY DEF Stage
  <2>2. \A k \in Kind, t \in Txid : At(b, k, t, "log")' => At(b, k, t, "log")
    BY <2>1
  <2> QED
    BY <2>2 DEF StoreKnows, Settled, Outcome
<1>5. CommitsRight(b)'
  BY DEF StoreKnows, CommitsRight, Kind, coordVars
<1> QED
  BY <1>1, <1>3, <1>4, <1>5 DEF KnowsRest

(* The process that starts after an end has nothing in memory. *)
LEMMA EndKnows ==
  ASSUME mem \in Processes, NEW b \in Backend, ProcessEnd(b)
  PROVE  KnowsRest(b)'
<1>1. mem'[b] = NotRunning
  BY DEF ProcessEnd, Becomes, Processes
<1> QED
  BY <1>1
  DEF KnowsRest, EntriesRight, HandlersKnown, Settled, CommitsRight, NotRunning, At, Right, Early,
      Late, Kind, Stage

(* Commit and Abort mark the entry, for which the outcome is right. *)
LEMMA OutcomeMarked ==
  ASSUME DistinctTids, mem \in Processes, NEW b \in Backend, StoreHolds(b), StoreKnows(b),
         UNCHANGED coordVars,
         NEW k \in Kind, NEW t \in Txid, NEW e \in Store, NEW x \in Outcome,
         e = mem[b].tx_db[t], Right(x, e),
         mem'[b].tx_db = mem[b].tx_db, mem'[b].pc = mem[b].pc, mem'[b].status = mem[b].status,
         mem'[b].state_t = [mem[b].state_t EXCEPT ![e] = x],
         OneNew(b, k, t, "log"), k = "commit" => t \in log,
         \A u \in Txid : Recorded(b, u)' = Recorded(b, u)
  PROVE  KnowsRest(b)'
<1>1. /\ mem[b].state_t \in [Store -> TxState]
      /\ mem[b].tx_db \in [Txid -> Store \cup {None}]
  BY DEF Processes, Memory
<1>2. x # "PREPARE"
  BY DEF Outcome
<1>3. EntriesRight(b)'
  BY <1>1 DEF StoreKnows, EntriesRight, Right, Over, coordVars
<1>4. HandlersKnown(b)'
  BY RpcAssumption DEF StoreKnows, HandlersKnown
<1>5. Settled(b)'
  <2>1. \A s \in Store : mem[b].state_t[s] # "PREPARE" => mem'[b].state_t[s] # "PREPARE"
    BY <1>1, <1>2
  <2>2. mem'[b].state_t[e] # "PREPARE"
    BY <1>1, <1>2
  <2>3. \A j \in Kind, u \in Txid : At(b, j, u, "log") => mem[b].tx_db[u] \in Store
    BY <1>1 DEF StoreHolds, HalfwayHolds, Stage
  <2>4. \A j \in Kind, u \in Txid : At(b, j, u, "log")' => At(b, j, u, "log") \/ u = t
    BY DEF OneNew, Stage
  <2> QED
    BY <1>1, <2>1, <2>2, <2>3, <2>4 DEF StoreKnows, Settled
<1>6. CommitsRight(b)'
  BY DEF StoreKnows, CommitsRight, OneNew, Kind, coordVars
<1> QED
  BY <1>3, <1>4, <1>5, <1>6 DEF KnowsRest

(* Prepare makes its entry, in the state PREPARE, where there was none. *)
LEMMA EntryMade ==
  ASSUME DistinctTids, mem \in Processes, NEW b \in Backend, StoreHolds(b), StoreKnows(b),
         UNCHANGED coordVars, NEW s \in Store, mem[b].pc[s] = "insert", NEW x \in Late,
         mem'[b].tx_db = [mem[b].tx_db EXCEPT ![TidOf[s]] = s],
         mem'[b].pc = [mem[b].pc EXCEPT ![s] = x], mem'[b].status = mem[b].status,
         mem'[b].state_t = [mem[b].state_t EXCEPT ![s] = "PREPARE"],
         mem'[b].handlers = mem[b].handlers,
         \A u \in Txid : Recorded(b, u)' = Recorded(b, u)
  PROVE  KnowsRest(b)'
<1> DEFINE t == TidOf[s]
<1>1. /\ mem[b].state_t \in [Store -> TxState]
      /\ mem[b].tx_db \in [Txid -> Store \cup {None}]
      /\ DOMAIN mem[b].pc = Store
      /\ t \in Txid
  BY RpcAssumption DEF Processes, Memory
<1>2. mem[b].tx_db[t] = None /\ Recorded(b, t) = "none" /\ mem[b].status = "up"
  BY DEF StoreKnows, HandlersKnown, Early
<1>3. EntriesRight(b)'
  BY <1>1 DEF StoreKnows, EntriesRight, Right, Over, coordVars
<1>4. x \notin Early /\ x # "none"
  BY DEF Early, Late
<1>5. \A r \in Store \ {s} : TidOf[r] # t /\ TidOf[r] \in Txid
  BY RpcAssumption DEF DistinctTids
<1>6. HandlersKnown(b)'
  BY <1>1, <1>2, <1>4, <1>5 DEF StoreKnows, HandlersKnown
<1>7. \A u \in Txid \ {t} : /\ mem'[b].tx_db[u] = mem[b].tx_db[u]
                            /\ mem[b].tx_db[u] # None =>
                                 mem'[b].state_t[mem[b].tx_db[u]] = mem[b].state_t[mem[b].tx_db[u]]
  BY <1>1 DEF StoreHolds, EntriesHold
<1>8. \A k \in Kind, u \in Txid, z \in Stage : At(b, k, u, z)' <=> At(b, k, u, z)
  BY DEF At
<1>9. \A k \in Kind, u \in Txid : At(b, k, u, "log") => mem[b].tx_db[u] # None
  BY DEF StoreHolds, HalfwayHolds, Stage
<1>10. \A k \in Kind, u \in Txid : At(b, k, u, "log")' => At(b, k, u, "log") /\ u # t
  BY <1>2, <1>8, <1>9 DEF Stage
<1>11. Settled(b)'
  BY <1>1, <1>2, <1>7, <1>9, <1>10 DEF StoreKnows, Settled, Outcome
<1>12. CommitsRight(b)'
  BY <1>8 DEF StoreKnows, CommitsRight, Kind, coordVars
<1> QED
  BY <1>3, <1>6, <1>11, <1>12 DEF KnowsRest

(* Recover makes the entries what the records say. *)
LEMMA RecoverKnows ==
  ASSUME mem \in Processes, disk \in Files, NEW b \in Backend, StoreHolds(b), StoreKnows(b),
         UNCHANGED coordVars, StoreRecover(b)
  PROVE  KnowsRest(b)'
<1> DEFINE m == mem[b]
<1>1. /\ m \in Memory
      /\ \A s \in Store : TidOf[s] \in Txid
      /\ UNCHANGED disk
  BY RpcAssumption DEF Processes, StoreRecover
<1>2. \A x : Becomes(b, x) => mem'[b] = x
  BY DEF Becomes, Processes
<1>3. mem'[b].tx_db = [t \in Txid |-> LastRecord(b, t).req]
  BY <1>1, <1>2 DEF StoreRecover, Memory
<1>4. mem'[b].pc = m.pc /\ mem'[b].handlers = m.handlers
  BY ZenonT(60), <1>1, <1>2 DEF StoreRecover, Memory
<1>5. mem'[b].state_t = [s \in Store |-> IF LastRecord(b, TidOf[s]).req = s
                                           THEN LastRecord(b, TidOf[s]).state_t ELSE m.state_t[s]]
  BY <1>1, <1>2 DEF StoreRecover, Memory
<1>6. /\ \A k \in Kind, t \in Txid, z \in Stage : ~At(b, k, t, z)'
      /\ \A s \in Store : m.pc[s] = "none"
  BY <1>4 DEF StoreRecover, StoreHolds, HalfwayHolds, StoreKnows, HandlersKnown, At
<1>7. EntriesRight(b)'
  BY <1>1, <1>5 DEF StoreKnows, EntriesRight, RecordsRight, Recorded, Right, Over, coordVars
<1>8. HandlersKnown(b)'
  BY <1>4, <1>6 DEF HandlersKnown, Early, Late
<1>9. Settled(b)'
  <2>1. \A t \in Txid : LastRecord(b, t).state_t \in Outcome =>
          LastRecord(b, t).req \in Store /\ TidOf[LastRecord(b, t).req] = t
    BY DEF StoreHolds, RecordsHold, LastRecord, Files, Disk, NoRecord, Outcome
  <2>2. \A t \in Txid : Recorded(b, t)' = LastRecord(b, t).state_t
    BY <1>1 DEF Recorded, LastRecord
  <2>3. \A t \in Txid : LastRecord(b, t).state_t \in Outcome =>
          mem'[b].state_t[mem'[b].tx_db[t]] = LastRecord(b, t).state_t
    BY <1>3, <1>5, <2>1
  <2> QED
    BY <1>6, <2>2, <2>3 DEF Settled, Outcome, Stage
<1>10. CommitsRight(b)'
  BY <1>6 DEF CommitsRight, Kind
<1> QED
  BY <1>7, <1>8, <1>9, <1>10 DEF KnowsRest

(* The steps of Prepare. *)
LEMMA PrepareKnows ==
  ASSUME DistinctTids, mem \in Processes, disk \in Files, NEW b \in Backend,
         StoreHolds(b), StoreKnows(b), UNCHANGED coordVars, NEW s \in Store, PrepareStep(b, s)
  PROVE  KnowsRest(b)'
<1> DEFINE m == mem[b]
           t == TidOf[s]
           p == PathOf[s]
           Same == /\ mem'[b].tx_db = m.tx_db /\ mem'[b].state_t = m.state_t
                   /\ mem'[b].handlers = m.handlers /\ mem'[b].status = m.status
           To(x) == mem'[b].pc = [m.pc EXCEPT ![s] = x]
<1>1. /\ m \in Memory /\ t \in Txid /\ p \in Path
      /\ DOMAIN m.pc = Store
  BY RpcAssumption, BackendAssumption DEF Processes, Memory
<1>2. \A x : Becomes(b, x) => mem'[b] = x
  BY DEF Becomes, Processes
<1>3. m.status = "up"
  BY DEF PrepareStep, PrepareLookup, PrepareNewLock, PrepareInsert, PrepareNullLock, PrepareOpen,
     PrepareOpenFails, PrepareCopy, PrepareAppend, PrepareWrLock, PrepareLog, PrepareLogFails,
     Preparing
<1>4. ~PrepareLog(b, s) => \A u \in Txid : Recorded(b, u)' = Recorded(b, u)
  BY PrepareRecords DEF Recorded, LastRecord
<1>5. ASSUME Same, NEW x, To(x), ~PrepareLog(b, s),
             \/ x = "none"
             \/ m.pc[s] \in Late /\ x \in Late
             \/ x \in Early /\ m.tx_db[t] = None /\ Recorded(b, t) = "none"
      PROVE  KnowsRest(b)'
  <2>1. \A r \in Store : mem'[b].pc[r] = IF r = s THEN x ELSE m.pc[r]
    BY <1>1, <1>5
  <2>2. \A k \in Kind, u \in Txid, z \in Stage : At(b, k, u, z)' => At(b, k, u, z)
    BY <1>5 DEF At
  <2> HIDE DEF m
  <2> QED
    BY <1>3, <1>4, <1>5, <2>1, <2>2, EntriesAlone DEF m
<1>6. CASE PrepareLookup(b, s)
  <2>1. Same
    BY ZenonT(60), <1>1, <1>2, <1>6 DEF PrepareLookup, Memory
  <2>2. PICK x \in Early : To(x)
    BY <1>1, <1>2, <1>6 DEF PrepareLookup, Memory, Early
  <2>3. prep[s][b] = "sent"
    BY <1>6 DEF PrepareLookup, Arrives
  <2>4. m.tx_db[t] = None
    <3>1. m.tx_db[t] # None => m.tx_db[t] \in Store /\ TidOf[m.tx_db[t]] = t
      BY <1>1 DEF StoreHolds, EntriesHold, Memory
    <3> QED
      BY <1>1, <2>3, <3>1 DEF StoreHolds, EntriesHold, DistinctTids, Taken
  <2>5. Recorded(b, t) = "none"
    <3>1. Recorded(b, t) # "none" => LastRecord(b, t).req \in Store
      BY <1>1 DEF Recorded, LastRecord, Files, Disk, NoRecord
    <3> QED
      BY <1>1, <2>3, <3>1 DEF StoreHolds, RecordsHold, DistinctTids, Taken, Recorded
  <2>6. ~PrepareLog(b, s)
    BY <1>6 DEF PrepareLookup, PrepareLog, Preparing
  <2> HIDE DEF Same, To, m
  <2> QED
    BY <1>5, <2>1, <2>2, <2>4, <2>5, <2>6
<1>7. CASE PrepareNewLock(b, s)
  <2>1. Same
    BY ZenonT(60), <1>1, <1>2, <1>7 DEF PrepareNewLock, Memory
  <2>2. To("insert")
    BY <1>1, <1>2, <1>7 DEF PrepareNewLock, Memory
  <2>3. m.tx_db[t] = None /\ Recorded(b, t) = "none" /\ ~PrepareLog(b, s)
    BY <1>7 DEF PrepareNewLock, PrepareLog, Preparing, StoreKnows, HandlersKnown, Early
  <2> HIDE DEF Same, To, m
  <2> QED
    BY <1>5, <2>1, <2>2, <2>3 DEF Early
<1>8. CASE PrepareInsert(b, s)
  <2>1. m.pc[s] = "insert" /\ m.tx_db[t] = None /\ ~PrepareLog(b, s)
    BY <1>8 DEF PrepareInsert, PrepareLog, Preparing, StoreKnows, HandlersKnown, Early
  <2>2. PICK x \in Late : To(x)
    BY ZenonT(60), <1>1, <1>2, <1>8 DEF PrepareInsert, Memory, Late
  <2>3. mem'[b].tx_db = [m.tx_db EXCEPT ![t] = s]
    BY ZenonT(60), <1>1, <1>2, <1>8, <2>1 DEF PrepareInsert, Memory
  <2>4. mem'[b].state_t = [m.state_t EXCEPT ![s] = "PREPARE"]
    BY ZenonT(60), <1>1, <1>2, <1>8 DEF PrepareInsert, Memory
  <2>5. mem'[b].handlers = m.handlers /\ mem'[b].status = m.status
    BY ZenonT(60), <1>1, <1>2, <1>8 DEF PrepareInsert, Memory
  <2> QED
    BY <1>4, <2>1, <2>2, <2>3, <2>4, <2>5, EntryMade
<1>9. CASE PrepareNullLock(b, s)
  BY <1>9, EndKnows DEF PrepareNullLock
<1>10. CASE PrepareOpen(b, s) \/ PrepareOpenFails(b, s)
  <2>1. Same
    BY ZenonT(60), <1>1, <1>2, <1>10 DEF PrepareOpen, PrepareOpenFails, Memory
  <2>2. To("copy")
    BY ZenonT(60), <1>1, <1>2, <1>10 DEF PrepareOpen, PrepareOpenFails, Memory
  <2>3. m.pc[s] \in Late /\ ~PrepareLog(b, s)
    BY <1>10 DEF PrepareOpen, PrepareOpenFails, PrepareLog, Preparing, Late
  <2> HIDE DEF Same, To, m
  <2> QED
    BY <1>5, <2>1, <2>2, <2>3 DEF Late
<1>11. CASE PrepareCopy(b, s)
  <2>1. Same
    BY ZenonT(60), <1>1, <1>2, <1>11 DEF PrepareCopy, Memory
  <2>2. To("append")
    BY <1>1, <1>2, <1>11 DEF PrepareCopy, Memory
  <2>3. m.pc[s] \in Late /\ ~PrepareLog(b, s)
    BY <1>11 DEF PrepareCopy, PrepareLog, Preparing, Late
  <2> HIDE DEF Same, To, m
  <2> QED
    BY <1>5, <2>1, <2>2, <2>3 DEF Late
<1>12. CASE PrepareAppend(b, s)
  <2>1. Same
    BY ZenonT(60), <1>1, <1>2, <1>12 DEF PrepareAppend, Memory
  <2>2. To("wrlock")
    BY <1>1, <1>2, <1>12 DEF PrepareAppend, Memory
  <2>3. m.pc[s] \in Late /\ ~PrepareLog(b, s)
    BY <1>12 DEF PrepareAppend, PrepareLog, Preparing, Late
  <2> HIDE DEF Same, To, m
  <2> QED
    BY <1>5, <2>1, <2>2, <2>3 DEF Late
<1>13. CASE PrepareWrLock(b, s)
  <2>1. Same
    BY ZenonT(60), <1>1, <1>2, <1>13 DEF PrepareWrLock, Memory
  <2>2. To("log")
    BY <1>1, <1>2, <1>13 DEF PrepareWrLock, Memory
  <2>3. m.pc[s] \in Late /\ ~PrepareLog(b, s)
    BY <1>13 DEF PrepareWrLock, PrepareLog, Preparing, Late
  <2> HIDE DEF Same, To, m
  <2> QED
    BY <1>5, <2>1, <2>2, <2>3 DEF Late
<1>14. CASE PrepareLog(b, s) \/ PrepareLogFails(b, s)
  <2>1. Same
    BY ZenonT(60), <1>1, <1>2, <1>14 DEF PrepareLog, PrepareLogFails, PrepareEnd, Memory
  <2>2. To("none")
    BY ZenonT(60), <1>1, <1>2, <1>14 DEF PrepareLog, PrepareLogFails, PrepareEnd, Memory
  <2>3. \A r \in Store : mem'[b].pc[r] = "none" \/ mem'[b].pc[r] = m.pc[r]
    BY <1>1, <2>2
  <2>4. \A u \in Txid : \/ Recorded(b, u)' = Recorded(b, u)
                        \/ m.tx_db[u] # None /\ Recorded(b, u)' = m.state_t[m.tx_db[u]]
    <3>1. CASE PrepareLog(b, s)
      <4>1. Records(b, m.state_t[s], s)
        BY <3>1, PrepareRecords
      <4>2. \A u \in Txid : LastRecord(b, u)' = IF u = t THEN [state_t |-> m.state_t[s], req |-> s]
                                                ELSE LastRecord(b, u)
        BY <4>1 DEF Records, Adds, LastRecord, Files, Disk
      <4> QED
        BY <4>1, <4>2, RpcAssumption DEF Records, Recorded
    <3> QED
      BY <1>4, <3>1
  <2>5. \A r \in Store :
          \/ mem'[b].pc[r] = "none"
          \/ mem'[b].status = "up" /\ mem'[b].pc[r] = m.pc[r]
    BY <1>3, <2>1, <2>3
  <2>6. \A k \in Kind, u \in Txid, z \in Stage : At(b, k, u, z)' => At(b, k, u, z)
    BY <2>1 DEF At
  <2> QED
    BY <2>1, <2>4, <2>5, <2>6, EntriesAlone
<1> QED
  BY <1>6, <1>7, <1>8, <1>9, <1>10, <1>11, <1>12, <1>13, <1>14 DEF PrepareStep

(* Those of Commit and Abort, which are told what is right. *)
LEMMA OutcomeKnows ==
  ASSUME DistinctTids, LogInv, OutcomeInv, mem \in Processes, disk \in Files, NEW b \in Backend,
         StoreHolds(b), StoreKnows(b), UNCHANGED coordVars, NEW t \in Txid, OutcomeStep(b, t)
  PROVE  KnowsRest(b)'
<1> DEFINE m == mem[b]
           e == m.tx_db[t]
           Same == /\ mem'[b].tx_db = m.tx_db /\ mem'[b].state_t = m.state_t
                   /\ mem'[b].pc = m.pc /\ mem'[b].status = m.status
           Marks(k, x) ==
             /\ mem'[b].tx_db = m.tx_db /\ mem'[b].pc = m.pc /\ mem'[b].status = m.status
             /\ mem'[b].state_t = [m.state_t EXCEPT ![e] = x]
             /\ OneNew(b, k, t, "log")
<1>1. m \in Memory /\ (e # None => e \in Store /\ TidOf[e] = t /\ PathOf[e] \in Path)
  BY BackendAssumption DEF Processes, Memory, StoreHolds, EntriesHold
<1>2. \A x : Becomes(b, x) => mem'[b] = x
  BY DEF Becomes, Processes
<1>3. \A r \in Store : m.pc[r] = "none" \/ m.status = "up"
  BY DEF StoreKnows, HandlersKnown
<1>4. ASSUME Same, NoneNew(b) \/ \E z \in {"file", "state"} : OneNew(b, "commit", t, z) /\ t \in log,
             \A u \in Txid : \/ Recorded(b, u)' = Recorded(b, u)
                             \/ m.tx_db[u] # None /\ Recorded(b, u)' = m.state_t[m.tx_db[u]]
      PROVE  KnowsRest(b)'
  <2>1. \A k \in Kind, u \in Txid, z \in Stage :
          At(b, k, u, z)' => At(b, k, u, z) \/ (k = "commit" /\ u \in log /\ z # "log")
    BY <1>4 DEF NoneNew, OneNew
  <2> QED
    BY <1>3, <1>4, <2>1, EntriesAlone
<1>5. CASE AbortBegin(b, t)
  <2>1. \A u \in Txid : Recorded(b, u)' = Recorded(b, u)
    BY <1>5, OtherRecords DEF Recorded, LastRecord
  <2>2. CASE e = None
    BY <1>4, <1>5, <2>1, <2>2 DEF AbortBegin, NoneNew, At
  <2>3. CASE e # None
    <3>1. Right("ABORT", e)
      BY <1>1, <1>5, <2>3, CallsRight DEF AbortBegin, Takes, TakeCall
    <3>2. "abort" \in Kind /\ "log" \in Stage /\ "abort" # "commit" /\ "ABORT" \in Outcome
      BY DEF Kind, Stage, Outcome
    <3>3. mem'[b].handlers = Enters(m.handlers, "abort", t, "log")
      BY <1>1, <1>2, <1>5, <2>3 DEF AbortBegin, Memory
    <3>4. OneNew(b, "abort", t, "log")
      BY <3>2, <3>3, HandlersMove
    <3>5. Marks("abort", "ABORT")
      BY <1>1, <1>2, <1>5, <2>3, <3>4 DEF AbortBegin, Memory
    <3> QED
      BY <1>1, <2>1, <2>3, <3>1, <3>2, <3>5, OutcomeMarked
  <2> QED
    BY <2>2, <2>3
<1>6. CASE CommitBegin(b, t)
  <2>1. \A u \in Txid : Recorded(b, u)' = Recorded(b, u)
    BY <1>6, OtherRecords DEF Recorded, LastRecord
  <2>2. CASE ~(e # None /\ MayCommit(m.state_t[e]))
    <3>1. Becomes(b, [m EXCEPT !.exiting = TRUE])
      BY <1>6, <2>2 DEF CommitBegin
    <3>2. Same /\ mem'[b].handlers = m.handlers
      BY <1>1, <1>2, <3>1 DEF Memory
    <3>3. NoneNew(b)
      BY <3>2 DEF NoneNew, At
    <3> QED
      BY <1>4, <2>1, <3>2, <3>3
  <2>3. CASE e # None /\ MayCommit(m.state_t[e])
    <3>1. Right("COMMIT", e)
      BY <1>1, <1>6, <2>3, CallsRight DEF CommitBegin, Takes, TakeCall
    <3>2. t \in log
      BY <1>1, <2>3, <3>1 DEF Right
    <3>3. mem'[b].handlers = Enters(m.handlers, "commit", t, "file")
      BY <1>1, <1>2, <1>6, <2>3 DEF CommitBegin, Memory
    <3>4. "commit" \in Kind /\ "file" \in Stage
      BY DEF Kind, Stage
    <3>5. OneNew(b, "commit", t, "file")
      BY <3>3, <3>4, HandlersMove
    <3>6. Same
      BY ZenonT(60), <1>1, <1>2, <1>6, <2>3 DEF CommitBegin, Memory
    <3> QED
      BY <1>4, <2>1, <3>2, <3>5, <3>6
  <2> QED
    BY <2>2, <2>3
<1>8. CASE CommitFile(b, t)
  <2>1. \A u \in Txid : Recorded(b, u)' = Recorded(b, u)
    BY <1>8, OtherRecords DEF Recorded, LastRecord
  <2>2. At(b, "commit", t, "file") /\ "commit" \in Kind /\ {"file", "state"} \subseteq Stage
    BY <1>8 DEF CommitFile, Kind, Stage
  <2>3. t \in log
    BY <2>2 DEF StoreKnows, CommitsRight
  <2>4. Same /\ mem'[b].handlers = MovesOn(m.handlers, "commit", t, "file", "state")
    BY <1>1, <1>2, <1>8 DEF CommitFile, Memory
  <2>5. OneNew(b, "commit", t, "state")
    BY <2>2, <2>4, HandlersMove
  <2> QED
    BY <1>4, <2>1, <2>3, <2>4, <2>5
<1>9. CASE CommitState(b, t)
  <2>1. \A u \in Txid : Recorded(b, u)' = Recorded(b, u)
    BY <1>9, OtherRecords DEF Recorded, LastRecord
  <2>2. /\ At(b, "commit", t, "state") /\ "commit" \in Kind /\ {"state", "log"} \subseteq Stage
        /\ "COMMIT" \in Outcome
    BY <1>9 DEF CommitState, Kind, Stage, Outcome
  <2>3. t \in log /\ e # None
    BY <2>2 DEF StoreKnows, CommitsRight, StoreHolds, HalfwayHolds
  <2>4. mem'[b].handlers = MovesOn(m.handlers, "commit", t, "state", "log")
    BY <1>1, <1>2, <1>9 DEF CommitState, Memory
  <2>5. OneNew(b, "commit", t, "log")
    BY <2>2, <2>4, HandlersMove
  <2>6. Marks("commit", "COMMIT")
    BY ZenonT(60), <1>1, <1>2, <1>9, <2>3, <2>5 DEF CommitState, Memory
  <2>7. Right("COMMIT", e)
    BY <1>1, <2>3 DEF Right
  <2> QED
    BY <1>1, <2>1, <2>2, <2>3, <2>6, <2>7, OutcomeMarked
<1>7. CASE \E k \in Kind : LogAndUnlock(b, k, t) \/ LogFailsAndUnlock(b, k, t)
  <2>1. PICK k \in Kind : LogAndUnlock(b, k, t) \/ LogFailsAndUnlock(b, k, t)
    BY <1>7
  <2>2. PICK x : UnlockFile(b, k, t, x)
    BY <2>1 DEF LogAndUnlock, LogFailsAndUnlock
  <2>3. CASE ProcessEnd(b)
    BY <2>3, EndKnows
  <2>4. CASE ~ProcessEnd(b)
    <3>1. Same /\ mem'[b].handlers = Leaves(m.handlers, k, t, "log")
      <4>1. PICK locks, over, h :
              /\ mem'[b] = [m EXCEPT !.lock = locks, !.log_lock = x, !.handlers = h,
                                     !.exiting = over]
              /\ h = Leaves(m.handlers, k, t, "log")
        BY <1>2, <2>2, <2>4 DEF UnlockFile
      <4> HIDE DEF e
      <4> QED
        BY <1>1, <4>1 DEF Memory
    <3>3. NoneNew(b)
      <4>1. At(b, k, t, "log") /\ "log" \in Stage
        BY <2>1 DEF LogAndUnlock, LogFailsAndUnlock, Stage
      <4> QED
        BY <3>1, <4>1, HandlersMove
    <3>2. \A u \in Txid : \/ Recorded(b, u)' = Recorded(b, u)
                          \/ m.tx_db[u] # None /\ Recorded(b, u)' = m.state_t[m.tx_db[u]]
      <4>1. CASE LogAndUnlock(b, k, t)
        <5>1. PICK s \in Store : TidOf[s] = t /\ Records(b, m.state_t[s], s)
          BY <4>1, HalfwayRecords
        <5>2. \A u \in Txid :
                LastRecord(b, u)' = IF u = t THEN [state_t |-> m.state_t[s], req |-> s]
                                  ELSE LastRecord(b, u)
          BY <5>1 DEF Records, Adds, LastRecord, Files, Disk
        <5> QED
          BY <5>1, <5>2, RpcAssumption DEF Records, Recorded
      <4>2. CASE LogFailsAndUnlock(b, k, t)
        BY <4>2, OtherRecords DEF Recorded, LastRecord
      <4> QED
        BY <2>1, <4>1, <4>2
    <3> QED
      BY <1>4, <3>1, <3>2, <3>3
  <2> QED
    BY <2>3, <2>4
<1> QED
  BY <1>5, <1>6, <1>7, <1>8, <1>9 DEF OutcomeStep

(* The start, the recovery and the end of a process, and its asking. *)
LEMMA ProcessKnows ==
  ASSUME mem \in Processes, disk \in Files, NEW b \in Backend, StoreHolds(b), StoreKnows(b),
         UNCHANGED coordVars,
         \/ StoreStart(b) \/ StoreRecover(b) \/ Listen(b) \/ AskReturns(b)
         \/ Exit(b) \/ StoreCrash(b)
         \/ \E t \in Txid : AskAgain(b, t)
  PROVE  KnowsRest(b)'
<1> DEFINE m == mem[b]
<1>1. m \in Memory
  BY DEF Processes
<1>2. \A x : Becomes(b, x) => mem'[b] = x
  BY DEF Becomes, Processes
<1>3. CASE StoreStart(b) \/ Listen(b) \/ AskReturns(b) \/ \E t \in Txid : AskAgain(b, t)
  <2>1. /\ mem'[b].tx_db = m.tx_db /\ mem'[b].state_t = m.state_t
        /\ mem'[b].pc = m.pc /\ mem'[b].handlers = m.handlers
    BY ZenonT(60), <1>1, <1>2, <1>3 DEF StoreStart, Listen, AskReturns, AskAgain, Memory
  <2>2. m.status = "up" => mem'[b].status = "up"
    BY ZenonT(60), <1>1, <1>2, <1>3 DEF StoreStart, Listen, AskReturns, AskAgain, Memory
  <2>3. \A s \in Store : m.pc[s] = "none" \/ m.status = "up"
    BY DEF StoreKnows, HandlersKnown
  <2>4. \A t \in Txid : Recorded(b, t)' = Recorded(b, t)
    BY <1>3, OtherRecords DEF Recorded, LastRecord
  <2>5. \A k \in Kind, u \in Txid, z \in Stage : At(b, k, u, z)' => At(b, k, u, z)
    BY <2>1 DEF At
  <2> QED
    BY <2>1, <2>2, <2>3, <2>4, <2>5, EntriesAlone
<1> QED
  BY <1>3, RecoverKnows, EndKnows DEF Exit, StoreCrash

-----------------------------------------------------------------------------
(***************************************************************************)
(* The whole system: what the stores know is right, and nobody forgets.    *)
(***************************************************************************)
AgreeInv == SystemInv /\ LogInv /\ OutcomeInv /\ \A b \in Backend : StoreKnows(b)

(* In the beginning nobody knows anything. *)
LEMMA AgreeInvInit == Init => AgreeInv
<1> SUFFICES ASSUME Init
             PROVE  AgreeInv
  OBVIOUS
<1>1. SystemInv /\ LogInv /\ OutcomeInv
  BY SystemInvInit, LogInvInit, OutcomeInvInit DEF Init, ClosedInit
<1>2. \A b \in Backend : StoreKnows(b)
  BY DEF Init, BackendInit, NotRunning, NoRecord, LastRecord, Recorded, StoreKnows, EntriesRight,
         RecordsRight, HandlersKnown, Settled, CommitsRight, At, Right, Early, Late, Outcome,
         Kind, Stage
<1> QED
  BY <1>1, <1>2 DEF AgreeInv

(* The coordinator's invariants are those of CoordSpec, which the system implements. *)
LEMMA CoordInvNext ==
  ASSUME DistinctTids, WriteMayFail = FALSE, SystemInv, LogInv, OutcomeInv, [Next]_vars
  PROVE  LogInv' /\ OutcomeInv'
<1>1. [CoordNext \/ EnvNext]_allVars
  BY SystemStepConforms
<1>2. CASE UNCHANGED allVars
  BY <1>2, TypeStutter
  DEF LogInv, LogFirst, OutcomeInv, OwnPointers, LogOwned, AbortsOver, Pointers, AsksKnown, Over,
      Running, allVars, coordVars, rpcVars
<1> QED
  BY <1>1, <1>2, LogInvCoord, LogInvEnv, OutcomeInvCoord, OutcomeInvEnv

(* A step of a store keeps what all of them know. *)
LEMMA KnowsStore ==
  ASSUME DistinctTids, AgreeInv, NEW b \in Backend, BackendStep(b), UNCHANGED coordVars
  PROVE  \A c \in Backend : StoreKnows(c)'
<1>1. /\ RpcTypeOK /\ mem \in Processes /\ disk \in Files
      /\ \A c \in Backend : StoreHolds(c) /\ StoreKnows(c)
  BY DEF AgreeInv, SystemInv, TypeOK, BackendTypeOK, Processes, Files
<1>2. KnowsRest(b)'
  BY <1>1, PrepareKnows, OutcomeKnows, ProcessKnows DEF AgreeInv, BackendStep
<1>3. StoreKnows(b)'
  BY <1>1, <1>2, RecordsStayRight DEF KnowsRest, StoreKnows
<1>4. log \subseteq log' /\ \A s \in Store : Over(s) => Over(s)'
  BY LogGrows DEF AgreeInv
<1>5. \A c \in Backend \ {b} : mem'[c] = mem[c] /\ disk'[c] = disk[c]
  BY <1>1, OthersKept DEF StoreHolds
<1>6. \A c \in Backend \ {b} : StoreKnows(c)'
  BY <1>1, <1>4, <1>5, KnowsElsewhere
<1> QED
  BY <1>3, <1>6

(* Every step of the system keeps the invariant, those of the coordinator  *)
(* because what is over stays over and what is logged stays logged.        *)
LEMMA AgreeInvNext ==
  ASSUME DistinctTids, WriteMayFail = FALSE, AgreeInv, [Next]_vars
  PROVE  AgreeInv'
<1>1. SystemInv' /\ LogInv' /\ OutcomeInv'
  BY SystemInvNext, CoordInvNext DEF AgreeInv
<1>2. CASE UNCHANGED backendVars /\ (CoordNext \/ UNCHANGED coordVars)
  <2>1. log \subseteq log' /\ \A s \in Store : Over(s) => Over(s)'
    BY <1>2, LogGrows DEF AgreeInv
  <2>2. mem \in Processes /\ disk \in Files
    BY DEF AgreeInv, SystemInv, BackendTypeOK, Processes, Files
  <2>3. \A b \in Backend : StoreKnows(b)'
    BY <1>2, <2>1, <2>2, KnowsElsewhere DEF AgreeInv, backendVars
  <2> QED
    BY <1>1, <2>3 DEF AgreeInv
<1>3. CASE BackendNext /\ UNCHANGED coordVars
  BY <1>1, <1>3, KnowsStore DEF AgreeInv, BackendNext
<1> QED
  BY <1>2, <1>3 DEF Next, vars

(* A right outcome is the one that the coordinator decided. *)
LEMMA AgreeInvImplies ==
  ASSUME DistinctTids, AgreeInv
  PROVE  Agreement
<1> SUFFICES ASSUME NEW t \in Txid, NEW b \in Backend
             PROVE  /\ Recorded(b, t) = "COMMIT" => t \in log
                    /\ t \in log => Recorded(b, t) # "ABORT"
  BY DEF Agreement
<1>1. Recorded(b, t) \in Outcome => /\ LastRecord(b, t).req \in Store
                                    /\ TidOf[LastRecord(b, t).req] = t
  BY DEF AgreeInv, SystemInv, BackendTypeOK, StoreHolds, RecordsHold, Recorded, LastRecord, Disk,
         NoRecord, Outcome
<1>2. Right(Recorded(b, t), LastRecord(b, t).req)
  BY DEF AgreeInv, StoreKnows, RecordsRight
<1> QED
  BY <1>1, <1>2 DEF Right, Over, Outcome

(* With distinct ids, and a log of the coordinator that can be written, no *)
(* two stores ever record different outcomes of a call, nor does one that  *)
(* the coordinator did not decide, for any stores, calls, paths, threads,  *)
(* crashes, late and lost calls, and failed writes of the stores.          *)
THEOREM AgreementCorrect ==
  ASSUME DistinctTids, WriteMayFail = FALSE
  PROVE  Spec => []Agreement
<1>1. Init => AgreeInv
  BY AgreeInvInit
<1>2. AgreeInv /\ [Next]_vars => AgreeInv'
  BY AgreeInvNext
<1>3. AgreeInv => Agreement
  BY AgreeInvImplies
<1> QED
  BY <1>1, <1>2, <1>3, PTL DEF Spec

-----------------------------------------------------------------------------
(* A later record of the same call says the same: both are right. *)
LEMMA OutcomeKept ==
  ASSUME DistinctTids, AgreeInv, Agreement, Agreement', [Next]_vars,
         NEW b \in Backend, NEW t \in Txid, Recorded(b, t) \in Outcome
  PROVE  Recorded(b, t)' = Recorded(b, t)
<1>1. /\ RpcTypeOK /\ mem \in Processes /\ disk \in Files
      /\ \A c \in Backend : StoreHolds(c) /\ StoreKnows(c)
  BY DEF AgreeInv, SystemInv, TypeOK, BackendTypeOK, Processes, Files
<1>2. CASE disk'[b] = disk[b]
  BY <1>2 DEF Recorded, LastRecord
<1>3. CASE BackendStep(b) /\ UNCHANGED coordVars
  <2>1. CASE disk'[b].store_log = disk[b].store_log
    BY <2>1 DEF Recorded, LastRecord
  <2>2. CASE \E s \in Store : Records(b, mem[b].state_t[s], s)
    <3>1. PICK s \in Store : Records(b, mem[b].state_t[s], s)
      BY <2>2
    <3>2. CASE TidOf[s] = t
      <4>1. Recorded(b, t)' = mem[b].state_t[s]
        BY <1>1, <3>1, <3>2 DEF Records, Adds, Recorded, LastRecord, Files, Disk
      <4>2. mem[b].state_t[s] \in Outcome
        BY <1>1, <3>1, <3>2 DEF Records, Processes, Memory, TxState, Outcome
      <4>3. Right(mem[b].state_t[s], s)
        BY <1>1 DEF StoreKnows, EntriesRight
      <4> QED
        BY <3>2, <4>1, <4>2, <4>3 DEF Right, Over, Agreement, Outcome
    <3>3. CASE TidOf[s] # t
      BY <1>1, <3>1, <3>3 DEF Records, Adds, Recorded, LastRecord, Files, Disk
    <3> QED
      BY <3>2, <3>3
  <2> QED
    BY <1>1, <1>3, <2>1, <2>2, StepRecords
<1>4. disk'[b] = disk[b] \/ (BackendStep(b) /\ UNCHANGED coordVars)
  <2>1. \A c \in Backend \ {b} : BackendStep(c) => disk'[b] = disk[b]
    BY <1>1, OthersKept DEF StoreHolds
  <2> QED
    BY <2>1 DEF Next, BackendNext, vars, backendVars
<1> QED
  BY <1>2, <1>3, <1>4

(* A store that has recorded an outcome never records another one, nor     *)
(* does it fall back to a Prepare record: repeated and late outcomes,      *)
(* recoveries and an Abort that meets its Prepare leave the last record.   *)
THEOREM OutcomeStableCorrect ==
  ASSUME DistinctTids, WriteMayFail = FALSE
  PROVE  Spec => OutcomeStable
<1> DEFINE Stable == \A b \in Backend, t \in Txid :
             Decided(LastRecord(b, t)) => LastRecord(b, t)'.state_t = LastRecord(b, t).state_t
<1>1. Init => AgreeInv
  BY AgreeInvInit
<1>2. AgreeInv /\ [Next]_vars => AgreeInv'
  BY AgreeInvNext
<1>3. AgreeInv => Agreement
  BY AgreeInvImplies
<1>4. AgreeInv /\ Agreement /\ Agreement' /\ [Next]_vars => [Stable]_disk
  <2> SUFFICES ASSUME AgreeInv, Agreement, Agreement', [Next]_vars
               PROVE  Stable
    OBVIOUS
  <2>1. \A b \in Backend, t \in Txid :
          Recorded(b, t) \in Outcome => Recorded(b, t)' = Recorded(b, t)
    BY OutcomeKept
  <2> QED
    BY <2>1 DEF Decided, Recorded, Outcome
<1> QED
  BY <1>1, <1>2, <1>3, <1>4, PTL DEF Spec, OutcomeStable

-----------------------------------------------------------------------------
(***************************************************************************)
(* The whole system implements AtomicCommit.tla: every step of the         *)
(* coordinator and of the stores is, for what the transactions come to, a  *)
(* step of the abstract protocol or none.                                  *)
(***************************************************************************)

(***************************************************************************)
(* The decisions, spelled out for given values of log and pc.  With ids    *)
(* that differ from call to call, they follow the one call of an id.       *)
(***************************************************************************)
DecisionIn(l, p, t) ==
  CASE t \in l -> "COMMIT"
    [] t \notin l /\ \E s \in Store : TidOf[s] = t /\ p[s] = "done" -> "ABORT"
    [] t \notin l /\ \E s \in Store : TidOf[s] = t /\ p[s] = "voting" -> "open"
    [] OTHER -> "none"

(* The decision on the id of a call depends on the handler of that call. *)
LEMMA DecisionFrom ==
  ASSUME DistinctTids, NEW l, NEW p, NEW s \in Store
  PROVE  DecisionIn(l, p, TidOf[s]) =
           IF TidOf[s] \in l THEN "COMMIT"
           ELSE IF p[s] = "done" THEN "ABORT"
           ELSE IF p[s] = "voting" THEN "open" ELSE "none"
BY DEF DecisionIn, DistinctTids

-----------------------------------------------------------------------------
(***************************************************************************)
(* The abstract state.                                                     *)
(***************************************************************************)
DecisionMap == [t \in Txid |-> DecisionOf(t)]
StateMap == [b \in Backend |-> [t \in Txid |-> Recorded(b, t)]]
CountedFor(t) == {b \in Backend : \E s \in Store : TidOf[s] = t /\ prep[s][b] = "counted"}
VotesMap == [t \in Txid |-> CountedFor(t)]

(* A step of the abstract protocol, said of these maps. *)
LEMMA Abstractly ==
  ASSUME \/ UNCHANGED <<DecisionMap, StateMap, VotesMap>>
         \/ \E t \in Txid :
              /\ DecisionMap[t] = "none"
              /\ DecisionMap' = [DecisionMap EXCEPT ![t] = "open"]
              /\ UNCHANGED <<StateMap, VotesMap>>
         \/ \E t \in Txid :
              /\ DecisionMap[t] = "open"
              /\ \A b \in VotesMap[t] : StateMap[b][t] = "PREPARE"
              /\ DecisionMap' = [DecisionMap EXCEPT ![t] = "COMMIT"]
              /\ UNCHANGED <<StateMap, VotesMap>>
         \/ \E T \in SUBSET Txid :
              /\ \A t \in T : DecisionMap[t] = "open"
              /\ DecisionMap' = [t \in Txid |-> IF t \in T THEN "ABORT" ELSE DecisionMap[t]]
              /\ UNCHANGED <<StateMap, VotesMap>>
         \/ \E b \in Backend, t \in Txid :
              /\ DecisionMap[t] = "open"
              /\ StateMap[b][t] = "PREPARE"
              /\ VotesMap' = [VotesMap EXCEPT ![t] = VotesMap[t] \cup {b}]
              /\ UNCHANGED <<DecisionMap, StateMap>>
         \/ \E b \in Backend, t \in Txid :
              /\ DecisionMap[t] # "none"
              /\ StateMap[b][t] = "none"
              /\ StateMap' = [StateMap EXCEPT ![b][t] = "PREPARE"]
              /\ UNCHANGED <<DecisionMap, VotesMap>>
         \/ \E b \in Backend, t \in Txid :
              /\ DecisionMap[t] \in {"COMMIT", "ABORT"}
              /\ StateMap[b][t] \in {"none", "PREPARE"}
              /\ StateMap' = [StateMap EXCEPT ![b][t] = DecisionMap[t]]
              /\ UNCHANGED <<DecisionMap, VotesMap>>
  PROVE  [AC!Next]_(AC!vars)
<1> USE DEF DecisionMap, StateMap, VotesMap, CountedFor
<1> QED
  BY DEF AC!Next, AC!vars, AC!Begin, AC!Commit, AC!Abort, AC!Vote, AC!Prepare, AC!CarryOut

-----------------------------------------------------------------------------
(***************************************************************************)
(* The invariant: what the proofs before have, and that a Prepare call was *)
(* answered with "ok" only after its record was written.                   *)
(***************************************************************************)
Answered == {"ok", "counted"}

Voted(b) == \A s \in Store : prep[s][b] \in Answered => Recorded(b, TidOf[s]) # "none"

RefineInv == AgreeInv /\ VoteInv /\ \A b \in Backend : Voted(b)

(* A call that votes are counted for is undecided, and a store that voted  *)
(* for it has its PREPARE record.                                          *)
LEMMA VotingCall ==
  ASSUME DistinctTids, RefineInv, NEW s \in Store, pc[s] = "voting"
  PROVE  /\ TidOf[s] \notin log
         /\ \A b \in Backend : prep[s][b] \in Answered => Recorded(b, TidOf[s]) = "PREPARE"
<1>1. TidOf[s] \notin log
  BY DEF RefineInv, AgreeInv, OutcomeInv, LogOwned, DistinctTids
<1> SUFFICES ASSUME NEW b \in Backend, prep[s][b] \in Answered
             PROVE  Recorded(b, TidOf[s]) = "PREPARE"
  BY <1>1
<1> DEFINE t == TidOf[s]
           r == LastRecord(b, t)
<1>2. t \in Txid /\ r.state_t # "none"
  BY RpcAssumption DEF RefineInv, Voted, Recorded
<1>3. r.state_t \in TxState /\ r.req \in Store
  BY <1>2 DEF RefineInv, AgreeInv, SystemInv, BackendTypeOK, Disk, LastRecord, NoRecord
<1>4. TidOf[r.req] = t
  BY <1>2 DEF RefineInv, AgreeInv, SystemInv, StoreHolds, RecordsHold
<1>5. Right(r.state_t, s)
  BY <1>2, <1>3, <1>4 DEF RefineInv, AgreeInv, StoreKnows, RecordsRight, Recorded, DistinctTids
<1> QED
  BY <1>1, <1>3, <1>5 DEF Right, Over, TxState, Recorded

(* The handler that a vote or a decision belongs to. *)
LEMMA HandlerDecision ==
  ASSUME DistinctTids, RefineInv, NEW s \in Store
  PROVE  /\ TidOf[s] \in Txid
         /\ pc[s] = "idle" => DecisionMap[TidOf[s]] = "none"
         /\ pc[s] = "voting" => DecisionMap[TidOf[s]] = "open"
         /\ pc[s] = "logged" => DecisionMap[TidOf[s]] = "COMMIT"
         /\ Over(s) => DecisionMap[TidOf[s]] = "ABORT"
         /\ TidOf[s] \in log => DecisionMap[TidOf[s]] = "COMMIT"
<1>1. TidOf[s] \in Txid
  BY RpcAssumption
<1>2. DecisionMap[TidOf[s]] = DecisionIn(log, pc, TidOf[s])
  BY <1>1 DEF DecisionMap, DecisionOf, DecisionIn
<1>3. pc[s] \in {"idle", "voting"} => TidOf[s] \notin log
  BY DEF RefineInv, AgreeInv, OutcomeInv, LogOwned, DistinctTids
<1>4. pc[s] = "logged" => TidOf[s] \in log
  BY DEF RefineInv, AgreeInv, LogInv, LogFirst
<1> QED
  BY <1>1, <1>2, <1>3, <1>4, DecisionFrom DEF Over

-----------------------------------------------------------------------------
(* What leaves the abstract state alone, and what moves one decision. *)

LEMMA StateKept == UNCHANGED disk => UNCHANGED StateMap
BY DEF StateMap, Recorded, LastRecord

(* The mapped votes are those whose answer is counted. *)
LEMMA VotesKept ==
  (\A s \in Store, b \in Backend : prep'[s][b] = "counted" <=> prep[s][b] = "counted")
    => UNCHANGED VotesMap
BY DEF VotesMap, CountedFor

(* The mapped decisions are read from the log and from where the handlers are. *)
LEMMA DecisionsKept == UNCHANGED <<log, pc>> => UNCHANGED DecisionMap
BY DEF DecisionMap, DecisionOf

(* A handler that moves changes the decision on its own call only. *)
LEMMA HandlerMoves ==
  ASSUME DistinctTids, RefineInv, NEW s \in Store, NEW x, pc' = [pc EXCEPT ![s] = x],
         log' = log \/ log' = log \cup {TidOf[s]}
  PROVE  DecisionMap' = [DecisionMap EXCEPT ![TidOf[s]] =
                           IF TidOf[s] \in log' THEN "COMMIT"
                           ELSE IF x = "done" THEN "ABORT"
                           ELSE IF x = "voting" THEN "open" ELSE "none"]
<1>1. \A r \in Store : pc'[r] = IF r = s THEN x ELSE pc[r]
  BY DEF RefineInv, AgreeInv, LogInv, TypeOK, CoordTypeOK
<1>2. \A t \in Txid : /\ DecisionMap[t] = DecisionIn(log, pc, t)
                      /\ DecisionMap'[t] = DecisionIn(log', pc', t)
  BY DEF DecisionMap, DecisionOf, DecisionIn
<1>3. \A t \in Txid : t # TidOf[s] => DecisionIn(log', pc', t) = DecisionIn(log, pc, t)
  <2> SUFFICES ASSUME NEW t \in Txid, t # TidOf[s]
               PROVE  DecisionIn(log', pc', t) = DecisionIn(log, pc, t)
    OBVIOUS
  <2>1. /\ t \in log' <=> t \in log
        /\ \A r \in Store : TidOf[r] = t => pc'[r] = pc[r]
    BY <1>1
  <2> QED
    BY <2>1 DEF DecisionIn
<1> DEFINE y == IF TidOf[s] \in log' THEN "COMMIT"
                ELSE IF x = "done" THEN "ABORT" ELSE IF x = "voting" THEN "open" ELSE "none"
<1>4. DecisionIn(log', pc', TidOf[s]) = y
  <2>1. pc'[s] = x
    BY <1>1
  <2> QED
    BY <2>1 DEF DecisionIn, DistinctTids
<1> HIDE DEF y
<1>5. \A t \in Txid : DecisionMap'[t] = IF t = TidOf[s] THEN y ELSE DecisionMap[t]
  BY <1>2, <1>3, <1>4
<1>6. /\ DecisionMap = [t \in Txid |-> DecisionMap[t]]
      /\ DecisionMap' = [t \in Txid |-> DecisionMap'[t]]
  BY DEF DecisionMap
<1>7. DecisionMap' = [DecisionMap EXCEPT ![TidOf[s]] = y]
  BY <1>5, <1>6
<1> QED
  BY <1>7 DEF y

-----------------------------------------------------------------------------
(* The steps of the coordinator. *)

(* A call begins. *)
LEMMA BeginRefines ==
  ASSUME DistinctTids, RefineInv, NEW s \in Store, StoreBegin(s), UNCHANGED disk
  PROVE  [AC!Next]_(AC!vars)
<1>1. TidOf[s] \in Txid /\ TidOf[s] \notin log /\ DecisionMap[TidOf[s]] = "none"
  BY HandlerDecision DEF StoreBegin, RefineInv, AgreeInv, OutcomeInv, LogOwned, DistinctTids
<1>2. DecisionMap' = [DecisionMap EXCEPT ![TidOf[s]] = "open"]
  BY <1>1, HandlerMoves DEF StoreBegin
<1>3. \A b \in Backend : prep[s][b] = "none"
  BY DEF RefineInv, VoteInv, Counting, StoreBegin
<1>4. UNCHANGED VotesMap
  BY <1>3, VotesKept DEF StoreBegin, SendPrepare, RefineInv, VoteInv, TypeOK, RpcTypeOK
<1> QED
  BY <1>1, <1>2, <1>4, StateKept, Abstractly

(* A vote is counted. *)
LEMMA VoteRefines ==
  ASSUME DistinctTids, RefineInv, NEW s \in Store, NEW b \in Backend, GetVoteReturn(s, b),
         UNCHANGED disk
  PROVE  [AC!Next]_(AC!vars)
<1> DEFINE t == TidOf[s]
<1>1. pc[s] = "voting" /\ prep[s][b] = "ok"
  BY DEF GetVoteReturn, RefineInv, VoteInv, Counting
<1>2. t \in Txid /\ DecisionMap[t] = "open" /\ StateMap[b][t] = "PREPARE"
  BY <1>1, HandlerDecision, VotingCall DEF Answered, StateMap
<1>3. \A r \in Store, c \in Backend :
        prep'[r][c] = IF r = s /\ c = b THEN "counted" ELSE prep[r][c]
  BY DEF GetVoteReturn, SetPrep, RefineInv, VoteInv, TypeOK, RpcTypeOK
<1>4. VotesMap' = [VotesMap EXCEPT ![t] = VotesMap[t] \cup {b}]
  <2>1. \A u \in Txid : CountedFor(u)' = IF u = t THEN CountedFor(u) \cup {b} ELSE CountedFor(u)
    BY <1>3 DEF CountedFor
  <2> QED
    BY <1>2, <2>1 DEF VotesMap
<1>5. UNCHANGED DecisionMap
  BY DecisionsKept DEF GetVoteReturn
<1> QED
  BY <1>2, <1>4, <1>5, StateKept, Abstractly

(* The handler decides, and a commit is announced later without an effect. *)
LEMMA DecideRefines ==
  ASSUME DistinctTids, RefineInv, NEW s \in Store,
         StoreAbort(s) \/ StoreLog(s) \/ StoreAnnounce(s), UNCHANGED disk
  PROVE  [AC!Next]_(AC!vars)
<1> DEFINE t == TidOf[s]
<1>1. UNCHANGED <<StateMap, VotesMap>>
  BY StateKept, VotesKept DEF StoreAbort, StoreLog, StoreAnnounce, rpcVars
<1>2. CASE StoreAbort(s)
  <2>1. t \in Txid /\ t \notin log /\ DecisionMap[t] = "open"
    BY <1>2, HandlerDecision, VotingCall DEF StoreAbort, Joined
  <2>2. DecisionMap' = [DecisionMap EXCEPT ![t] = "ABORT"]
    BY <1>2, <2>1, HandlerMoves DEF StoreAbort, Finish
  <2>3. DecisionMap' = [u \in Txid |-> IF u \in {t} THEN "ABORT" ELSE DecisionMap[u]]
    BY <2>2 DEF DecisionMap
  <2>4. {t} \in SUBSET Txid
    BY <2>1
  <2> QED
    BY <1>1, <2>1, <2>3, <2>4, Abstractly
<1>3. CASE StoreLog(s)
  <2>1. t \in Txid /\ DecisionMap[t] = "open"
    BY <1>3, HandlerDecision DEF StoreLog, Joined
  <2>2. DecisionMap' = [DecisionMap EXCEPT ![t] = "COMMIT"]
    BY <1>3, HandlerMoves DEF StoreLog, tpcLog, getTid
  <2>3. \A b \in VotesMap[t] : StateMap[b][t] = "PREPARE"
    BY <1>3, <2>1, VotingCall
    DEF StoreLog, Joined, VotesMap, CountedFor, StateMap, Answered, DistinctTids
  <2> QED
    BY <1>1, <2>1, <2>2, <2>3, Abstractly
<1>4. CASE StoreAnnounce(s)
  <2>1. t \in log /\ t \in Txid /\ DecisionMap[t] = "COMMIT"
    BY <1>4, HandlerDecision DEF StoreAnnounce, RefineInv, AgreeInv, LogInv, LogFirst
  <2>2. DecisionMap' = [DecisionMap EXCEPT ![t] = "COMMIT"]
    BY <1>4, <2>1, HandlerMoves DEF StoreAnnounce, Finish
  <2>3. UNCHANGED DecisionMap
    BY <2>1, <2>2 DEF DecisionMap
  <2> QED
    BY <1>1, <2>3, Abstractly
<1> QED
  BY <1>2, <1>3, <1>4

(* The process ends: all that is open is aborted. *)
LEMMA EndRefines ==
  ASSUME DistinctTids, RefineInv, ProcessEnds, UNCHANGED disk
  PROVE  [AC!Next]_(AC!vars)
<1> DEFINE T == {t \in Txid : DecisionMap[t] = "open"}
<1>1. UNCHANGED <<log, prep>> /\ \A r \in Store : pc'[r] = IF r \in Running THEN "done" ELSE pc[r]
  BY DEF ProcessEnds
<1>2. \A t \in Txid : DecisionMap'[t] = IF t \in T THEN "ABORT" ELSE DecisionMap[t]
  <2> SUFFICES ASSUME NEW t \in Txid
               PROVE  DecisionMap'[t] = IF t \in T THEN "ABORT" ELSE DecisionMap[t]
    OBVIOUS
  <2>1. DecisionMap[t] = DecisionIn(log, pc, t) /\ DecisionMap'[t] = DecisionIn(log', pc', t)
    BY DEF DecisionMap, DecisionOf, DecisionIn
  <2>2. CASE \E s \in Store : TidOf[s] = t
    <3>1. PICK s \in Store : TidOf[s] = t
      BY <2>2
    <3>2. DecisionIn(log', pc', t) = IF t \in log THEN "COMMIT"
                                     ELSE IF pc'[s] = "done" THEN "ABORT"
                                     ELSE IF pc'[s] = "voting" THEN "open" ELSE "none"
      BY <1>1, <3>1 DEF DecisionIn, DistinctTids
    <3>3. DecisionIn(log, pc, t) = IF t \in log THEN "COMMIT"
                                   ELSE IF pc[s] = "done" THEN "ABORT"
                                   ELSE IF pc[s] = "voting" THEN "open" ELSE "none"
      BY <3>1 DEF DecisionIn, DistinctTids
    <3>4. pc[s] = "logged" => t \in log
      BY <3>1 DEF RefineInv, AgreeInv, LogInv, LogFirst
    <3> QED
      BY <1>1, <2>1, <3>2, <3>3, <3>4 DEF Running
  <2>3. CASE \A s \in Store : TidOf[s] # t
    BY <1>1, <2>1, <2>3 DEF DecisionIn
  <2> QED
    BY <2>2, <2>3
<1>3. DecisionMap' = [t \in Txid |-> IF t \in T THEN "ABORT" ELSE DecisionMap[t]]
  <2>1. DecisionMap' = [t \in Txid |-> DecisionMap'[t]]
    BY DEF DecisionMap
  <2> QED
    BY <1>2, <2>1
<1>4. UNCHANGED VotesMap
  BY <1>1, VotesKept
<1>5. T \in SUBSET Txid /\ \A t \in T : DecisionMap[t] = "open"
  OBVIOUS
<1> HIDE DEF T
<1> QED
  BY <1>3, <1>4, <1>5, StateKept, Abstractly

(* The rest of what the coordinator does changes no decision. *)
LEMMA CoordRefines ==
  ASSUME DistinctTids, WriteMayFail = FALSE, RefineInv, CoordNext, UNCHANGED backendVars
  PROVE  [AC!Next]_(AC!vars)
<1>1. UNCHANGED disk
  BY DEF backendVars
<1>2. CASE UNCHANGED <<log, pc, prep>>
  BY <1>1, <1>2, StateKept, VotesKept, DecisionsKept, Abstractly
<1>3. CASE \E s \in Store : StoreBegin(s)
  BY <1>1, <1>3, BeginRefines
<1>4. CASE \E s \in Store, b \in Backend : GetVoteReturn(s, b)
  BY <1>1, <1>4, VoteRefines
<1>5. CASE \E s \in Store : StoreAbort(s) \/ StoreLog(s) \/ StoreAnnounce(s)
  BY <1>1, <1>5, DecideRefines
<1>6. CASE ProcessEnds
  BY <1>1, <1>6, EndRefines
<1> QED
  BY <1>2, <1>3, <1>4, <1>5, <1>6
  DEF CoordNext, StoreStep, GetVoteFails, StoreLogFails, JoinPastEnd, RegisterInsert,
      RegisterCount, CommitVote, CoordCrash, Recover, rpcVars, coordVars

-----------------------------------------------------------------------------
(* The steps of the stores. *)

(* A store adds a record of its own to the log, and it is a new one only   *)
(* when it is the PREPARE of a call that has begun, or what was decided.   *)
LEMMA StoreRefines ==
  ASSUME DistinctTids, RefineInv, Agreement, Agreement', [Next]_vars,
         NEW b \in Backend, BackendStep(b), UNCHANGED coordVars
  PROVE  [AC!Next]_(AC!vars)
<1>1. /\ RpcTypeOK /\ mem \in Processes /\ disk \in Files
      /\ StoreHolds(b) /\ StoreKnows(b)
  BY DEF RefineInv, AgreeInv, SystemInv, TypeOK, BackendTypeOK, Processes, Files
<1>2. UNCHANGED DecisionMap
  BY DecisionsKept DEF coordVars
<1>3. UNCHANGED VotesMap
  <2>1. EnvNext \/ UNCHANGED rpcVars
    BY <1>1, StepConforms
  <2>2. UNCHANGED prep \/ \E s \in Store, c \in Backend : EnvPrepare(s, c)
    BY <2>1 DEF EnvNext, EnvAsk, EnvRegister, EnvTake, RpcNext, LoseCall, LoseAsk, LoseReg, rpcVars
  <2>3. CASE \E s \in Store, c \in Backend : EnvPrepare(s, c)
    <3>1. PICK s \in Store, c \in Backend, x \in {"taken", "ok"} :
            /\ prep' = [prep EXCEPT ![s][c] = x]
            /\ prep[s][c] \in {"sent", "taken"}
      BY <2>3 DEF EnvPrepare, SetPrep
    <3>2. \A r \in Store, d \in Backend :
            prep'[r][d] = IF r = s /\ d = c THEN x ELSE prep[r][d]
      BY <1>1, <3>1 DEF RpcTypeOK
    <3> QED
      BY <3>1, <3>2, VotesKept
  <2> QED
    BY <2>2, <2>3, VotesKept
<1>4. \A c \in Backend \ {b} : disk'[c] = disk[c]
  BY <1>1, OthersKept DEF StoreHolds
<1>5. CASE disk'[b].store_log = disk[b].store_log
  <2>1. UNCHANGED StateMap
    BY <1>4, <1>5 DEF StateMap, Recorded, LastRecord
  <2> QED
    BY <1>2, <1>3, <2>1, Abstractly
<1>6. CASE \E s \in Store : Records(b, mem[b].state_t[s], s)
  <2>1. PICK s \in Store : Records(b, mem[b].state_t[s], s)
    BY <1>6
  <2> DEFINE t == TidOf[s]
             x == mem[b].state_t[s]
  <2>2. t \in Txid /\ x \in TxState /\ Recorded(b, t) \in TxState \cup {"none"}
    BY <1>1, RpcAssumption
    DEF Processes, Memory, Files, Disk, NoRecord, Recorded, LastRecord
  <2>3. \A u \in Txid : Recorded(b, u)' = IF u = t THEN x ELSE Recorded(b, u)
    BY <1>1, <2>1 DEF Records, Adds, Recorded, LastRecord, Files, Disk
  <2>4. StateMap' = [StateMap EXCEPT ![b][t] = x]
    <3>1. \A c \in Backend, u \in Txid :
            Recorded(c, u)' = IF c = b /\ u = t THEN x ELSE Recorded(c, u)
      BY <1>4, <2>3 DEF Recorded, LastRecord
    <3> HIDE DEF x, t
    <3> QED
      BY <3>1 DEF StateMap
  <2>5. StateMap[b][t] = Recorded(b, t)
    BY <2>2 DEF StateMap
  <2>6. Recorded(b, t) \in Outcome => Recorded(b, t) = x
    BY <2>2, <2>3, OutcomeKept DEF RefineInv
  <2>7. CASE Recorded(b, t) = x
    <3>1. UNCHANGED StateMap
      <4> HIDE DEF x, t
      <4> QED
        BY <2>4, <2>5, <2>7 DEF StateMap
    <3> QED
      BY <1>2, <1>3, <3>1, Abstractly
  <2>8. CASE Recorded(b, t) # x /\ x = "PREPARE"
    <3>1. Recorded(b, t) = "none"
      BY <2>2, <2>6, <2>8 DEF TxState, Outcome
    <3>2. pc[s] # "idle"
      BY <2>1 DEF Records, Taken, RefineInv, AgreeInv, SystemInv, Started
    <3>3. DecisionMap[t] # "none"
      BY <3>2, HandlerDecision DEF Over, RefineInv, AgreeInv, LogInv, TypeOK, CoordTypeOK
    <3> HIDE DEF x, t
    <3> QED
      BY <1>2, <1>3, <2>2, <2>4, <2>5, <2>8, <3>1, <3>3, Abstractly
  <2>9. CASE Recorded(b, t) # x /\ x \in Outcome
    <3>1. Recorded(b, t) \in {"none", "PREPARE"}
      BY <2>2, <2>6, <2>9 DEF TxState, Outcome
    <3>2. Right(x, s)
      BY <1>1 DEF StoreKnows, EntriesRight
    <3>3. DecisionMap[t] = x
      BY <2>9, <3>2, HandlerDecision DEF Right, Outcome
    <3>4. StateMap' = [StateMap EXCEPT ![b][t] = DecisionMap[t]]
      BY <2>4, <3>3
    <3> HIDE DEF x, t
    <3> QED
      BY <1>2, <1>3, <2>2, <2>5, <2>9, <3>1, <3>3, <3>4, Abstractly DEF Outcome
  <2> QED
    BY <2>2, <2>7, <2>8, <2>9 DEF TxState, Outcome
<1> QED
  BY <1>1, <1>5, <1>6, StepRecords

-----------------------------------------------------------------------------
(* The answer "ok" has its record. *)

(* A record that was added is the last one of its call. *)
LEMMA RecordAdded ==
  ASSUME mem \in Processes, disk \in Files, NEW b \in Backend, NEW s \in Store,
         Records(b, mem[b].state_t[s], s)
  PROVE  \A t \in Txid : Recorded(b, t)' \in TxState \/ Recorded(b, t)' = Recorded(b, t)
<1>1. TidOf[s] \in Txid /\ mem[b].state_t[s] \in TxState
  BY RpcAssumption DEF Processes, Memory
<1>2. \A t \in Txid :
        Recorded(b, t)' = IF t = TidOf[s] THEN mem[b].state_t[s] ELSE Recorded(b, t)
  BY DEF Records, Adds, Recorded, LastRecord, Files, Disk
<1> QED
  BY <1>1, <1>2

(* The coordinator counts answers, it makes none; the network neither. *)
LEMMA AnswersCounted ==
  ASSUME TypeOK, CoordNext \/ UNCHANGED prep
  PROVE  \A s \in Store, b \in Backend : prep'[s][b] \in Answered => prep[s][b] \in Answered
<1> USE DEF TypeOK, RpcTypeOK, Answered
<1>1. CASE \E s \in Store : StoreBegin(s)
  BY <1>1 DEF StoreBegin, SendPrepare
<1>2. CASE \E s \in Store, b \in Backend : GetVoteReturn(s, b)
  BY <1>2 DEF GetVoteReturn, SetPrep
<1>3. CASE UNCHANGED prep
  BY <1>3
<1> QED
  BY <1>1, <1>2, <1>3
  DEF CoordNext, StoreStep, GetVoteFails, StoreAbort, StoreLog, StoreLogFails, StoreAnnounce,
      JoinPastEnd, RegisterInsert, RegisterCount, CommitVote, CoordCrash, ProcessEnds, Recover,
      rpcVars

(* What the coordinator does leaves the records behind the votes alone. *)
LEMMA VotedCoord ==
  ASSUME RefineInv, CoordNext \/ UNCHANGED prep, UNCHANGED disk
  PROVE  \A b \in Backend : Voted(b)'
BY AnswersCounted DEF RefineInv, VoteInv, Voted, Recorded, LastRecord

(* A store answers at the end of Prepare, after tpcLog. *)
LEMMA AnswersLogged ==
  ASSUME StoreWriteMayFail = FALSE, RpcTypeOK, NEW b \in Backend, BackendStep(b),
         NEW s \in Store, prep'[s][b] \in Answered
  PROVE  prep[s][b] \in Answered \/ PrepareLog(b, s)
<1>1. CASE UNCHANGED prep
  BY <1>1
<1>2. CASE \E r \in Store : PrepareLookup(b, r)
  BY <1>2 DEF PrepareLookup, SetPrep, RpcTypeOK, Answered
<1>3. CASE \E r \in Store : PrepareLog(b, r)
  BY <1>3 DEF PrepareLog, PrepareEnd, SetPrep, RpcTypeOK
<1> QED
  BY <1>1, <1>2, <1>3
  DEF BackendStep, StoreStart, StoreRecover, Listen, AskAgain, AskReturns, Exit, StoreCrash,
      OutcomeStep, AbortBegin, CommitBegin, CommitFile, CommitState, LogAndUnlock,
      LogFailsAndUnlock, PrepareStep,
      PrepareNewLock, PrepareInsert, PrepareNullLock, PrepareOpen, PrepareOpenFails, PrepareCopy,
      PrepareAppend, PrepareWrLock, PrepareLogFails, rpcVars

(* A step of a store puts a record behind each vote it gives, and takes none away. *)
LEMMA VotedStore ==
  ASSUME StoreWriteMayFail = FALSE, RefineInv, NEW b \in Backend, BackendStep(b)
  PROVE  \A c \in Backend : Voted(c)'
<1>1. /\ RpcTypeOK /\ mem \in Processes /\ disk \in Files
      /\ StoreHolds(b) /\ StoreKnows(b)
  BY DEF RefineInv, AgreeInv, SystemInv, TypeOK, BackendTypeOK, Processes, Files
<1>2. \A c \in Backend \ {b} : Voted(c)'
  BY <1>1, OthersKept DEF StoreHolds, RefineInv, Voted, Recorded, LastRecord
<1>3. \A t \in Txid : Recorded(b, t) # "none" => Recorded(b, t)' # "none"
  <2>1. CASE disk'[b].store_log = disk[b].store_log
    BY <2>1 DEF Recorded, LastRecord
  <2>2. CASE \E s \in Store : Records(b, mem[b].state_t[s], s)
    BY <1>1, <2>2, RecordAdded DEF TxState
  <2> QED
    BY <1>1, <2>1, <2>2, StepRecords
<1>4. ASSUME NEW s \in Store, PrepareLog(b, s)
      PROVE  Recorded(b, TidOf[s])' # "none"
  <2>1. mem[b].state_t[s] \in TxState /\ TidOf[s] \in Txid
    BY <1>1, RpcAssumption DEF Processes, Memory
  <2>2. Adds(b, mem[b].state_t[s], s)
    BY <1>1, <1>4, PrepareRecords DEF PrepareStep, Records
  <2>3. Recorded(b, TidOf[s])' = mem[b].state_t[s]
    BY <1>1, <2>1, <2>2 DEF Adds, Recorded, LastRecord, Files, Disk
  <2> QED
    BY <2>1, <2>3 DEF TxState
<1>5. \A s \in Store : prep'[s][b] \in Answered => prep[s][b] \in Answered \/ PrepareLog(b, s)
  BY <1>1, AnswersLogged
<1>6. Voted(b)'
  BY <1>3, <1>4, <1>5, RpcAssumption DEF RefineInv, Voted
<1> QED
  BY <1>2, <1>6

(* Every step of the system keeps the invariant. *)
LEMMA RefineInvNext ==
  ASSUME DistinctTids, WriteMayFail = FALSE, StoreWriteMayFail = FALSE, RefineInv, [Next]_vars
  PROVE  RefineInv'
<1>1. AgreeInv'
  BY AgreeInvNext DEF RefineInv
<1>2. VoteInv'
  BY SystemStepConforms, VoteInvNext DEF RefineInv, AgreeInv
<1>3. \A b \in Backend : Voted(b)'
  <2>1. CASE CoordNext /\ UNCHANGED backendVars
    BY <2>1, VotedCoord DEF backendVars
  <2>2. CASE BackendNext
    BY <2>2, VotedStore DEF BackendNext
  <2>3. CASE RpcNext /\ UNCHANGED <<coordVars, backendVars>>
    BY <2>3, VotedCoord DEF RpcNext, LoseCall, LoseAsk, LoseReg, backendVars
  <2>4. CASE UNCHANGED vars
    BY <2>4, VotedCoord DEF vars, backendVars, rpcVars
  <2> QED
    BY <2>1, <2>2, <2>3, <2>4 DEF Next
<1> QED
  BY <1>1, <1>2, <1>3 DEF RefineInv

(* And it is one of the abstract protocol. *)
LEMMA NextRefines ==
  ASSUME DistinctTids, WriteMayFail = FALSE, RefineInv, Agreement, Agreement', [Next]_vars
  PROVE  [AC!Next]_(AC!vars)
<1>1. CASE CoordNext /\ UNCHANGED backendVars
  BY <1>1, CoordRefines
<1>2. CASE BackendNext /\ UNCHANGED coordVars
  BY <1>2, StoreRefines DEF BackendNext
<1>3. CASE UNCHANGED <<coordVars, backendVars, prep>>
  BY <1>3, StateKept, VotesKept, DecisionsKept, Abstractly DEF coordVars, backendVars
<1> QED
  BY <1>1, <1>2, <1>3 DEF Next, RpcNext, LoseCall, LoseAsk, LoseReg, vars, rpcVars

(* Nothing has begun at the start. *)
LEMMA InitRefines == Init => RefineInv /\ AC!Init
<1> SUFFICES ASSUME Init
             PROVE  RefineInv /\ AC!Init
  OBVIOUS
<1>1. AgreeInv /\ VoteInv
  BY AgreeInvInit, VoteInvInit DEF Init, ClosedInit
<1>2. \A b \in Backend : Voted(b)
  BY DEF Init, RpcInit, Voted, Answered
<1>3. \A t \in Txid : DecisionOf(t) = "none" /\ CountedFor(t) = {}
  BY DEF Init, CoordInit, RpcInit, DecisionOf, CountedFor
<1>4. \A b \in Backend, t \in Txid : Recorded(b, t) = "none"
  BY DEF Init, BackendInit, Recorded, LastRecord, NoRecord
<1>5. AC!Init
  BY <1>3, <1>4 DEF AC!Init, CountedFor
<1> QED
  BY <1>1, <1>2, <1>5 DEF RefineInv

(* With distinct ids, and files that can be written, the coordinator and   *)
(* the stores do what AtomicCommit.tla says they do together: a call is    *)
(* decided once, on votes that have their records, and every outcome that  *)
(* a store records is the decision, whatever crashes, late and lost calls  *)
(* and locks there are.                                                    *)
THEOREM ImplementsAtomicCommitCorrect ==
  ASSUME DistinctTids, WriteMayFail = FALSE, StoreWriteMayFail = FALSE
  PROVE  Spec => ImplementsAtomicCommit
<1>1. Init => RefineInv /\ AC!Init
  BY InitRefines
<1>2. RefineInv /\ [Next]_vars => RefineInv'
  BY RefineInvNext
<1>3. RefineInv => Agreement
  BY AgreeInvImplies DEF RefineInv
<1>4. RefineInv /\ Agreement /\ Agreement' /\ [Next]_vars => [AC!Next]_(AC!vars)
  BY NextRefines
<1> QED
  BY <1>1, <1>2, <1>3, <1>4, PTL DEF Spec, ImplementsAtomicCommit, AC!Spec
=============================================================================
