---------------------------- MODULE TwoPCRefines ----------------------------
(***************************************************************************)
(* The whole system against AtomicCommit.tla: with ids that differ from    *)
(* call to call, TwoPCStore implements it; under the fairness below it     *)
(* also implements its progress.                                           *)
(***************************************************************************)
EXTENDS TwoPCStore

\* The decision on t, read off the log and the handler of its call.
DecisionOf(t) ==
  CASE t \in log -> "COMMIT"
    [] t \notin log /\ \E s \in Store : TidOf[s] = t /\ pc[s] = "done" -> "ABORT"
    [] t \notin log /\ \E s \in Store : TidOf[s] = t /\ pc[s] = "voting" -> "open"
    [] OTHER -> "none"

AC == INSTANCE AtomicCommit WITH
  Participant <- Backend,
  decision <- [t \in Txid |-> DecisionOf(t)],
  state <- [b \in Backend |-> [t \in Txid |-> Recorded(b, t)]],
  votes <- [t \in Txid |->
              {b \in Backend : \E s \in Store : TidOf[s] = t /\ prep[s][b] = "counted"}]

ImplementsAtomicCommit == AC!Spec

-----------------------------------------------------------------------------
(***************************************************************************)
(* Fairness.  Threads that can run do run, and whoever starts the          *)
(* processes starts them again.  Calls that are made again and again       *)
(* arrive in the end: a Commit, Abort or CommitVote call may be lost, but  *)
(* not every one.  A Prepare call is made once; its caller learns that it  *)
(* failed when the process that executed it is gone.  Clients, crashes and *)
(* losses are not fair.                                                    *)
(***************************************************************************)
VoteBroken(s, b) ==
  /\ prep[s][b] = "taken" /\ mem[b].pc[s] = "none"
  /\ GetVoteFails(s, b)

ByCoord(A) == A /\ UNCHANGED backendVars
ByStore(A) == A /\ UNCHANGED coordVars

FairCoordinator ==
  /\ \A s \in Store :
       /\ WF_vars(ByCoord(StoreAbort(s) \/ StoreLog(s) \/ StoreAnnounce(s)))
       /\ \A b \in Backend :
            WF_vars(ByCoord(GetVoteReturn(s, b))) /\ WF_vars(ByCoord(VoteBroken(s, b)))
  /\ \A b \in Backend :
       /\ WF_vars(ByCoord(RegisterInsert(b))) /\ WF_vars(ByCoord(RegisterCount(b)))
       /\ \A t \in Txid : SF_vars(ByCoord(CommitVote(t, b)))
  /\ WF_vars(ByCoord(Recover))

FairStore(b) ==
  /\ WF_vars(ByStore(StoreStart(b) \/ StoreRecover(b) \/ Listen(b)))
  /\ WF_vars(ByStore(Exit(b))) /\ WF_vars(ByStore(AskReturns(b)))
  /\ \A s \in Store : SF_vars(ByStore(PrepareStep(b, s)))
  /\ \A t \in Txid :
       /\ SF_vars(ByStore(AbortBegin(b, t))) /\ SF_vars(ByStore(CommitBegin(b, t)))
       /\ WF_vars(ByStore(CommitFile(b, t))) /\ WF_vars(ByStore(CommitState(b, t)))
       /\ SF_vars(ByStore(\E k \in Kind : LogAndUnlock(b, k, t)))
       /\ WF_vars(ByStore(AskAgain(b, t)))

\* Nobody listens: the call fails at once.
Refused(b) ==
  /\ mem[b].status # "up"
  /\ \E k \in Kind, t \in Txid : LoseCall(k, t, b)
  /\ UNCHANGED <<coordVars, backendVars>>

FairSpec ==
  /\ Spec
  /\ FairCoordinator
  /\ \A b \in Backend : FairStore(b) /\ WF_vars(Refused(b))

(***************************************************************************)
(* Every call is decided, and a store that has voted does not stay in      *)
(* doubt for ever.                                                         *)
(***************************************************************************)
DecisionComes == AC!DecisionComes
InDoubtEnds == AC!InDoubtEnds
=============================================================================
