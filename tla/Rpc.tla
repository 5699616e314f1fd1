-------------------------------- MODULE Rpc --------------------------------
(***************************************************************************)
(* The remote calls between the coordinator (greeter_server.cc) and the    *)
(* stores (backend_store.cc), made through BackendClient and               *)
(* GreeterClient.  Every call is a blocking gRPC call without a deadline,  *)
(* made by a thread of its own.  A call in flight may reach its server at  *)
(* any later time, or never; a caller may be told that its call failed     *)
(* although the server executes it.  The two component modules share this  *)
(* module's variables and nothing else.                                    *)
(***************************************************************************)
EXTENDS Integers, FiniteSets

CONSTANTS
  Backend,    \* the stores, named as in the conn string of a Register call
  Store,      \* the Store and Delete calls of the clients, each made once
  Txid,       \* transaction ids
  TidOf,      \* TidOf[s]: the id getTid gives to call s
  Thread,     \* the handler threads of a server
  None,       \* nothing: a missing map entry or file, an unlocked lock
  MayLose,    \* which calls can fail without having been executed
  MaxCalls    \* bound on the identical Commit or Abort calls in flight

Kind == {"commit", "abort"}

ASSUME RpcAssumption ==
  /\ IsFiniteSet(Backend)
  /\ TidOf \in [Store -> Txid]
  /\ None \notin Store \cup Txid \cup Thread
  /\ MayLose \subseteq Kind \cup {"ask", "register"}
  /\ MaxCalls \in Nat \ {0}

VARIABLES
  prep,   \* prep[s][b]: how far the Prepare call of s to b has come
  calls,  \* calls[k][t][b]: number of Commit or Abort calls in flight
  asks,   \* the CommitVote calls in flight, as <<txid, conn>>
  regs    \* the stores whose Register call is in flight

rpcVars == <<prep, calls, asks, regs>>

(***************************************************************************)
(* "sent": in flight; "taken": the store has begun to execute it; "ok":    *)
(* the reply "ok" is in flight; "counted": the coordinator counted it.     *)
(***************************************************************************)
PrepStage == {"none", "sent", "taken", "ok", "counted"}

RpcTypeOK ==
  /\ prep \in [Store -> [Backend -> PrepStage]]
  /\ calls \in [Kind -> [Txid -> [Backend -> Nat]]]
  /\ asks \subseteq Txid \X Backend
  /\ regs \subseteq Backend

RpcInit ==
  /\ prep = [s \in Store |-> [b \in Backend |-> "none"]]
  /\ calls = [k \in Kind |-> [t \in Txid |-> [b \in Backend |-> 0]]]
  /\ asks = {}
  /\ regs = {}

SetPrep(s, b, stage) == prep' = [prep EXCEPT ![s][b] = stage]

\* One Prepare call per store of B (BackendClient::Prepare, in GetVoteRunnable).
SendPrepare(s, B) ==
  prep' = [prep EXCEPT ![s] = [b \in Backend |-> IF b \in B THEN "sent" ELSE @[b]]]

\* One more Commit or Abort call per store of B (BackendClient::Commit, ::Abort).
SendCall(k, t, B) ==
  calls' = [calls EXCEPT ![k][t] = [b \in Backend |-> IF b \in B THEN @[b] + 1 ELSE @[b]]]

\* The call leaves the network, executed or not.
TakeCall(k, t, b) ==
  /\ calls[k][t][b] > 0
  /\ calls' = [calls EXCEPT ![k][t][b] = @ - 1]

(***************************************************************************)
(* What the network may do by itself: a Commit, Abort, CommitVote or       *)
(* Register call fails without having been executed.  (A Prepare call that *)
(* fails is GetVoteFails of the coordinator: its caller waits for it.)     *)
(***************************************************************************)
LoseCall(k, t, b) ==
  /\ k \in MayLose
  /\ TakeCall(k, t, b)
  /\ UNCHANGED <<prep, asks, regs>>

LoseAsk(t, b) ==
  /\ "ask" \in MayLose
  /\ <<t, b>> \in asks
  /\ asks' = asks \ {<<t, b>>}
  /\ UNCHANGED <<prep, calls, regs>>

LoseReg(b) ==
  /\ "register" \in MayLose
  /\ b \in regs
  /\ regs' = regs \ {b}
  /\ UNCHANGED <<prep, calls, asks>>

RpcNext ==
  \E b \in Backend :
    \/ LoseReg(b)
    \/ \E t \in Txid : LoseAsk(t, b) \/ \E k \in Kind : LoseCall(k, t, b)
=============================================================================
