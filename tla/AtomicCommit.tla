---------------------------- MODULE AtomicCommit ----------------------------
(***************************************************************************)
(* What the coordinator and the stores promise together: a transaction is  *)
(* decided once, a commit only on the votes of participants that have      *)
(* prepared, and each participant that records an outcome records the      *)
(* decision and keeps it.  Processes, calls, files and crashes are the     *)
(* business of the modules that implement this one.                        *)
(***************************************************************************)
CONSTANTS Participant, Txid

VARIABLES
  decision,  \* decision[t]: "none" until t begins, "open" until it is decided
  state,     \* state[b][t]: what participant b has on record of t
  votes      \* votes[t]: the participants whose votes have been counted

vars == <<decision, state, votes>>

Init ==
  /\ decision = [t \in Txid |-> "none"]
  /\ state = [b \in Participant |-> [t \in Txid |-> "none"]]
  /\ votes = [t \in Txid |-> {}]

Begin(t) ==
  /\ decision[t] = "none"
  /\ decision' = [decision EXCEPT ![t] = "open"]
  /\ UNCHANGED <<state, votes>>

\* A participant may prepare long after the decision.
Prepare(b, t) ==
  /\ decision[t] # "none"
  /\ state[b][t] = "none"
  /\ state' = [state EXCEPT ![b][t] = "PREPARE"]
  /\ UNCHANGED <<decision, votes>>

Vote(b, t) ==
  /\ decision[t] = "open"
  /\ state[b][t] = "PREPARE"
  /\ votes' = [votes EXCEPT ![t] = @ \cup {b}]
  /\ UNCHANGED <<decision, state>>

Commit(t) ==
  /\ decision[t] = "open"
  /\ \A b \in votes[t] : state[b][t] = "PREPARE"
  /\ decision' = [decision EXCEPT ![t] = "COMMIT"]
  /\ UNCHANGED <<state, votes>>

\* A crash of the coordinator aborts all that is open.
Abort(T) ==
  /\ \A t \in T : decision[t] = "open"
  /\ decision' = [t \in Txid |-> IF t \in T THEN "ABORT" ELSE decision[t]]
  /\ UNCHANGED <<state, votes>>

CarryOut(b, t) ==
  /\ decision[t] \in {"COMMIT", "ABORT"}
  /\ state[b][t] \in {"none", "PREPARE"}
  /\ state' = [state EXCEPT ![b][t] = decision[t]]
  /\ UNCHANGED <<decision, votes>>

Next ==
  \/ \E t \in Txid : Begin(t) \/ Commit(t)
  \/ \E T \in SUBSET Txid : Abort(T)
  \/ \E b \in Participant, t \in Txid : Prepare(b, t) \/ Vote(b, t) \/ CarryOut(b, t)

Spec == Init /\ [][Next]_vars

(***************************************************************************)
(* Every transaction that begins is decided, and no participant that has   *)
(* prepared stays in doubt for ever.                                       *)
(***************************************************************************)
DecisionComes ==
  \A t \in Txid : decision[t] = "open" ~> decision[t] \in {"COMMIT", "ABORT"}

InDoubtEnds ==
  \A b \in Participant, t \in Txid :
    state[b][t] = "PREPARE" ~> state[b][t] \in {"COMMIT", "ABORT"}
=============================================================================
