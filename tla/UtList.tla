------------------------------- MODULE UtList -------------------------------
(***************************************************************************)
(* What the lists of utlist.h have in common: nodes with next and prev     *)
(* pointers, two heads, and loops that remove what they visit.             *)
(* UtListSingle, UtListDouble and UtListCircular model the macros of each  *)
(* kind, one action per macro; list is what a user of the header takes the *)
(* lists to be, and each module shows that the pointers say so.            *)
(*                                                                         *)
(* A node that is in no list keeps the pointers it had.                    *)
(***************************************************************************)
EXTENDS MergeSort

CONSTANT Node  \* the elements that are put into lists

ASSUME UtListAssumption == Node \subseteq Elem

VARIABLES
  nodes,  \* the pointers: nodes.next[e], nodes.prev[e]
  head,   \* head[l]: the head of list l
  list,   \* list[l]: the nodes that were put into list l, in order
  loop    \* the loop over list 1 that is running

utVars == <<nodes, head, list, loop>>

List == {1, 2}
NoLoop == [el |-> NULL, tmp |-> NULL, last |-> NULL, visited |-> <<>>, over |-> <<>>]

UtInit ==
  /\ nodes = [next |-> [e \in Elem |-> NULL], prev |-> [e \in Elem |-> NULL]]
  /\ head = [l \in List |-> NULL]
  /\ list = [l \in List |-> <<>>]
  /\ loop = NoLoop

\* What a macro leaves: the pointers n and the head of its list.
Result(n, h) == [n |-> n, head |-> h]

InList(e, l) == e \in Range(list[l])
Free(e) == \A l \in List : ~InList(e, l)
Leaves(l, r, sequence) ==
  /\ nodes' = r.n
  /\ head' = [head EXCEPT ![l] = r.head]
  /\ list' = [list EXCEPT ![l] = sequence]

NotLooping == loop.el = NULL

\* The nodes from x on, up to the first one whose next is stop or NULL.
WalkTo(n, x, stop) == IF x = NULL THEN <<>> ELSE Walk(n.next, x, stop, Cardinality(Elem))

InsertBefore(s, e, add) == InsertAt(s, At(s, e), add)
InsteadOf(s, e, add) == [s EXCEPT ![At(s, e)] = add]

-----------------------------------------------------------------------------
(***************************************************************************)
(* A FOREACH_SAFE loop over list 1 takes the next node before its body     *)
(* runs; the body may remove the node it is at, or move it to list 2.      *)
(***************************************************************************)
LoopBegin(last) ==
  /\ NotLooping
  /\ head[1] # NULL
  /\ loop' = [el |-> head[1], tmp |-> nodes.next[head[1]], last |-> last, visited |-> <<>>,
              over |-> list[1]]
  /\ UNCHANGED <<nodes, head, list>>

\* The node at hand goes from list 1 to the front of list 2.
Moved(removed, added) ==
  /\ nodes' = added.n
  /\ head' = [head EXCEPT ![1] = removed.head, ![2] = added.head]
  /\ list' = [list EXCEPT ![1] = Without(@, loop.el), ![2] = <<loop.el>> \o @]

(* Mutant: the loop goes on from the next pointer that the body left. *)
LoopStepUnsafe(stop) ==
  loop' = IF stop
            THEN NoLoop
            ELSE [loop EXCEPT !.visited = Append(@, loop.el), !.el = nodes'.next[loop.el]]

\* The end of the body; stop: the node at hand was the last one.
LoopStep(stop) ==
  loop' = IF stop
            THEN NoLoop
            ELSE [loop EXCEPT !.visited = Append(@, loop.el), !.el = loop.tmp,
                              !.tmp = nodes'.next[loop.tmp]]

(***************************************************************************)
(* A loop that removes or moves nodes on its way visits every node of the  *)
(* list once and in order: "safe for deleting the elements during          *)
(* iteration".                                                             *)
(***************************************************************************)
LoopVisitsAll ==
  [][~NotLooping =>
       LET visited == Append(loop.visited, loop.el)
       IN IF NotLooping' THEN visited = loop.over ELSE IsPrefix(Append(visited, loop'.el), loop.over)]_utVars
=============================================================================
