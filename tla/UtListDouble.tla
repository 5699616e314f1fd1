---------------------------- MODULE UtListDouble ----------------------------
(***************************************************************************)
(* The doubly linked lists of utlist.h, the DL_ macros: the prev of the    *)
(* head is the tail, the next of the tail is NULL.                         *)
(***************************************************************************)
EXTENDS UtList

DL_FOREACH2(n, h) == WalkTo(n, h, NULL)
DL_COUNT2(n, h) == Len(DL_FOREACH2(n, h))

DL_PREPEND2(n, h, add) ==
  LET n1 == SetNext(n, add, h)
  IN Result(IF h = NULL THEN SetPrev(n1, add, add) ELSE SetPrev(SetPrev(n1, add, n.prev[h]), h, add),
            add)

DL_APPEND2(n, h, add) ==
  IF h = NULL
    THEN Result(SetNext(SetPrev(n, add, add), add, NULL), add)
    ELSE LET n1 == SetNext(SetPrev(n, add, n.prev[h]), n.prev[h], add)
         IN Result(SetNext(SetPrev(n1, h, add), add, NULL), h)

(* Mutant: the first list keeps its own tail. *)
ConcatKeepsTail(n, h1, h2) ==
  IF h2 = NULL THEN Result(n, h1)
  ELSE IF h1 = NULL THEN Result(n, h2)
  ELSE Result(SetNext(SetPrev(n, h2, n.prev[h1]), n.prev[h1], h2), h1)

DL_CONCAT2(n, h1, h2) ==
  IF h2 = NULL THEN Result(n, h1)
  ELSE IF h1 = NULL THEN Result(n, h2)
  ELSE LET n1 == SetNext(SetPrev(n, h2, n.prev[h1]), n.prev[h1], h2)
       IN Result(SetPrev(n1, h1, n.prev[h2]), h1)

\* assert((del)->prev != NULL)
DL_DELETE2(n, h, del) ==
  IF n.prev[del] = del THEN Result(n, NULL)
  ELSE IF del = h THEN Result(SetPrev(n, n.next[del], n.prev[del]), n.next[del])
  ELSE LET n1 == SetNext(n, n.prev[del], n.next[del])
       IN Result(SetPrev(n1, IF n.next[del] = NULL THEN h ELSE n.next[del], n.prev[del]), h)

DL_REPLACE_ELEM(n, h, el, add) ==
  LET n1 == SetNext(n, add, n.next[el])
      n2 == SetPrev(n1, add, n.prev[el])
      n3 == SetNext(n2, n2.prev[add], add)
  IN IF h = el
       THEN Result(IF n.next[el] = NULL THEN SetPrev(n1, add, add) ELSE SetPrev(n2, n2.next[add], add),
                   add)
       ELSE Result(SetPrev(n3, IF n.next[el] = NULL THEN h ELSE n3.next[add], add), h)

DL_PREPEND_ELEM(n, h, el, add) ==
  LET n1 == SetPrev(SetPrev(SetNext(n, add, el), add, n.prev[el]), el, add)
  IN IF h = el THEN Result(n1, add) ELSE Result(SetNext(n1, n1.prev[add], add), h)

DL_SORT2(n, h) == SortFrom(n, h, "double")

-----------------------------------------------------------------------------
DoubleAdd(l, e) ==
  \/ Leaves(l, DL_PREPEND2(nodes, head[l], e), <<e>> \o list[l])
  \/ Leaves(l, DL_APPEND2(nodes, head[l], e), Append(list[l], e))

DoubleDelete(l, e) == Leaves(l, DL_DELETE2(nodes, head[l], e), Without(list[l], e))

DoubleExchange(l, e, add) ==
  \/ Leaves(l, DL_REPLACE_ELEM(nodes, head[l], e, add), InsteadOf(list[l], e, add))
  \/ Leaves(l, DL_PREPEND_ELEM(nodes, head[l], e, add), InsertBefore(list[l], e, add))

\* head2 is left as it is; its user goes on with head1.
DoubleConcat ==
  /\ LET r == DL_CONCAT2(nodes, head[1], head[2])
     IN nodes' = r.n /\ head' = [head EXCEPT ![1] = r.head, ![2] = NULL]
  /\ list' = [list EXCEPT ![1] = @ \o list[2], ![2] = <<>>]

DoubleSort(l) == head[l] # NULL /\ Leaves(l, DL_SORT2(nodes, head[l]), Sorted(list[l]))

DoubleLoopBody ==
  /\ ~NotLooping
  /\ LET removed == DL_DELETE2(nodes, head[1], loop.el)
     IN \/ UNCHANGED <<nodes, head, list>>
        \/ Leaves(1, removed, Without(list[1], loop.el))
        \/ Moved(removed, DL_PREPEND2(removed.n, head[2], loop.el))
  /\ LoopStep(loop.tmp = NULL)

DoubleNext ==
  \/ /\ NotLooping
     /\ \/ \E l \in List, e \in Node : Free(e) /\ DoubleAdd(l, e)
        \/ \E l \in List, e \in Node : InList(e, l) /\ DoubleDelete(l, e)
        \/ \E l \in List, e, add \in Node : InList(e, l) /\ Free(add) /\ DoubleExchange(l, e, add)
        \/ DoubleConcat
        \/ \E l \in List : DoubleSort(l)
     /\ UNCHANGED loop
  \/ LoopBegin(NULL)
  \/ DoubleLoopBody

-----------------------------------------------------------------------------
(***************************************************************************)
(* Walking a list meets the nodes that were put into it, in their order;   *)
(* walking back from the tail, which is the prev of the head, meets them   *)
(* in the reverse order.                                                   *)
(***************************************************************************)
DL_Faithful ==
  \A l \in List :
    /\ DL_FOREACH2(nodes, head[l]) = list[l]
    /\ DL_COUNT2(nodes, head[l]) = Len(list[l])
    /\ \A i \in DOMAIN list[l] :
         nodes.prev[list[l][i]] = IF i = 1 THEN Last(list[l]) ELSE list[l][i - 1]
=============================================================================
