---------------------------- MODULE UtListSingle ----------------------------
(* The singly linked lists of utlist.h, the LL_ macros. *)
EXTENDS UtList

LL_FOREACH2(n, h) == WalkTo(n, h, NULL)
LL_COUNT2(n, h) == Len(LL_FOREACH2(n, h))

\* _tmp at the end of a walk from h that ends before el or at the last node.
Walked(n, h, el) == Last(WalkTo(n, h, el))

LL_PREPEND2(n, h, add) == Result(SetNext(n, add, h), add)

LL_APPEND2(n, h, add) ==
  LET n1 == SetNext(n, add, NULL)
  IN IF h = NULL THEN Result(n1, add) ELSE Result(SetNext(n1, Walked(n1, h, NULL), add), h)

\* add->next is the pointer that walks.
LL_APPEND2_VS2008(n, h, add) ==
  IF h = NULL
    THEN Result(SetNext(n, add, NULL), add)
    ELSE LET n1 == Repeat([m \in Pointers |->
                             IF m.next[m.next[add]] = NULL THEN m
                             ELSE SetNext(m, add, m.next[m.next[add]])],
                          SetNext(n, add, h), Cardinality(Elem))
         IN Result(SetNext(SetNext(n1, n1.next[add], add), add, NULL), h)

\* head2 is left as it is; its user goes on with head1.
LL_CONCAT2(n, h1, h2) ==
  IF h1 = NULL THEN Result(n, h2) ELSE Result(SetNext(n, Walked(n, h1, NULL), h2), h1)

\* A node that is not in the list changes nothing.
LL_DELETE2(n, h, del) ==
  LET tmp == Walked(n, h, del)
  IN IF h = del THEN Result(n, n.next[h])
     ELSE IF n.next[tmp] = NULL THEN Result(n, h)
     ELSE Result(SetNext(n, tmp, n.next[del]), h)

\* head itself walks, and is put back.
LL_DELETE2_VS2008(n, h, del) ==
  LET walked == IF h = del THEN h ELSE Walked(n, h, del)
  IN IF h = del THEN Result(n, n.next[h])
     ELSE Result(IF n.next[walked] = NULL THEN n ELSE SetNext(n, walked, n.next[del]), h)

LL_REPLACE_ELEM(n, h, el, add) ==
  LET n1 == SetNext(n, add, n.next[el])
      tmp == Walked(n1, h, el)
  IN IF h = el THEN Result(n1, add)
     ELSE Result(IF n1.next[tmp] = NULL THEN n1 ELSE SetNext(n1, tmp, add), h)

LL_PREPEND_ELEM(n, h, el, add) ==
  LET n1 == SetNext(n, add, el)
      tmp == Walked(n1, h, el)
  IN IF h = el THEN Result(n1, add)
     ELSE Result(IF n1.next[tmp] = NULL THEN n1 ELSE SetNext(n1, tmp, add), h)

\* The first node that cmp, or the comparison of the field, accepts.
LL_SEARCH2(n, h, val) == FirstWith(LL_FOREACH2(n, h), Key, val)

LL_SORT2(n, h) == SortFrom(n, h, "single")

-----------------------------------------------------------------------------
SingleAdd(l, e) ==
  \/ Leaves(l, LL_PREPEND2(nodes, head[l], e), <<e>> \o list[l])
  \/ Leaves(l, LL_APPEND2(nodes, head[l], e), Append(list[l], e))
  \/ Leaves(l, LL_APPEND2_VS2008(nodes, head[l], e), Append(list[l], e))

SingleDelete(l, e) ==
  \/ Leaves(l, LL_DELETE2(nodes, head[l], e), Without(list[l], e))
  \/ Leaves(l, LL_DELETE2_VS2008(nodes, head[l], e), Without(list[l], e))

SingleExchange(l, e, add) ==
  \/ Leaves(l, LL_REPLACE_ELEM(nodes, head[l], e, add), InsteadOf(list[l], e, add))
  \/ Leaves(l, LL_PREPEND_ELEM(nodes, head[l], e, add), InsertBefore(list[l], e, add))

SingleConcat ==
  /\ LET r == LL_CONCAT2(nodes, head[1], head[2])
     IN nodes' = r.n /\ head' = [head EXCEPT ![1] = r.head, ![2] = NULL]
  /\ list' = [list EXCEPT ![1] = @ \o list[2], ![2] = <<>>]

SingleSort(l) == head[l] # NULL /\ Leaves(l, LL_SORT2(nodes, head[l]), Sorted(list[l]))

SingleLoopBody ==
  /\ ~NotLooping
  /\ \/ UNCHANGED <<nodes, head, list>>
     \/ Leaves(1, LL_DELETE2(nodes, head[1], loop.el), Without(list[1], loop.el))
     \/ LET removed == LL_DELETE2(nodes, head[1], loop.el)
        IN Moved(removed, LL_PREPEND2(removed.n, head[2], loop.el))
  /\ LoopStep(loop.tmp = NULL)

SingleNext ==
  \/ /\ NotLooping
     /\ \/ \E l \in List, e \in Node : Free(e) /\ SingleAdd(l, e)
        \/ \E l \in List, e \in Node : head[l] # NULL /\ SingleDelete(l, e)
        \/ \E l \in List, e, add \in Node : InList(e, l) /\ Free(add) /\ SingleExchange(l, e, add)
        \/ SingleConcat
        \/ \E l \in List : SingleSort(l)
     /\ UNCHANGED loop
  \/ LoopBegin(NULL)
  \/ SingleLoopBody

-----------------------------------------------------------------------------
(***************************************************************************)
(* Walking a list meets the nodes that were put into it, in their order,   *)
(* and counts and finds them, whatever old pointers the nodes brought.     *)
(***************************************************************************)
LL_Faithful ==
  \A l \in List :
    /\ LL_FOREACH2(nodes, head[l]) = list[l]
    /\ LL_COUNT2(nodes, head[l]) = Len(list[l])
    /\ \A v \in Range(Key) :
         LL_SEARCH2(nodes, head[l], v) = FirstWith(list[l], Key, v)
=============================================================================
