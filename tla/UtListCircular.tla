--------------------------- MODULE UtListCircular ---------------------------
(* The circular doubly linked lists of utlist.h, the CDL_ macros. *)
EXTENDS UtList

CDL_FOREACH2(n, h) == WalkTo(n, h, h)
CDL_COUNT2(n, h) == Len(CDL_FOREACH2(n, h))

CDL_PREPEND2(n, h, add) ==
  IF h = NULL
    THEN Result(SetNext(SetPrev(n, add, add), add, add), add)
    ELSE LET n1 == SetPrev(SetNext(SetPrev(n, add, n.prev[h]), add, h), h, add)
         IN Result(SetNext(n1, n1.prev[add], add), add)

(* Mutant: the node before the one that is removed still leads to it. *)
DeleteOneWay(n, h, del) ==
  IF h = del /\ n.next[h] = h
    THEN Result(n, NULL)
    ELSE Result(SetPrev(n, n.next[del], n.prev[del]), IF h = del THEN n.next[del] ELSE h)

CDL_DELETE2(n, h, del) ==
  IF h = del /\ n.next[h] = h
    THEN Result(n, NULL)
    ELSE LET n1 == SetPrev(n, n.next[del], n.prev[del])
         IN Result(SetNext(n1, n1.prev[del], n1.next[del]), IF h = del THEN n.next[del] ELSE h)

\* The first node that cmp, or the comparison of the field, accepts.
CDL_SEARCH2(n, h, val) == FirstWith(CDL_FOREACH2(n, h), Key, val)

CDL_REPLACE_ELEM(n, h, el, add) ==
  IF n.next[el] = el
    THEN Result(SetPrev(SetNext(n, add, add), add, add), add)
    ELSE LET n1 == SetPrev(SetNext(n, add, n.next[el]), add, n.prev[el])
             n2 == SetPrev(n1, n1.next[add], add)
         IN Result(SetNext(n2, n2.prev[add], add), IF h = el THEN add ELSE h)

CDL_PREPEND_ELEM(n, h, el, add) ==
  LET n1 == SetPrev(SetPrev(SetNext(n, add, el), add, n.prev[el]), el, add)
  IN Result(SetNext(n1, n1.prev[add], add), IF h = el THEN add ELSE h)

CDL_SORT2(n, h) == SortFrom(n, h, "circular")

-----------------------------------------------------------------------------
CircularAdd(l, e) == Leaves(l, CDL_PREPEND2(nodes, head[l], e), <<e>> \o list[l])

CircularDelete(l, e) == Leaves(l, CDL_DELETE2(nodes, head[l], e), Without(list[l], e))

CircularExchange(l, e, add) ==
  \/ Leaves(l, CDL_REPLACE_ELEM(nodes, head[l], e, add), InsteadOf(list[l], e, add))
  \/ Leaves(l, CDL_PREPEND_ELEM(nodes, head[l], e, add), InsertBefore(list[l], e, add))

CircularSort(l) == head[l] # NULL /\ Leaves(l, CDL_SORT2(nodes, head[l]), Sorted(list[l]))

\* The loop ends at the node that was the tail when it began.
CircularLoopBody ==
  /\ ~NotLooping
  /\ LET removed == CDL_DELETE2(nodes, head[1], loop.el)
     IN \/ UNCHANGED <<nodes, head, list>>
        \/ Leaves(1, removed, Without(list[1], loop.el))
        \/ Moved(removed, CDL_PREPEND2(removed.n, head[2], loop.el))
  /\ LoopStep(loop.el = loop.last)

CircularNext ==
  \/ /\ NotLooping
     /\ \/ \E l \in List, e \in Node : Free(e) /\ CircularAdd(l, e)
        \/ \E l \in List, e \in Node : InList(e, l) /\ CircularDelete(l, e)
        \/ \E l \in List, e, add \in Node : InList(e, l) /\ Free(add) /\ CircularExchange(l, e, add)
        \/ \E l \in List : CircularSort(l)
     /\ UNCHANGED loop
  \/ head[1] # NULL /\ LoopBegin(nodes.prev[head[1]])
  \/ CircularLoopBody

-----------------------------------------------------------------------------
(***************************************************************************)
(* Walking round a list from its head meets the nodes that were put into   *)
(* it, in their order, and finds them; prev goes round the other way.      *)
(***************************************************************************)
CDL_Faithful ==
  \A l \in List :
    LET s == list[l]
    IN /\ CDL_FOREACH2(nodes, head[l]) = s
       /\ CDL_COUNT2(nodes, head[l]) = Len(s)
       /\ \A i \in DOMAIN s :
            /\ nodes.next[s[i]] = s[(i % Len(s)) + 1]
            /\ nodes.prev[s[(i % Len(s)) + 1]] = s[i]
       /\ \A v \in Range(Key) :
            CDL_SEARCH2(nodes, head[l], v) = FirstWith(s, Key, v)
=============================================================================
