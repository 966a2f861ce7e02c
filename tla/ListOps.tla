------------------------------- MODULE ListOps -------------------------------
(***************************************************************************)
(* The doubly linked lists of lib/kernel/list.c, pointer by pointer.  A    *)
(* memory M maps every node to its next and prev; an operation is the      *)
(* memory that it leaves, or the element that it returns.  Every list has  *)
(* a head and a tail node of its own.                                      *)
(***************************************************************************)
EXTENDS Integers, Sequences, FiniteSets, SequencesExt

CONSTANTS List, Elem,
          head(_), tail(_),   \* the nodes that delimit a list
          NULL,
          key                 \* what LESS compares

Node == Elem \cup {head(l) : l \in List} \cup {tail(l) : l \in List}

less(a, b) == key[a] < key[b]

is_head(m, e) == e # NULL /\ m.prev[e] = NULL /\ m.next[e] # NULL
is_interior(m, e) == e # NULL /\ m.prev[e] # NULL /\ m.next[e] # NULL
is_tail(m, e) == e # NULL /\ m.prev[e] # NULL /\ m.next[e] = NULL

\* p->next = q and p->prev = q
set_next(m, p, q) == [m EXCEPT !.next[p] = q]
set_prev(m, p, q) == [m EXCEPT !.prev[p] = q]

list_init(m, l) ==
  LET a == set_next(set_prev(m, head(l), NULL), head(l), tail(l))
  IN set_next(set_prev(a, tail(l), head(l)), tail(l), NULL)

list_begin(m, l) == m.next[head(l)]
list_end(l) == tail(l)
list_rbegin(m, l) == m.prev[tail(l)]
list_next(m, e) == m.next[e]
list_prev(m, e) == m.prev[e]
list_empty(m, l) == list_begin(m, l) = list_end(l)

\* The four assignments, in the order of the code.
list_insert(m, before, e) ==
  LET a == set_next(set_prev(m, e, m.prev[before]), e, before)
      b == set_next(a, a.prev[before], e)
  IN set_prev(b, before, e)

list_push_front(m, l, e) == list_insert(m, list_begin(m, l), e)
list_push_back(m, l, e) == list_insert(m, list_end(l), e)

list_remove(m, e) ==
  LET a == set_next(m, m.prev[e], m.next[e])
  IN set_prev(a, a.next[e], a.prev[e])

list_front(m, l) == m.next[head(l)]
list_back(m, l) == m.prev[tail(l)]

list_splice(m, before, first, end) ==
  IF first = end THEN m
  ELSE LET last == list_prev(m, end)
           a == set_next(m, m.prev[first], m.next[last])
           b == set_prev(a, a.next[last], a.prev[first])
           c == set_next(set_prev(b, first, b.prev[before]), last, before)
           d == set_next(c, c.prev[before], first)
       IN set_prev(d, before, last)

----------------------------------------------------------------------------
RECURSIVE reverse_from(_, _, _)
\* The loop of list_reverse(): swap e->prev and e->next, go to the new e->prev.
reverse_from(m, l, e) ==
  IF e = list_end(l) THEN m
  ELSE reverse_from([next |-> [m.next EXCEPT ![e] = m.prev[e]],
                     prev |-> [m.prev EXCEPT ![e] = m.next[e]]], l, m.next[e])

list_reverse(m, l) ==
  IF list_empty(m, l) THEN m
  ELSE LET a == reverse_from(m, l, list_begin(m, l))
           first == a.prev[tail(l)]
           last == a.next[head(l)]
           b == set_prev(set_next(a, head(l), first), tail(l), last)
       IN set_next(set_prev(b, first, b.next[last]), last, b.prev[first])

RECURSIVE is_sorted(_, _, _)
is_sorted(m, a, b) ==
  IF a = b \/ list_next(m, a) = b THEN TRUE
  ELSE ~less(list_next(m, a), a) /\ is_sorted(m, list_next(m, a), b)

RECURSIVE find_end_of_run(_, _, _)
find_end_of_run(m, a, b) ==
  LET n == list_next(m, a)
  IN IF n # b /\ ~less(n, list_prev(m, n)) THEN find_end_of_run(m, n, b) ELSE n

RECURSIVE inplace_merge(_, _, _, _)
inplace_merge(m, a0, a1b0, b1) ==
  IF a0 = a1b0 \/ a1b0 = b1 THEN m
  ELSE IF less(a1b0, a0)
       THEN inplace_merge(list_splice(m, a0, a1b0, list_next(m, a1b0)), a0, list_next(m, a1b0), b1)
       ELSE inplace_merge(m, list_next(m, a0), a1b0, b1)

RECURSIVE merge_pass(_, _, _, _)
\* One pass of list_sort() from A0 on, and the number of runs it has output.
merge_pass(m, l, a0, runs) ==
  IF a0 = list_end(l) THEN [m |-> m, runs |-> runs]
  ELSE LET a1b0 == find_end_of_run(m, a0, list_end(l))
           b1 == find_end_of_run(m, a1b0, list_end(l))
       IN IF a1b0 = list_end(l) THEN [m |-> m, runs |-> runs + 1]
          ELSE merge_pass(inplace_merge(m, a0, a1b0, b1), l, b1, runs + 1)

RECURSIVE list_sort(_, _)
list_sort(m, l) ==
  LET p == merge_pass(m, l, list_begin(m, l), 0)
  IN IF p.runs > 1 THEN list_sort(p.m, l) ELSE p.m

\* Mutation: an element goes before the elements that equal it.
goes_before_equals(elem, e) == ~less(e, elem)

goes_before(elem, e) == less(elem, e)

RECURSIVE ordered_before(_, _, _, _)
\* The element that list_insert_ordered() inserts before.
ordered_before(m, l, elem, e) ==
  IF e = list_end(l) \/ goes_before(elem, e) THEN e ELSE ordered_before(m, l, elem, list_next(m, e))

list_insert_ordered(m, l, e) == list_insert(m, ordered_before(m, l, e, list_begin(m, l)), e)

RECURSIVE unique_from(_, _, _, _)
\* The loop of list_unique() from ELEM on; D is DUPLICATES, or NULL.
unique_from(m, l, d, elem) ==
  LET next == list_next(m, elem) IN
  IF next = list_end(l) THEN m
  ELSE IF ~less(elem, next) /\ ~less(next, elem)
       THEN LET a == list_remove(m, next)
            IN unique_from(IF d = NULL THEN a ELSE list_push_back(a, d, next), l, d, elem)
       ELSE unique_from(m, l, d, next)

list_unique(m, l, d) == IF list_empty(m, l) THEN m ELSE unique_from(m, l, d, list_begin(m, l))

RECURSIVE walk(_, _, _, _)
\* The elements from E on, up to the tail, as a loop over list_next() meets
\* them, at most N of them.
walk(m, l, e, n) ==
  IF e = list_end(l) \/ e = NULL \/ n = 0 THEN <<>> ELSE <<e>> \o walk(m, l, list_next(m, e), n - 1)

\* What a loop from list_begin() to list_end() visits.  A sound list has no
\* more than Cardinality(Elem) elements; a cycle shows as one element more.
Forward(m, l) == walk(m, l, list_begin(m, l), Cardinality(Elem) + 1)

list_size(m, l) == Len(Forward(m, l))

exceeds(max, e) == less(max, e)

\* The elements that the loops of list_max() and list_min() look at.
others(m, l) == walk(m, l, list_next(m, list_begin(m, l)), Cardinality(Elem))

list_max(m, l) ==
  IF list_empty(m, l) THEN list_end(l)
  ELSE FoldLeft(LAMBDA max, e : IF exceeds(max, e) THEN e ELSE max, list_begin(m, l), others(m, l))

list_min(m, l) ==
  IF list_empty(m, l) THEN list_end(l)
  ELSE FoldLeft(LAMBDA min, e : IF less(e, min) THEN e ELSE min, list_begin(m, l), others(m, l))
=============================================================================
