-------------------------------- MODULE Lists --------------------------------
(***************************************************************************)
(* Clients of lib/kernel/list.c call its operations in every order that    *)
(* their preconditions allow.  An element that has left its list keeps its *)
(* old pointers, as in the code.                                           *)
(***************************************************************************)
EXTENDS ListOps

CONSTANT MaxOut               \* bound: elements that are in no list

VARIABLE mem                  \* next and prev of every node

NoMem == [next |-> [n \in Node |-> NULL], prev |-> [n \in Node |-> NULL]]

ListsInit == mem = FoldSet(LAMBDA l, m : list_init(m, l), NoMem, List)

Listed(l) == Range(Forward(mem, l))

\* Elements that are in no list.
Out == Elem \ UNION {Listed(l) : l \in List}

Insert(l, e) ==
  \/ mem' = list_push_front(mem, l, e)
  \/ mem' = list_push_back(mem, l, e)
  \/ \E before \in Listed(l) : mem' = list_insert(mem, before, e)
  \/ /\ is_sorted(mem, list_begin(mem, l), list_end(l))
     /\ mem' = list_insert_ordered(mem, l, e)

\* list_remove(), list_pop_front() and list_pop_back()
RemoveAny(l) ==
  /\ Cardinality(Out) < MaxOut
  /\ \E e \in Listed(l) : mem' = list_remove(mem, e)

\* [first, end) is a range of list L, and BEFORE is outside it.
Splice(l, k) ==
  LET s == Append(Forward(mem, l), list_end(l)) IN
  \E i \in DOMAIN s : \E j \in i .. Len(s) :
    \E before \in (Listed(k) \cup {list_end(k)}) \ {s[n] : n \in i .. j - 1} :
      mem' = list_splice(mem, before, s[i], s[j])

Rearrange(l) ==
  \/ mem' = list_reverse(mem, l)
  \/ mem' = list_sort(mem, l)
  \/ \E d \in List \ {l} : mem' = list_unique(mem, l, d)
  \/ Out = {} /\ mem' = list_unique(mem, l, NULL)

ListsNext ==
  \E l \in List :
    \/ \E e \in Out : Insert(l, e)
    \/ RemoveAny(l)
    \/ \E k \in List : Splice(l, k)
    \/ Rearrange(l)

----------------------------------------------------------------------------
(* Properties *)

\* Going back from the tail meets the elements of a list in the opposite order
\* and ends at the head, whatever old pointers removed elements still hold.
LinksAgree ==
  \A l \in List :
    LET s == <<head(l)>> \o Forward(mem, l) \o <<tail(l)>>
    IN /\ \A i \in 1 .. Len(s) - 1 : mem.next[s[i]] = s[i + 1] /\ mem.prev[s[i + 1]] = s[i]
       /\ is_head(mem, head(l)) /\ is_tail(mem, tail(l))
       /\ \A e \in Listed(l) : is_interior(mem, e)

\* list_max() and list_min() return the first of the largest or smallest
\* elements, and the tail of an empty list.
ExtremesFirst ==
  \A l \in List :
    LET s == Forward(mem, l)
        first(P(_, _)) == CHOOSE i \in DOMAIN s :
                            /\ \A j \in DOMAIN s : ~P(s[i], s[j])
                            /\ \A j \in 1 .. i - 1 : P(s[j], s[i])
    IN IF s = <<>> THEN list_max(mem, l) = tail(l) /\ list_min(mem, l) = tail(l)
       ELSE /\ list_max(mem, l) = s[first(LAMBDA x, y : key[x] < key[y])]
            /\ list_min(mem, l) = s[first(LAMBDA x, y : key[x] > key[y])]

Seqs(m) == [l \in List |-> Forward(m, l)]

Abstract == INSTANCE Sequence WITH lists <- Seqs(mem)

\* The place of NODE, an element or the tail, in list L of LS.
Place(ls, l, node) == IF node = tail(l) THEN Len(ls[l]) + 1
                      ELSE CHOOSE i \in DOMAIN ls[l] : ls[l][i] = node

\* Each call on the lists there are now leaves exactly the sequences that list.h
\* describes for that call and its arguments.
InsertionsExact ==
  \A l \in List, e \in Out :
    LET now == Seqs(mem) IN
    /\ Seqs(list_push_front(mem, l, e)) = Abstract!Inserted(now, l, 1, e)
    /\ \A before \in Listed(l) \cup {list_end(l)} :
         Seqs(list_insert(mem, before, e)) = Abstract!Inserted(now, l, Place(now, l, before), e)
    /\ Seqs(list_push_back(mem, l, e)) = Abstract!Inserted(now, l, Len(now[l]) + 1, e)
    /\ is_sorted(mem, list_begin(mem, l), list_end(l)) =>
         Seqs(list_insert_ordered(mem, l, e)) = Abstract!Ordered(now, l, e)

SplicesExact ==
  \A l, k \in List :
    LET now == Seqs(mem)
        s == Append(now[l], list_end(l))
    IN \A i \in DOMAIN s : \A j \in i .. Len(s) :
         LET moved == {s[n] : n \in i .. j - 1}
             left == [now EXCEPT ![k] = SelectSeq(@, LAMBDA e : e \notin moved)]
         IN \A before \in (Listed(k) \cup {list_end(k)}) \ moved :
              Seqs(list_splice(mem, before, s[i], s[j])) =
                Abstract!Spliced(now, l, i, j, k, Place(left, k, before) - 1)

CallsExact ==
  /\ InsertionsExact
  /\ SplicesExact
  /\ \A l \in List :
       LET now == Seqs(mem) IN
       /\ \A i \in DOMAIN now[l] : Seqs(list_remove(mem, now[l][i])) = Abstract!Removed(now, l, i)
       /\ Seqs(list_reverse(mem, l)) = Abstract!Reversed(now, l)
       /\ Seqs(list_sort(mem, l)) = Abstract!SortedList(now, l)
       /\ Seqs(list_unique(mem, l, NULL)) = Abstract!Uniqued(now, l, {})
       /\ \A d \in List \ {l} : Seqs(list_unique(mem, l, d)) = Abstract!Uniqued(now, l, {d})
=============================================================================
