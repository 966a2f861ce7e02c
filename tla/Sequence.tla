------------------------------ MODULE Sequence ------------------------------
(***************************************************************************)
(* What list.h promises: a list is a sequence of elements, no element is   *)
(* in two places, and the operations are the ones on sequences.            *)
(***************************************************************************)
EXTENDS Integers, Sequences, FiniteSets, SequencesExt

CONSTANTS List, Elem, key

VARIABLE lists

SeqInit == lists = [l \in List |-> <<>>]

\* The elements of S in order of their keys, equal ones in the order they had.
Sorted(s) ==
  LET before(i, j) == key[s[i]] < key[s[j]] \/ (key[s[i]] = key[s[j]] /\ i < j)
      order == SetToSortSeq(DOMAIN s, before)
  IN [i \in DOMAIN s |-> s[order[i]]]

\* The positions of S whose element equals the one before.
Repeats(s) == {i \in 2 .. Len(s) : key[s[i]] = key[s[i - 1]]}

Pick(s, I) == LET order == SetToSortSeq(I, LAMBDA i, j : i < j)
              IN [i \in DOMAIN order |-> s[order[i]]]

\* The lists that an operation on LS leaves, one operator for each.  E becomes
\* element I of list L; or it goes into the sorted list L after its equals.
Inserted(ls, l, i, e) == [ls EXCEPT ![l] = InsertAt(@, i, e)]
Ordered(ls, l, e) == [ls EXCEPT ![l] = Sorted(Append(@, e))]

Removed(ls, l, i) == [ls EXCEPT ![l] = RemoveAt(@, i)]

\* Elements I to J - 1 of list L leave it, and what is left of list K has them
\* after its first P elements.
Spliced(ls, l, i, j, k, p) ==
  LET s == ls[l]
      rest == [ls EXCEPT ![l] = SubSeq(s, 1, i - 1) \o SubSeq(s, j, Len(s))]
  IN [rest EXCEPT ![k] = SubSeq(@, 1, p) \o SubSeq(s, i, j - 1) \o SubSeq(@, p + 1, Len(@))]

Reversed(ls, l) == [ls EXCEPT ![l] = Reverse(@)]
SortedList(ls, l) == [ls EXCEPT ![l] = Sorted(@)]

\* Of equal neighbours list L keeps the first, and the lists in D get the others.
Uniqued(ls, l, D) ==
  LET s == ls[l]
      kept == [ls EXCEPT ![l] = Pick(s, DOMAIN s \ Repeats(s))]
  IN [k \in List |-> IF k \in D THEN kept[k] \o Pick(s, Repeats(s)) ELSE kept[k]]

InList(ls) == UNION {Range(ls[l]) : l \in List}

\* The operations on list L that take the lists LS to NEW.
Insert(ls, new, l) ==
  \E e \in (Elem \cap InList(new)) \ InList(ls) :
    \/ \E i \in 1 .. Len(ls[l]) + 1 : new = Inserted(ls, l, i, e)
    \/ Sorted(ls[l]) = ls[l] /\ new = Ordered(ls, l, e)

RemoveAny(ls, new, l) == \E i \in DOMAIN ls[l] : new = Removed(ls, l, i)

Splice(ls, new, l, k) ==
  \E i \in 1 .. Len(ls[l]) + 1 : \E j \in i .. Len(ls[l]) + 1 :
    \E p \in 0 .. Len(ls[k]) - (IF k = l THEN j - i ELSE 0) : new = Spliced(ls, l, i, j, k, p)

Rearrange(ls, new, l) ==
  \/ new = Reversed(ls, l)
  \/ new = SortedList(ls, l)
  \/ \E D \in {{k} : k \in List \ {l}} \cup {{}} : new = Uniqued(ls, l, D)

Operation(ls, new) ==
  \E l \in List :
    \/ Insert(ls, new, l)
    \/ RemoveAny(ls, new, l)
    \/ Rearrange(ls, new, l)
    \/ \E k \in List : Splice(ls, new, l, k)

SeqNext == Operation(lists, lists')

SeqSpec == SeqInit /\ [][SeqNext]_lists
=============================================================================
