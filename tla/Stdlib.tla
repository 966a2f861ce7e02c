------------------------------- MODULE Stdlib -------------------------------
(***************************************************************************)
(* Sorting, searching and number parsing (lib/stdlib.c), one step of each  *)
(* loop at a time.                                                         *)
(*                                                                         *)
(* An element is a pair of a key, which the comparison function looks at,  *)
(* and an identity, which it does not.                                     *)
(***************************************************************************)
EXTENDS Integers, Sequences, SequencesExt

CONSTANTS Key,             \* keys, integers
          MaxCnt,          \* bound: elements of an array
          INT_BITS         \* bits of an int

VARIABLES arr, unsorted,      \* the array, and as it was passed to sort()
          sphase,          \* where sort() or binary_search() is
          heap_i,          \* sort()'s loop index
          root,            \* heapify()'s I; 0: not in heapify()
          bkey, first, last, found,   \* binary_search()
          number, parsed   \* atoi()'s argument and result

stdlibvars == <<arr, unsorted, sphase, heap_i, root, bkey, first, last, found, number, parsed>>
searchvars == <<bkey, first, last, found>>
sortvars == <<arr, unsorted, heap_i, root>>
atoivars == <<number, parsed>>

StdlibInit ==
  /\ arr = <<>> /\ unsorted = <<>> /\ sphase = "none"
  /\ heap_i = 0 /\ root = 0
  /\ bkey = 0 /\ first = 0 /\ last = 0 /\ found = 0
  /\ number = <<>> /\ parsed = <<>>

----------------------------------------------------------------------------
(* sort() *)

do_compare(a, i, j) == a[i].key - a[j].key
do_swap(a, i, j) == [a EXCEPT ![i] = a[j], ![j] = a[i]]

\* Elements that heapify() looks at: all while the heap is built, and then those
\* before the ones already in place.
heap_cnt == IF sphase = "build" THEN Len(arr) ELSE heap_i - 1

\* The index of the largest among I and its children.
largest(a, i, cnt) ==
  LET l == IF 2*i <= cnt /\ do_compare(a, 2*i, i) > 0 THEN 2*i ELSE i
  IN IF 2*i + 1 <= cnt /\ do_compare(a, 2*i + 1, l) > 0 THEN 2*i + 1 ELSE l

sort(a) ==
  /\ sphase = "none"
  /\ arr' = a /\ unsorted' = a
  /\ sphase' = "build" /\ heap_i' = Len(a) \div 2 /\ root' = Len(a) \div 2
  /\ UNCHANGED <<searchvars, atoivars>>

\* heapify(): swap with the larger child and go down.
float_down ==
  LET max == largest(arr, root, heap_cnt)
  IN /\ root > 0 /\ max # root
     /\ arr' = do_swap(arr, root, max) /\ root' = max
     /\ UNCHANGED <<unsorted, sphase, heap_i, searchvars, atoivars>>

\* heapify() returns: the next element up, while the heap is built.
build_next ==
  /\ sphase = "build" /\ root > 0 /\ largest(arr, root, heap_cnt) = root
  /\ heap_i' = heap_i - 1 /\ root' = heap_i - 1
  /\ UNCHANGED <<arr, unsorted, sphase, searchvars, atoivars>>

build_done ==
  /\ sphase = "build" /\ heap_i = 0
  /\ sphase' = "sort" /\ heap_i' = Len(arr) + 1
  /\ UNCHANGED <<arr, unsorted, root, searchvars, atoivars>>

\* heapify() returned, or the loop starts: move the largest to the end.
sort_next ==
  /\ sphase = "sort" /\ heap_i > 2
  /\ root > 0 => largest(arr, root, heap_cnt) = root
  /\ heap_i' = heap_i - 1 /\ arr' = do_swap(arr, 1, heap_i - 1)
  /\ root' = 1
  /\ UNCHANGED <<unsorted, sphase, searchvars, atoivars>>

sort_done ==
  /\ sphase = "sort" /\ heap_i <= 2
  /\ root > 0 => largest(arr, root, heap_cnt) = root
  /\ sphase' = "sorted" /\ root' = 0
  /\ UNCHANGED <<arr, unsorted, heap_i, searchvars, atoivars>>

----------------------------------------------------------------------------
(* binary_search() of the sorted array.  FIRST is the index of the first    *)
(* element of the range and LAST that after its last.                       *)

binary_search(key) ==
  /\ sphase = "sorted"
  /\ bkey' = key /\ first' = 1 /\ last' = Len(arr) + 1 /\ found' = 0
  /\ sphase' = "search"
  /\ UNCHANGED <<sortvars, atoivars>>

\* Mutation: the middle stays out of the lower half, too.
lower_half_short(middle) == middle - 1

lower_half(middle) == middle

halve ==
  LET middle == first + (last - first) \div 2
      cmp == bkey - arr[middle].key
  IN /\ sphase = "search" /\ first < last /\ found = 0
     /\ last' = IF cmp < 0 THEN lower_half(middle) ELSE last
     /\ first' = IF cmp > 0 THEN middle + 1 ELSE first
     /\ found' = IF cmp = 0 THEN middle ELSE 0
     /\ UNCHANGED <<sphase, bkey, sortvars, atoivars>>

search_done ==
  /\ sphase = "search" /\ (first >= last \/ found > 0)
  /\ sphase' = "searched"
  /\ UNCHANGED <<searchvars, sortvars, atoivars>>

----------------------------------------------------------------------------
(* atoi() *)

\* The values of an int.  Signed overflow is undefined, so it must not happen.
IntRange == -2^(INT_BITS - 1) .. 2^(INT_BITS - 1) - 1

\* The values that the digit loop goes through, from VALUE.
scan_digits(ds, step(_, _)) ==
  [i \in 0 .. Len(ds) |-> FoldLeft(step, 0, SubSeq(ds, 1, i))]

parse(ds, negative) ==
  LET v == scan_digits(ds, LAMBDA value, d : value * 10 - d)
  IN [values |-> {v[i] : i \in 0 .. Len(ds)},
      value |-> IF negative THEN v[Len(ds)] ELSE -v[Len(ds)]]

digits_of(n) == IF n >= 100 THEN <<n \div 100, (n \div 10) % 10, n % 10>>
                ELSE IF n >= 10 THEN <<n \div 10, n % 10>> ELSE <<n>>

\* The argument is a sign and digits; white space before them is skipped.
atoi(sign, n) ==
  /\ sphase = "none"
  /\ number' = [sign |-> sign, n |-> n]
  /\ parsed' = parse(digits_of(n), sign = "-")
  /\ sphase' = "parsed"
  /\ UNCHANGED <<sortvars, searchvars>>

Arrays == UNION {[1 .. n -> Key] : n \in 0 .. MaxCnt}

StdlibNext ==
  \/ \E a \in Arrays : sort([i \in DOMAIN a |-> [key |-> a[i], id |-> i]])
  \/ float_down \/ build_next \/ build_done \/ sort_next \/ sort_done
  \/ \E k \in Key \cup {k + 1 : k \in Key} : binary_search(k)
  \/ halve \/ search_done
  \/ \E sign \in {"", "+", "-"}, n \in 0 .. 2^(INT_BITS - 1) :
       /\ sign # "-" => n \in IntRange
       /\ atoi(sign, n)

----------------------------------------------------------------------------
(* Properties *)

HeapAt(i, cnt) == \A c \in {2*i, 2*i + 1} : c <= cnt => arr[c].key <= arr[i].key

\* sort() loses and invents no element, every parent but the one that floats
\* down is at least as large as its children, the elements moved to the end are
\* in order and no smaller than the heap, and the result is in order.
SortRight ==
  /\ sphase # "none" => \A id \in DOMAIN unsorted : \E i \in DOMAIN arr : arr[i] = unsorted[id]
  /\ sphase = "build" =>
       \A i \in heap_i + 1 .. Len(arr) : i # root => HeapAt(i, Len(arr))
  /\ sphase = "sort" =>
       /\ \A i \in 1 .. heap_i - 1 : i # root => HeapAt(i, heap_i - 1)
       /\ \A i \in heap_i .. Len(arr), j \in 1 .. Len(arr) : j < i => arr[j].key <= arr[i].key
  /\ sphase \in {"sorted", "search", "searched"} =>
       \A i, j \in DOMAIN arr : i < j => arr[i].key <= arr[j].key

\* binary_search() finds a match if and only if there is one: the range never
\* loses the last place where the key can be.
BinarySearchRight ==
  /\ sphase = "search" => /\ 1 <= first /\ first <= last /\ last <= Len(arr) + 1
                          /\ \A i \in DOMAIN arr : arr[i].key = bkey => i \in first .. last - 1
  /\ sphase = "searched" =>
       IF found = 0 THEN \A i \in DOMAIN arr : arr[i].key # bkey ELSE arr[found].key = bkey

\* atoi() reads every number that an int can hold, the smallest included, and
\* no intermediate value overflows.
AtoiRight ==
  sphase = "parsed" =>
    /\ parsed.value = (IF number.sign = "-" THEN -number.n ELSE number.n)
    /\ parsed.values \subseteq IntRange

\* sort(), binary_search() and atoi() are right at every step.
StdlibRight == SortRight /\ BinarySearchRight /\ AtoiRight
=============================================================================
