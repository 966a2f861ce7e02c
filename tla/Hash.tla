-------------------------------- MODULE Hash --------------------------------
(***************************************************************************)
(* Hash tables (lib/kernel/hash.c).  A bucket is the sequence of its       *)
(* elements: what the pointers of its list do is the matter of Lists.  Any *)
(* malloc() in rehash() may fail.                                          *)
(***************************************************************************)
EXTENDS Integers, Sequences, FiniteSets, SequencesExt, Bitwise

CONSTANTS HElem,                  \* elements
          hkey,                   \* the key of an element, for less()
          hash,                   \* the hash value of a key
          FEW_BUCKETS,            \* 4 in the code: the least number of buckets
          BEST_ELEMS_PER_BUCKET,  \* 2 in the code
          NoElem                  \* NULL

VARIABLES buckets,                \* a function from 0 .. bucket_cnt - 1
          elem_cnt,
          returned,               \* what the last operation returned
          iter,                   \* an iterator, or none
          visited                 \* the elements it has returned

hashvars == <<buckets, elem_cnt, returned, iter, visited>>

bucket_cnt == Cardinality(DOMAIN buckets)

NoIter == [bucket |-> 0, pos |-> -1]

Empty(n) == [i \in 0 .. n - 1 |-> <<>>]

HashInit ==
  /\ buckets = Empty(FEW_BUCKETS) /\ elem_cnt = 0
  /\ returned = NoElem /\ iter = NoIter /\ visited = <<>>

\* hash (e) & (bucket_cnt - 1)
bucket_of(e, n) == hash[hkey[e]] & (n - 1)

\* find_bucket() and find_elem(): the first equal element of E's bucket.
find_elem(b, e) ==
  LET s == b[bucket_of(e, Cardinality(DOMAIN b))]
      I == {i \in DOMAIN s : hkey[s[i]] = hkey[e]}
  IN IF I = {} THEN NoElem ELSE s[Min(I)]

insert_elem(b, e) == [b EXCEPT ![bucket_of(e, Cardinality(DOMAIN b))] = <<e>> \o @]

remove_elem(b, e) ==
  [i \in DOMAIN b |-> SelectSeq(b[i], LAMBDA x : x # e)]

turn_off_least_1bit(x) == x & (x - 1)

is_power_of_2(x) == x # 0 /\ turn_off_least_1bit(x) = 0

RECURSIVE round_down(_)
\* The loop that makes the number of buckets a power of 2.
round_down(n) == IF is_power_of_2(n) THEN n ELSE round_down(turn_off_least_1bit(n))

new_bucket_cnt(cnt) == round_down(Max({cnt \div BEST_ELEMS_PER_BUCKET, FEW_BUCKETS}))

\* Mutation: elements keep the number of their bucket.
moved_unhashed(b, n) == [i \in 0 .. n - 1 |-> IF i \in DOMAIN b THEN b[i] ELSE <<>>]

\* Every element, bucket by bucket, to the front of its new bucket.
moved(b, n) ==
  FoldLeft(insert_elem, Empty(n),
           FlattenSeq([i \in 1 .. Cardinality(DOMAIN b) |-> b[i - 1]]))

\* rehash() of buckets B that hold CNT elements; malloc() may fail.
rehash(b, cnt) ==
  LET n == new_bucket_cnt(cnt)
  IN IF n = Cardinality(DOMAIN b) THEN {b} ELSE {b, moved(b, n)}

\* The end of an operation: buckets b with cnt elements, then rehash().  It
\* invalidates iterators.
finish(b, cnt, old) ==
  /\ elem_cnt' = cnt
  /\ buckets' \in rehash(b, cnt)
  /\ returned' = old
  /\ iter' = NoIter /\ visited' = <<>>

\* An element that is in the table is not given to it again.
InTable == UNION {Range(buckets[i]) : i \in DOMAIN buckets}

hash_insert(new) ==
  LET old == find_elem(buckets, new) IN
  /\ new \notin InTable
  /\ IF old = NoElem THEN finish(insert_elem(buckets, new), elem_cnt + 1, old)
     ELSE finish(buckets, elem_cnt, old)

hash_replace(new) ==
  LET old == find_elem(buckets, new) IN
  /\ new \notin InTable
  /\ IF old = NoElem THEN finish(insert_elem(buckets, new), elem_cnt + 1, old)
     ELSE finish(insert_elem(remove_elem(buckets, old), new), elem_cnt, old)

hash_delete(e) ==
  LET found == find_elem(buckets, e) IN
  IF found = NoElem THEN returned' = NoElem /\ UNCHANGED <<buckets, elem_cnt, iter, visited>>
  ELSE finish(remove_elem(buckets, found), elem_cnt - 1, found)

\* The buckets stay as many as they are.
hash_clear ==
  /\ buckets' = Empty(bucket_cnt) /\ elem_cnt' = 0
  /\ returned' = NoElem /\ iter' = NoIter /\ visited' = <<>>

\* An iterator stands on position POS of a bucket; 0 is the bucket's head.
hash_first ==
  /\ iter' = [bucket |-> 0, pos |-> 0] /\ visited' = <<>>
  /\ UNCHANGED <<buckets, elem_cnt, returned>>

\* The first bucket after B that is not empty, or bucket_cnt.
next_bucket(b) ==
  LET later == {i \in b + 1 .. bucket_cnt - 1 : buckets[i] # <<>>}
  IN IF later = {} THEN bucket_cnt ELSE Min(later)

hash_next ==
  /\ iter.pos >= 0 /\ iter.bucket < bucket_cnt
  /\ iter' = IF iter.pos < Len(buckets[iter.bucket])
             THEN [iter EXCEPT !.pos = @ + 1]
             ELSE [bucket |-> next_bucket(iter.bucket), pos |-> 1]
  /\ returned' = IF iter'.bucket = bucket_cnt THEN NoElem ELSE buckets[iter'.bucket][iter'.pos]
  /\ visited' = IF returned' = NoElem THEN visited ELSE Append(visited, returned')
  /\ UNCHANGED <<buckets, elem_cnt>>

HashNext ==
  \/ \E e \in HElem : hash_insert(e) \/ hash_replace(e) \/ hash_delete(e)
  \/ hash_clear
  \/ hash_first
  \/ hash_next

----------------------------------------------------------------------------
(* Properties *)

\* Every element is in the bucket where find_bucket() looks for it, at most
\* one of equal elements is in the table, elem_cnt counts them, and the number
\* of buckets is a power of 2, across growing, shrinking and failed rehashes.
HashOK ==
  /\ is_power_of_2(bucket_cnt) /\ bucket_cnt >= FEW_BUCKETS
  /\ \A i \in DOMAIN buckets : \A e \in Range(buckets[i]) :
       i = hash[hkey[e]] % bucket_cnt
  /\ \A d, e \in InTable : hkey[d] = hkey[e] => d = e
  /\ elem_cnt = Cardinality(InTable)
  /\ elem_cnt = Len(FlattenSeq([i \in 1 .. bucket_cnt |-> buckets[i - 1]]))

\* hash_next() returns every element once before it returns a null pointer.
IterationComplete ==
  /\ Cardinality(Range(visited)) = Len(visited)
  /\ iter.bucket = bucket_cnt => Range(visited) = InTable

KeyMap == [k \in {hkey[e] : e \in HElem} |->
             IF \E e \in InTable : hkey[e] = k THEN CHOOSE e \in InTable : hkey[e] = k ELSE NoElem]

\* The table is a map from keys to elements: an operation changes the entry of
\* its own key only, and a lookup, done at the start of every operation,
\* returns the element that was there.  HashOK and IterationComplete hold
\* throughout.
IsMap ==
  /\ [](HashOK /\ IterationComplete)
  /\ [][\/ KeyMap' = KeyMap
        \/ \A k \in DOMAIN KeyMap : KeyMap'[k] = NoElem      \* hash_clear()
        \/ \E k \in DOMAIN KeyMap :
             /\ \A j \in DOMAIN KeyMap \ {k} : KeyMap'[j] = KeyMap[j]
             /\ returned' = KeyMap[k]]_hashvars
=============================================================================
