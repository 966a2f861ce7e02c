------------------------------- MODULE Bitmap -------------------------------
(***************************************************************************)
(* Bitmaps (lib/kernel/bitmap.c): an array of ELEM_BITS-bit elements that  *)
(* stands for a set of bits.  Palloc uses a bitmap as that set; here are   *)
(* the elements and the loops.                                             *)
(***************************************************************************)
EXTENDS Integers, Sequences, SequencesExt, Bitwise, FiniteSets

CONSTANTS ELEM_BITS,       \* bits of an element, 32
          BIT_CNT          \* bits of the bitmap

VARIABLES elems,           \* b->bits; <<>> before bitmap_create()
          bset             \* the bits that are set, as the caller sees them

bitmapvars == <<elems, bset>>

Idx == 0 .. BIT_CNT - 1
ERROR == -1                \* BITMAP_ERROR

elem_idx(i) == (i \div ELEM_BITS) + 1
bit_mask(i) == 2^(i % ELEM_BITS)
word_cnt == (BIT_CNT + ELEM_BITS - 1) \div ELEM_BITS

BitmapInit == elems = <<>> /\ bset = {}

----------------------------------------------------------------------------
(* Single bits: one OR, AND or XOR instruction on the element *)

mark(b, i) == [b EXCEPT ![elem_idx(i)] = @ | bit_mask(i)]
reset(b, i) == [b EXCEPT ![elem_idx(i)] = @ & (2^ELEM_BITS - 1 - bit_mask(i))]

flip(b, i) == [b EXCEPT ![elem_idx(i)] = @ ^^ bit_mask(i)]

set(b, i, value) == IF value THEN mark(b, i) ELSE reset(b, i)
test(b, i) == b[elem_idx(i)] & bit_mask(i) # 0

\* bitmap_set_multiple()
set_multiple(b, start, cnt, value) ==
  FoldLeft(LAMBDA bits, i : set(bits, start + i - 1, value), b, [i \in 1 .. cnt |-> i])

\* bitmap_create(): malloc() leaves anything in the elements, and the bits
\* after the last stay as they are.
bitmap_create(garbage) ==
  /\ elems = <<>>
  /\ elems' = set_multiple(garbage, 0, BIT_CNT, FALSE)
  /\ bset' = {}

\* One of its two malloc()s returns a null pointer: there is no bitmap.
bitmap_create_fails ==
  /\ elems = <<>>
  /\ UNCHANGED bitmapvars

bitmap_destroy ==
  /\ elems # <<>>
  /\ elems' = <<>> /\ bset' = {}

bitmap_set(i, value) ==
  /\ elems # <<>>
  /\ elems' = set(elems, i, value)
  /\ bset' = IF value THEN bset \cup {i} ELSE bset \ {i}

bitmap_flip(i) ==
  /\ elems # <<>>
  /\ elems' = flip(elems, i)
  /\ bset' = IF i \in bset THEN bset \ {i} ELSE bset \cup {i}

----------------------------------------------------------------------------
(* Several bits.  The range is inside the bitmap, as the code asserts. *)

count(b, start, cnt, value) ==
  FoldLeft(LAMBDA n, i : IF test(b, start + i - 1) = value THEN n + 1 ELSE n, 0, [i \in 1 .. cnt |-> i])

contains(b, start, cnt, value) == \E i \in 0 .. cnt - 1 : test(b, start + i) = value

\* Mutation: the last group is not looked at.
last_group_before(cnt) == BIT_CNT - cnt - 1

last_group(cnt) == BIT_CNT - cnt

\* The scan loop, from bit I on.
RECURSIVE scan_from(_, _, _, _)
scan_from(b, i, cnt, value) ==
  CASE i > last_group(cnt) -> ERROR
    [] ~contains(b, i, cnt, ~value) -> i
    [] OTHER -> scan_from(b, i + 1, cnt, value)

scan(b, start, cnt, value) == IF cnt <= BIT_CNT THEN scan_from(b, start, cnt, value) ELSE ERROR

bitmap_set_multiple(start, cnt, value) ==
  /\ elems # <<>>
  /\ elems' = set_multiple(elems, start, cnt, value)
  /\ bset' = IF value THEN bset \cup (start .. start + cnt - 1) ELSE bset \ (start .. start + cnt - 1)

bitmap_scan_and_flip(start, cnt, value) ==
  LET idx == scan(elems, start, cnt, value)
      group == idx .. idx + cnt - 1
  IN /\ elems # <<>>
     /\ elems' = IF idx = ERROR THEN elems ELSE set_multiple(elems, idx, cnt, ~value)
     /\ bset' = IF idx = ERROR THEN bset ELSE IF value THEN bset \ group ELSE bset \cup group
   
BitmapNext ==
  \/ \E garbage \in [1 .. word_cnt -> {0, 2^ELEM_BITS - 1}] : bitmap_create(garbage)
  \/ bitmap_create_fails \/ bitmap_destroy
  \/ \E i \in Idx, value \in BOOLEAN : bitmap_set(i, value)
  \/ \E i \in Idx : bitmap_flip(i)
  \/ \E start \in 0 .. BIT_CNT, cnt \in 0 .. BIT_CNT + 1, value \in BOOLEAN :
       \/ bitmap_scan_and_flip(start, cnt, value)
       \/ start + cnt <= BIT_CNT /\ bitmap_set_multiple(start, cnt, value)

----------------------------------------------------------------------------
(* Properties *)

\* The elements hold exactly the bits that the calls have set, whatever was in
\* their memory before: an operation on a bit leaves the others of its element.
BitsRight == elems # <<>> => \A i \in Idx : test(elems, i) <=> i \in bset

\* A scan returns the first group of CNT bits at or after START that all have
\* the value, and BITMAP_ERROR exactly if there is none; a count and a test of
\* a range agree with the set of bits.
QueriesRight ==
  elems # <<>> =>
    \A start \in 0 .. BIT_CNT, cnt \in 0 .. BIT_CNT + 1, value \in BOOLEAN :
      LET has(i) == (i \in bset) = value
          group(i) == i + cnt <= BIT_CNT /\ \A k \in i .. i + cnt - 1 : has(k)
          range == start .. start + cnt - 1
          found == scan(elems, start, cnt, value)
      IN /\ IF found = ERROR THEN \A i \in start .. BIT_CNT : ~group(i)
            ELSE group(found) /\ found >= start /\ \A i \in start .. found - 1 : ~group(i)
         /\ start + cnt <= BIT_CNT =>
              /\ count(elems, start, cnt, value) = Cardinality({i \in range : has(i)})
              /\ contains(elems, start, cnt, value) <=> \E i \in range : has(i)

\* The packed elements are the set of bits that the calls made, and every query
\* answers for that set.
BitmapRight == BitsRight /\ QueriesRight
=============================================================================
