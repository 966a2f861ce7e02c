---------------------------- MODULE PallocProofs ----------------------------
(***************************************************************************)
(* For pools of any size, any number of threads and any mixture of modes:  *)
(* no page is handed out twice or lost, find_best_fit() takes the tightest *)
(* hole, find_next_fit() the nearest one, and palloc_get_multiple() fails  *)
(* only if no hole is large enough.                                        *)
(***************************************************************************)
EXTENDS Palloc, WellFoundedInduction, TLAPS

\* Most leaves are first-order and Zenon's; arithmetic and the rest are Z3's.
USE ZenonT(30), SMTT(60)

Span(p) == base(p) .. base(p) + bit_cnt(p) - 1

-----------------------------------------------------------------------------
(* The pools and the searches *)

\* The pools lie apart, the kernel's first.
LEMMA Geometry ==
  /\ \A p \in Pool : base(p) \in Nat /\ bit_cnt(p) \in Nat
  /\ base("kernel_pool") + bit_cnt("kernel_pool") <= base("user_pool")
<1>1. free_pages \in Nat /\ user_page_limit \in Nat /\ \A p \in Pool : bit_cnt(p) >= 0
  BY PallocAssumption
<1>2. user_pages \in Nat /\ kernel_pages \in Nat
  BY <1>1 DEF user_pages, kernel_pages
<1>3. \A n \in Nat : bm_pages(n) \in Nat
  BY SMTT(60) DEF bm_pages, bitmap_buf_size, div_round_up, PGSIZE
<1>4. \A p \in Pool : pool_pages(p) \in Nat /\ pool_start(p) \in Nat
  BY <1>2 DEF pool_pages, pool_start, FREE_START
<1>5. \A p \in Pool : base(p) \in Nat /\ bit_cnt(p) \in Nat
  BY <1>1, <1>3, <1>4, SMTT(60) DEF base, bit_cnt
<1>6. base("kernel_pool") + bit_cnt("kernel_pool") = FREE_START + kernel_pages
  <2>1. bm_pages(kernel_pages) \in Nat
    BY <1>2, <1>3
  <2> QED
    BY <1>2, <2>1 DEF base, bit_cnt, pool_start, pool_pages, FREE_START
<1>7. base("user_pool") >= FREE_START + kernel_pages
  <2>1. bm_pages(user_pages) \in Nat
    BY <1>2, <1>3
  <2> QED
    BY <1>2, <2>1 DEF base, pool_start, pool_pages, FREE_START
<1>8. "kernel_pool" \in Pool /\ "user_pool" \in Pool
  BY DEF Pool
<1> QED
  BY <1>2, <1>5, <1>6, <1>7, <1>8 DEF FREE_START

LEMMA Spans_Apart ==
  ASSUME NEW p \in Pool, NEW q \in Pool, p # q
  PROVE  Span(p) \cap Span(q) = {}
  BY Geometry DEF Span, Pool

\* A nonempty set of natural numbers has a least element.
LEMMA Least ==
  ASSUME NEW S \in SUBSET Nat, S # {}
  PROVE  \E i \in S : \A j \in S : i <= j
<1> DEFINE R == {r \in Nat \X Nat : r[1] < r[2]}
<1>1. IsWellFoundedOn(R, Nat)
  BY NatLessThanWellFounded DEF OpToRel
<1>2. PICK i \in S : \A j \in S : ~(<<j, i>> \in R)
  BY <1>1, WFMin
<1>3. ASSUME NEW j \in S PROVE i <= j
  <2>1. j \in Nat /\ i \in Nat /\ <<j, i>> \in Nat \X Nat
    OBVIOUS
  <2>2. ~(<<j, i>>[1] < <<j, i>>[2])
    BY <1>2, <2>1
  <2> QED
    BY <2>1, <2>2
<1> QED
  BY <1>3

\* bitmap_scan() returns the first group of clear bits, and BITMAP_ERROR only if there is none.
LEMMA Scan_First ==
  ASSUME NEW b, NEW size \in Nat, NEW from \in Nat, NEW cnt \in Nat
  PROVE  LET i == bitmap_scan(b, size, from, cnt)
             S == Clear(b, size, from, cnt)
         IN IF S = {} THEN i = BITMAP_ERROR ELSE i \in S /\ \A j \in S : i <= j
<1> DEFINE S == Clear(b, size, from, cnt)
<1>1. S \in SUBSET Nat
  BY SMTT(60) DEF Clear
<1>2. ASSUME S # {} PROVE bitmap_scan(b, size, from, cnt) \in S /\ \A j \in S : bitmap_scan(b, size, from, cnt) <= j
  <2>1. \E i \in S : \A j \in S : i <= j
    BY <1>1, <1>2, Least
  <2> HIDE DEF S
  <2> DEFINE m == CHOOSE i \in S : \A j \in S : i <= j
  <2>2. m \in S /\ \A j \in S : m <= j
    BY <2>1
  <2>3. bitmap_scan(b, size, from, cnt) = m
    BY <1>2 DEF bitmap_scan, S
  <2> HIDE DEF m
  <2> QED
    BY <2>2, <2>3
<1>3. S = {} => bitmap_scan(b, size, from, cnt) = BITMAP_ERROR
  BY DEF bitmap_scan
<1> QED
  BY <1>2, <1>3

LEMMA Scan ==
  ASSUME NEW b, NEW size \in Nat, NEW from \in Nat, NEW cnt \in Nat
  PROVE  LET i == bitmap_scan(b, size, from, cnt)
         IN i = BITMAP_ERROR \/ (i \in from .. size - cnt /\ bitmap_none(b, i, cnt))
<1>1. \A i \in Clear(b, size, from, cnt) : i \in from .. size - cnt /\ bitmap_none(b, i, cnt)
  BY DEF Clear
<1> QED
  BY <1>1, Scan_First

\* From bit i on, free_cnt is the number of clear bits up to a set bit or the end.
LEMMA Free_Cnt ==
  ASSUME NEW p \in Pool, NEW i \in Nat, i < bit_cnt(p)
  PROVE  /\ free_cnt(p, i) \in 0 .. bit_cnt(p) - i
         /\ bitmap_none(used_map[p], i, free_cnt(p, i))
         /\ i + free_cnt(p, i) = bit_cnt(p) \/ i + free_cnt(p, i) \in used_map[p]
<1> DEFINE size == bit_cnt(p)
           S == {j \in i .. size : j = size \/ j \in used_map[p]}
           Good(n) == /\ bitmap_none(used_map[p], i, n)
                      /\ i + n = size \/ i + n \in used_map[p]
<1>1. size \in Nat
  BY Geometry
<1>2. S \in SUBSET Nat /\ size \in S
  BY <1>1
<1>3. PICK m \in S : \A j \in S : m <= j
  BY <1>2, Least
<1>4. m \in i .. size /\ (m = size \/ m \in used_map[p]) /\ m - i \in 0 .. size - i /\ i + (m - i) = m
  BY <1>1
<1>5. bitmap_none(used_map[p], i, m - i)
  <2>1. ASSUME NEW j \in i .. m - 1, j \in used_map[p] PROVE FALSE
    <3>1. j \in S
      BY <1>1, <1>4, <2>1
    <3>2. m <= j
      BY <1>3, <3>1
    <3> QED
      BY <1>1, <1>4, <3>2
  <2>2. Bits(i, m - i) = i .. m - 1
    BY <1>1, <1>4 DEF Bits
  <2> QED
    BY <2>1, <2>2 DEF bitmap_none
<1>6. \E n \in 0 .. size - i : Good(n)
  BY <1>4, <1>5
<1>7. free_cnt(p, i) = CHOOSE n \in 0 .. size - i : Good(n)
  BY DEF free_cnt
<1> HIDE DEF Good, size
<1>8. free_cnt(p, i) \in 0 .. size - i /\ Good(free_cnt(p, i))
  BY <1>6, <1>7
<1> QED
  BY <1>8 DEF Good, size

-----------------------------------------------------------------------------
(* Claims: the blocks that threads have or are about to get or give back, as a  *)
(* function from threads to sets of blocks, and the bitmaps.               *)

Apart(live) ==
  \A c1, c2 \in Client : \A b1 \in live[c1], b2 \in live[c2] :
    (c1 = c2 /\ b1 = b2) \/ Pages(b1) \cap Pages(b2) = {}

Inside(live) == \A c \in Client : \A b \in live[c] : \E p \in Pool : Pages(b) \subseteq Span(p)

\* Page i of pool p is in a block.
Claimed(live, p, i) == \E c \in Client : \E b \in live[c] : base(p) + i \in Pages(b)

Exact(live, used) == \A p \in Pool : \A i \in Bits(0, bit_cnt(p)) : i \in used[p] <=> Claimed(live, p, i)

Claims(live, used) == Apart(live) /\ Inside(live) /\ Exact(live, used)

Maps == {u \in [Pool -> SUBSET Int] : \A p \in Pool : u[p] \subseteq Bits(0, bit_cnt(p))}

\* The block of CNT pages at bit i of pool p.
block_at(p, i, cnt) == [page |-> base(p) + i, cnt |-> cnt]

LEMMA Block_At ==
  ASSUME NEW p \in Pool, NEW cnt \in 1 .. MaxCnt, NEW i \in 0 .. bit_cnt(p) - cnt
  PROVE  /\ block_at(p, i, cnt) \in Block
         /\ Pages(block_at(p, i, cnt)) \subseteq Span(p)
         /\ Bits(i, cnt) \subseteq Bits(0, bit_cnt(p))
         /\ base(p) + i \in Pages(block_at(p, i, cnt))
         /\ \A j \in Bits(0, bit_cnt(p)) : base(p) + j \in Pages(block_at(p, i, cnt)) <=> j \in Bits(i, cnt)
<1>1. base(p) \in Nat /\ bit_cnt(p) \in Nat /\ MaxCnt \in Nat /\ cnt \in Nat /\ i \in Nat
  BY Geometry, PallocAssumption
<1>2. Pages(block_at(p, i, cnt)) = base(p) + i .. base(p) + i + cnt - 1
  BY DEF Pages, block_at
<1>3. block_at(p, i, cnt) \in Block
  BY <1>1 DEF block_at, Block
<1> QED
  BY <1>1, <1>2, <1>3 DEF Span, Bits

\* Pages of a block that lies in another pool are none of p's.
LEMMA Elsewhere ==
  ASSUME NEW live, Inside(live), NEW c \in Client, NEW b \in live[c]
  PROVE  \E q \in Pool : Pages(b) \subseteq Span(q) /\ \A p \in Pool \ {q} : Pages(b) \cap Span(p) = {}
<1>1. PICK q \in Pool : Pages(b) \subseteq Span(q)
  BY DEF Inside
<1>2. \A p \in Pool \ {q} : Span(q) \cap Span(p) = {}
  BY Spans_Apart
<1> QED
  BY <1>1, <1>2

\* A claim to clear pages, with its bits set, disturbs no other.
LEMMA New_Claim ==
  ASSUME NEW live \in [Client -> SUBSET Block], NEW used \in Maps, Claims(live, used),
         NEW c \in Client, NEW p \in Pool, NEW cnt \in 1 .. MaxCnt, NEW i \in 0 .. bit_cnt(p) - cnt,
         bitmap_none(used[p], i, cnt)
  PROVE  LET b == block_at(p, i, cnt)
             live2 == [live EXCEPT ![c] = @ \cup {b}]
             used2 == [used EXCEPT ![p] = @ \cup Bits(i, cnt)]
         IN b \notin live[c] /\ live2 \in [Client -> SUBSET Block] /\ used2 \in Maps /\ Claims(live2, used2)
<1> DEFINE b == block_at(p, i, cnt)
           live2 == [live EXCEPT ![c] = @ \cup {b}]
           used2 == [used EXCEPT ![p] = @ \cup Bits(i, cnt)]
<1>1. /\ b \in Block /\ Pages(b) \subseteq Span(p) /\ Bits(i, cnt) \subseteq Bits(0, bit_cnt(p))
      /\ base(p) + i \in Pages(b)
      /\ \A j \in Bits(0, bit_cnt(p)) : base(p) + j \in Pages(b) <=> j \in Bits(i, cnt)
  BY Block_At
<1>2. base(p) \in Nat /\ bit_cnt(p) \in Nat
  BY Geometry
<1>3. used \in [Pool -> SUBSET Int] /\ \A q \in Pool : used[q] \subseteq Bits(0, bit_cnt(q))
  BY DEF Maps
<1> HIDE DEF b
<1>4. ASSUME NEW d \in Client, NEW a \in live[d] PROVE Pages(a) \cap Pages(b) = {}
  <2>1. PICK q \in Pool : Pages(a) \subseteq Span(q) /\ \A r \in Pool \ {q} : Pages(a) \cap Span(r) = {}
    BY <1>4, Elsewhere DEF Claims
  <2>2. CASE q # p
    BY <1>1, <2>1, <2>2
  <2>3. CASE q = p
    <3>1. ASSUME NEW n \in Pages(a), n \in Pages(b) PROVE FALSE
      <4>1. n \in Span(p)
        BY <2>1, <2>3, <3>1
      <4> DEFINE j == n - base(p)
      <4>2. j \in Bits(0, bit_cnt(p)) /\ base(p) + j = n
        BY <1>2, <4>1 DEF Span, Bits
      <4>3. j \in Bits(i, cnt)
        BY <1>1, <3>1, <4>2
      <4>4. Claimed(live, p, j)
        BY <1>4, <3>1, <4>2 DEF Claimed
      <4>5. j \in used[p]
        BY <4>2, <4>4 DEF Claims, Exact
      <4> QED
        BY <4>3, <4>5 DEF bitmap_none
    <3> QED
      BY <3>1
  <2> QED
    BY <2>2, <2>3
<1>5. b \notin live[c]
  BY <1>1, <1>4
<1>6. /\ live2 \in [Client -> SUBSET Block] /\ live2[c] = live[c] \cup {b}
      /\ \A d \in Client \ {c} : live2[d] = live[d]
  BY <1>1
<1>7. /\ used2 \in [Pool -> SUBSET Int] /\ used2[p] = used[p] \cup Bits(i, cnt)
      /\ \A q \in Pool \ {p} : used2[q] = used[q]
  <2>1. Bits(i, cnt) \subseteq Int
    BY <1>1, <1>2 DEF Bits
  <2> QED
    BY <1>3, <2>1
<1>8. used2 \in Maps
  BY <1>1, <1>3, <1>7 DEF Maps
<1> HIDE DEF live2, used2
<1>9. Apart(live2)
  <2>1. ASSUME NEW c1 \in Client, NEW c2 \in Client, NEW b1 \in live2[c1], NEW b2 \in live2[c2]
        PROVE  (c1 = c2 /\ b1 = b2) \/ Pages(b1) \cap Pages(b2) = {}
    <3>1. b1 \in live[c1] \/ (c1 = c /\ b1 = b)
      BY <1>6
    <3>2. b2 \in live[c2] \/ (c2 = c /\ b2 = b)
      BY <1>6
    <3>3. CASE b1 \in live[c1] /\ b2 \in live[c2]
      BY <3>3 DEF Claims, Apart
    <3>4. CASE b1 \in live[c1] /\ b2 = b
      BY <1>4, <3>4
    <3>5. CASE b1 = b /\ b2 \in live[c2]
      <4>1. Pages(b2) \cap Pages(b) = {}
        BY <1>4, <3>5
      <4> QED
        BY <3>5, <4>1
    <3> QED
      BY <3>1, <3>2, <3>3, <3>4, <3>5
  <2> QED
    BY <2>1 DEF Apart
<1>10. Inside(live2)
  BY <1>1, <1>6 DEF Claims, Inside
<1>11. ASSUME NEW q \in Pool, NEW j \in Bits(0, bit_cnt(q))
       PROVE  j \in used2[q] <=> Claimed(live2, q, j)
  <2>1. j \in used[q] <=> Claimed(live, q, j)
    BY <1>11 DEF Claims, Exact
  <2>2. Claimed(live2, q, j) <=> Claimed(live, q, j) \/ base(q) + j \in Pages(b)
    BY <1>6 DEF Claimed
  <2>3. CASE q = p
    BY <1>1, <1>7, <2>1, <2>2, <2>3
  <2>4. CASE q # p
    <3>1. base(q) + j \in Span(q)
      BY Geometry DEF Span, Bits
    <3>2. base(q) + j \notin Pages(b)
      BY <1>1, <2>4, <3>1, Spans_Apart
    <3> QED
      BY <1>7, <2>1, <2>2, <2>4, <3>2
  <2> QED
    BY <2>3, <2>4
<1>12. Claims(live2, used2)
  BY <1>9, <1>10, <1>11 DEF Claims, Exact
<1> QED
  BY <1>5, <1>6, <1>8, <1>12 DEF b, live2, used2

\* Giving up a claim and clearing its bits leaves the others' bits set.
LEMMA Dropped_Claim ==
  ASSUME NEW live \in [Client -> SUBSET Block], NEW used \in Maps, Claims(live, used),
         NEW c \in Client, NEW p \in Pool, NEW cnt \in 1 .. MaxCnt, NEW i \in 0 .. bit_cnt(p) - cnt,
         block_at(p, i, cnt) \in live[c]
  PROVE  LET live2 == [live EXCEPT ![c] = @ \ {block_at(p, i, cnt)}]
             used2 == [used EXCEPT ![p] = @ \ Bits(i, cnt)]
         IN used2 \in Maps /\ Claims(live2, used2)
<1> DEFINE b == block_at(p, i, cnt)
           live2 == [live EXCEPT ![c] = @ \ {b}]
           used2 == [used EXCEPT ![p] = @ \ Bits(i, cnt)]
<1>1. /\ Pages(b) \subseteq Span(p)
      /\ \A j \in Bits(0, bit_cnt(p)) : base(p) + j \in Pages(b) <=> j \in Bits(i, cnt)
  BY Block_At
<1>2. used \in [Pool -> SUBSET Int] /\ \A q \in Pool : used[q] \subseteq Bits(0, bit_cnt(q))
  BY DEF Maps
<1>3. b \in live[c]
  OBVIOUS
<1> HIDE DEF b
<1>4. live2[c] = live[c] \ {b} /\ \A d \in Client \ {c} : live2[d] = live[d]
  OBVIOUS
<1>5. /\ used2 \in [Pool -> SUBSET Int] /\ used2[p] = used[p] \ Bits(i, cnt)
      /\ \A q \in Pool \ {p} : used2[q] = used[q]
  BY <1>2
<1>6. used2 \in Maps
  BY <1>2, <1>5 DEF Maps
<1> HIDE DEF live2, used2
<1>7. \A d \in Client : live2[d] \subseteq live[d]
  BY <1>4
<1>8. Apart(live2) /\ Inside(live2)
  BY <1>7 DEF Claims, Apart, Inside
<1>9. ASSUME NEW q \in Pool, NEW j \in Bits(0, bit_cnt(q))
      PROVE  j \in used2[q] <=> Claimed(live2, q, j)
  <2>1. j \in used[q] <=> Claimed(live, q, j)
    BY <1>9 DEF Claims, Exact
  <2>2. Claimed(live2, q, j) <=> Claimed(live, q, j) /\ base(q) + j \notin Pages(b)
    <3>1. ASSUME NEW d \in Client, NEW a \in live2[d], base(q) + j \in Pages(a) 
          PROVE  base(q) + j \notin Pages(b)
      <4>1. a \in live[d] /\ ~(d = c /\ a = b)
        BY <1>4, <3>1
      <4>2. Pages(a) \cap Pages(b) = {}
        BY <1>3, <4>1 DEF Claims, Apart
      <4> QED
        BY <3>1, <4>2
    <3>2. ASSUME NEW d \in Client, NEW a \in live[d], base(q) + j \in Pages(a), base(q) + j \notin Pages(b)
          PROVE  a \in live2[d]
      BY <1>4, <3>2
    <3> QED
      BY <1>7, <3>1, <3>2 DEF Claimed
  <2>3. CASE q = p
    BY <1>1, <1>5, <2>1, <2>2, <2>3
  <2>4. CASE q # p
    <3>1. base(q) + j \in Span(q)
      BY Geometry DEF Span, Bits
    <3>2. base(q) + j \notin Pages(b)
      BY <1>1, <2>4, <3>1, Spans_Apart
    <3> QED
      BY <1>5, <2>1, <2>2, <2>4, <3>2
  <2> QED
    BY <2>3, <2>4
<1>10. Claims(live2, used2)
  BY <1>8, <1>9 DEF Claims, Exact
<1> QED
  BY <1>6, <1>10 DEF b, live2, used2

-----------------------------------------------------------------------------
(* The invariant *)

live == [c \in Client |-> Live(c)]

\* c has a block that it has not yet got, or has given up.
Pending(c) == pc[c] = "free" \/ (pc[c] = "unlock" /\ idx[c] # BITMAP_ERROR)

\* The bits at i are a group that a search of c may return.
Usable(c, i) ==
  i \in 0 .. bit_cnt(req[c].pool) - req[c].cnt /\ bitmap_none(used_map[req[c].pool], i, req[c].cnt)

\* In a call, a thread holds the lock of the pool it works on, so that what it has found
\* there stays true until it uses it.
CallOK(c) ==
  /\ pc[c] # "run" => lock[req[c].pool] = c /\ req[c].cnt > 0
  /\ Pending(c) => idx[c] \in 0 .. bit_cnt(req[c].pool) - req[c].cnt /\ block(c) \notin own[c]
  /\ pc[c] \in {"loop", "best"} => best_idx[c] = BITMAP_ERROR \/ Usable(c, best_idx[c])
  /\ pc[c] = "loop" => idx[c] \in Nat

PallocInv == PallocTypeOK /\ Claims(live, used_map) /\ \A c \in Client : CallOK(c)

\* A step of c changes only its own locals, and only pools that it locks.
Same(d) == /\ pc'[d] = pc[d] /\ req'[d] = req[d] /\ idx'[d] = idx[d] /\ own'[d] = own[d]
           /\ best_idx'[d] = best_idx[d] /\ best_size'[d] = best_size[d]

Frame(c) ==
  /\ \A d \in Client \ {c} : Same(d)
  /\ \A p \in Pool : lock[p] \in Client \ {c} => lock'[p] = lock[p]
  /\ \A p \in Pool : lock[p] # c => used_map'[p] = used_map[p]

LEMMA Step_Of ==
  ASSUME PallocInv, NEW c \in Client, Frame(c), PallocTypeOK', CallOK(c)',
         Claims([live EXCEPT ![c] = Live(c)'], used_map')
  PROVE  PallocInv'
<1>1. ASSUME NEW d \in Client, d # c PROVE CallOK(d)' /\ Live(d)' = Live(d)
  <2>1. Same(d)
    BY <1>1 DEF Frame
  <2>2. Live(d)' = Live(d)
    BY <2>1 DEF Same, Live, block
  <2>3. CASE pc[d] = "run"
    BY <2>1, <2>2, <2>3 DEF Same, CallOK, Pending
  <2>4. CASE pc[d] # "run"
    <3>1. lock[req[d].pool] = d /\ req[d].pool \in Pool
      BY <2>4 DEF PallocInv, PallocTypeOK, CallOK
    <3>2. lock'[req[d].pool] = d /\ used_map'[req[d].pool] = used_map[req[d].pool]
      BY <1>1, <3>1 DEF Frame
    <3>3. CallOK(d)
      BY DEF PallocInv
    <3> QED
      BY <2>1, <2>2, <3>1, <3>2, <3>3 DEF Same, CallOK, Pending, Usable, block
  <2> QED
    BY <2>2, <2>3, <2>4
<1>2. live' = [live EXCEPT ![c] = Live(c)']
  BY <1>1 DEF live
<1>3. \A d \in Client : CallOK(d)'
  BY <1>1
<1> QED
  BY <1>2, <1>3 DEF PallocInv

\* What the invariant says of a thread in a call, in the form the steps use it.
LEMMA InCall ==
  ASSUME PallocInv, NEW c \in Client, pc[c] # "run"
  PROVE  /\ req[c].pool \in Pool /\ req[c].cnt \in 1 .. MaxCnt /\ lock[req[c].pool] = c
         /\ used_map[req[c].pool] \in SUBSET Int /\ bit_cnt(req[c].pool) \in Nat
         /\ req[c] \in [pool : Pool, cnt : 0 .. MaxCnt, mode : Mode]
<1>1. req[c] \in [pool : Pool, cnt : 0 .. MaxCnt, mode : Mode] /\ used_map \in [Pool -> SUBSET Int]
  BY DEF PallocInv, PallocTypeOK
<1>2. lock[req[c].pool] = c /\ req[c].cnt > 0
  BY DEF PallocInv, CallOK
<1>3. MaxCnt \in Nat
  BY PallocAssumption
<1>4. req[c].pool \in Pool /\ req[c].cnt \in 0 .. MaxCnt
  BY <1>1
<1>5. bit_cnt(req[c].pool) \in Nat
  BY <1>4, Geometry
<1> QED
  BY <1>1, <1>2, <1>3, <1>4, <1>5, SMTT(60)

LEMMA Live_Type ==
  ASSUME PallocInv
  PROVE  live \in [Client -> SUBSET Block] /\ used_map \in Maps
<1>1. used_map \in Maps
  BY DEF PallocInv, PallocTypeOK, Maps
<1>2. ASSUME NEW c \in Client PROVE Live(c) \in SUBSET Block
  <2>1. own[c] \in SUBSET Block
    BY DEF PallocInv, PallocTypeOK
  <2>2. CASE Pending(c)
    <3>1. pc[c] # "run"
      BY <2>2 DEF Pending
    <3>2. req[c].pool \in Pool /\ req[c].cnt \in 1 .. MaxCnt
      BY <3>1, InCall
    <3>3. idx[c] \in 0 .. bit_cnt(req[c].pool) - req[c].cnt
      BY <2>2 DEF PallocInv, CallOK
    <3>4. block_at(req[c].pool, idx[c], req[c].cnt) \in Block
      BY <3>2, <3>3, Block_At
    <3> QED
      BY <2>1, <2>2, <3>4 DEF Live, Pending, block, block_at
  <2>3. CASE ~Pending(c)
    BY <2>1, <2>3 DEF Live, Pending
  <2> QED
    BY <2>2, <2>3
<1> QED
  BY <1>1, <1>2 DEF live

\* A search by c ends: with nothing, or with a group that it marks and will return.
LEMMA Found ==
  ASSUME PallocInv, NEW c \in Client, pc[c] \in {"switch", "best"}, NEW i,
         i = BITMAP_ERROR \/ Usable(c, i), found(c, i),
         req'[c].pool = req[c].pool, req'[c].cnt = req[c].cnt, \A d \in Client \ {c} : req'[d] = req[d],
         UNCHANGED <<lock, best_idx, best_size, own>>, PallocTypeOK'
  PROVE  PallocInv'
<1> DEFINE p == req[c].pool
           cnt == req[c].cnt
<1>1. /\ p \in Pool /\ cnt \in 1 .. MaxCnt /\ lock[p] = c /\ cnt > 0
      /\ pc \in [Client -> {"run", "switch", "loop", "best", "unlock", "free"}]
      /\ idx \in [Client -> Int] /\ used_map \in [Pool -> SUBSET Int]
  <2>1. MaxCnt \in Nat
    BY PallocAssumption
  <2> QED
    BY <2>1, InCall, SMTT(60) DEF PallocInv, PallocTypeOK
<1>2. /\ pc'[c] = "unlock" /\ \A d \in Client \ {c} : pc'[d] = pc[d]
      /\ idx'[c] = i /\ \A d \in Client \ {c} : idx'[d] = idx[d]
  BY <1>1 DEF found, goto
<1>3. Live(c) = own[c] /\ Live(c) = live[c]
  BY DEF Live, live
<1>4. Frame(c)
  BY <1>1, <1>2 DEF Frame, Same, found, set_bits
<1>5. CASE i = BITMAP_ERROR
  <2>1. Live(c)' = own[c] /\ used_map' = used_map
    BY <1>2, <1>5 DEF Live, found, set_bits
  <2>2. [live EXCEPT ![c] = Live(c)'] = live
    BY <1>3, <2>1, Live_Type
  <2>3. CallOK(c)'
    BY <1>1, <1>2, <1>5 DEF CallOK, Pending
  <2>4. Claims([live EXCEPT ![c] = Live(c)'], used_map')
    BY <2>1, <2>2 DEF PallocInv
  <2> QED
    BY <1>4, <2>3, <2>4, Step_Of
<1>6. CASE i # BITMAP_ERROR
  <2>1. i \in 0 .. bit_cnt(p) - cnt /\ bitmap_none(used_map[p], i, cnt)
    BY <1>6 DEF Usable
  <2> DEFINE b == block_at(p, i, cnt)
             live2 == [live EXCEPT ![c] = @ \cup {b}]
             used2 == [used_map EXCEPT ![p] = @ \cup Bits(i, cnt)]
  <2>2. b \notin live[c] /\ Claims(live2, used2)
    <3>1. live \in [Client -> SUBSET Block] /\ used_map \in Maps /\ Claims(live, used_map)
      BY Live_Type DEF PallocInv
    <3> HIDE DEF p, cnt
    <3> QED
      BY <1>1, <2>1, <3>1, New_Claim
  <2>3. block(c)' = b
    BY <1>2 DEF block, block_at
  <2>4. Live(c)' = live[c] \cup {b}
    BY <1>2, <1>3, <1>6, <2>3 DEF Live
  <2>5. [live EXCEPT ![c] = Live(c)'] = live2
    BY <2>4, Live_Type
  <2>6. used_map' = used2
    BY <1>6 DEF found, set_bits
  <2>7. CallOK(c)'
    BY <1>1, <1>2, <1>3, <2>1, <2>2, <2>3 DEF CallOK, Pending
  <2>8. Claims([live EXCEPT ![c] = Live(c)'], used_map')
    BY <2>2, <2>5, <2>6
  <2> QED
    BY <1>4, <2>7, <2>8, Step_Of
<1> QED
  BY <1>5, <1>6

-----------------------------------------------------------------------------
(* One lemma per action *)

\* Both kinds of call set the pool and page_cnt of the caller.
LEMMA Req_Update ==
  ASSUME NEW r \in [Client -> [pool : Pool, cnt : 0 .. MaxCnt, mode : Mode]],
         NEW c \in Client, NEW p \in Pool, NEW cnt \in 0 .. MaxCnt
  PROVE  [r EXCEPT ![c].pool = p, ![c].cnt = cnt] \in [Client -> [pool : Pool, cnt : 0 .. MaxCnt, mode : Mode]]
<1> DEFINE r1 == [r EXCEPT ![c].pool = p]
           r2 == [r1 EXCEPT ![c].cnt = cnt]
<1>1. r1 \in [Client -> [pool : Pool, cnt : 0 .. MaxCnt, mode : Mode]]
  OBVIOUS
<1>2. [r EXCEPT ![c].pool = p, ![c].cnt = cnt] = r2
  OBVIOUS
<1> HIDE DEF r1
<1>3. r2 \in [Client -> [pool : Pool, cnt : 0 .. MaxCnt, mode : Mode]]
  BY <1>1
<1> QED
  BY <1>2, <1>3

LEMMA Get_Multiple ==
  ASSUME PallocInv, NEW c \in Client, NEW p \in Pool, NEW cnt \in 1 .. MaxCnt, palloc_get_multiple(c, p, cnt)
  PROVE  PallocInv'
<1>1. MaxCnt \in Nat /\ NoClient \notin Client
  BY PallocAssumption
<1>2. PallocTypeOK
  BY DEF PallocInv
<1>3. pc[c] = "run" /\ lock[p] = NoClient /\ UNCHANGED <<used_map, idx, best_idx, best_size, own>>
  BY DEF palloc_get_multiple, lock_acquire, regs
<1>4. /\ pc'[c] = "switch" /\ \A d \in Client \ {c} : pc'[d] = pc[d]
      /\ req'[c].pool = p /\ req'[c].cnt = cnt /\ \A d \in Client \ {c} : req'[d] = req[d]
      /\ lock'[p] = c /\ \A q \in Pool \ {p} : lock'[q] = lock[q]
  BY <1>2 DEF palloc_get_multiple, lock_acquire, goto, PallocTypeOK
<1>5. PallocTypeOK'
  <2>1. req' \in [Client -> [pool : Pool, cnt : 0 .. MaxCnt, mode : Mode]]
    <3>1. cnt \in 0 .. MaxCnt
      BY <1>1
    <3> QED
      BY <1>2, <3>1, Req_Update DEF palloc_get_multiple, PallocTypeOK
  <2> QED
    BY <1>2, <2>1 DEF palloc_get_multiple, lock_acquire, goto, PallocTypeOK, regs
<1>6. Frame(c)
  BY <1>1, <1>3, <1>4 DEF Frame, Same
<1>7. CallOK(c)'
  BY <1>1, <1>4, SMTT(60) DEF CallOK, Pending
<1>8. Live(c)' = live[c]
  BY <1>3, <1>4 DEF Live, live
<1>9. Claims([live EXCEPT ![c] = Live(c)'], used_map')
  <2>1. [live EXCEPT ![c] = Live(c)'] = live
    BY <1>8, Live_Type
  <2> QED
    BY <1>3, <2>1 DEF PallocInv
<1> QED
  BY <1>5, <1>6, <1>7, <1>9, Step_Of

\* The type of the state after a search, and what the search left alone.
LEMMA Found_Type ==
  ASSUME PallocInv, NEW c \in Client, pc[c] # "run", NEW i \in Int, i = BITMAP_ERROR \/ Usable(c, i),
         found(c, i), UNCHANGED <<current_palloc_mode, lock, best_idx, best_size, own>>,
         req' \in [Client -> [pool : Pool, cnt : 0 .. MaxCnt, mode : Mode]],
         next_fit_start_idx' \in [Pool -> Nat],
         \A p \in Pool : next_fit_start_idx'[p] = 0 \/ next_fit_start_idx'[p] < bit_cnt(p)
  PROVE  PallocTypeOK'
<1>1. PallocTypeOK
  BY DEF PallocInv
<1>2. /\ pc' \in [Client -> {"run", "switch", "loop", "best", "unlock", "free"}]
      /\ idx' \in [Client -> Int]
  BY <1>1 DEF PallocTypeOK, found, goto
<1>3. used_map' \in [Pool -> SUBSET Int] /\ \A p \in Pool : used_map'[p] \subseteq Bits(0, bit_cnt(p))
  <2>1. CASE i = BITMAP_ERROR
    BY <1>1, <2>1 DEF PallocTypeOK, found, set_bits
  <2>2. CASE i # BITMAP_ERROR
    <3> DEFINE p == req[c].pool
               cnt == req[c].cnt
    <3>1. p \in Pool /\ cnt \in 1 .. MaxCnt
      BY InCall
    <3>2. i \in 0 .. bit_cnt(p) - cnt
      BY <2>2 DEF Usable
    <3>3. used_map' = [used_map EXCEPT ![p] = @ \cup Bits(i, cnt)]
      BY <2>2 DEF found, set_bits
    <3> HIDE DEF p, cnt
    <3>4. Bits(i, cnt) \subseteq Bits(0, bit_cnt(p))
      BY <3>1, <3>2, Block_At
    <3>5. Bits(i, cnt) \subseteq Int
      BY <3>4, <3>1, Geometry, SMTT(60) DEF Bits
    <3> QED
      BY <1>1, <3>1, <3>3, <3>4, <3>5 DEF PallocTypeOK
  <2> QED
    BY <2>1, <2>2
<1> QED
  BY <1>1, <1>2, <1>3 DEF PallocTypeOK

\* A case of the switch notes the mode and keeps pool and page_cnt.
LEMMA Case_Req ==
  ASSUME PallocInv, NEW c \in Client, NEW modes, case(c, modes)
  PROVE  /\ pc[c] = "switch"
         /\ req' \in [Client -> [pool : Pool, cnt : 0 .. MaxCnt, mode : Mode]]
         /\ req'[c].pool = req[c].pool /\ req'[c].cnt = req[c].cnt
         /\ \A d \in Client \ {c} : req'[d] = req[d]
<1>1. /\ req \in [Client -> [pool : Pool, cnt : 0 .. MaxCnt, mode : Mode]]
      /\ current_palloc_mode \in Mode
  BY DEF PallocInv, PallocTypeOK
<1> QED
  BY <1>1 DEF case

\* A scan of the caller's pool finds nothing, or bits that the call may take.
LEMMA Scan_Usable ==
  ASSUME PallocInv, NEW c \in Client, pc[c] # "run", NEW from \in Nat
  PROVE  LET i == bitmap_scan(used_map[req[c].pool], bit_cnt(req[c].pool), from, req[c].cnt)
         IN i \in Int /\ (i = BITMAP_ERROR \/ Usable(c, i))
<1> DEFINE p == req[c].pool
           cnt == req[c].cnt
           i == bitmap_scan(used_map[p], bit_cnt(p), from, cnt)
<1>1. p \in Pool /\ cnt \in 1 .. MaxCnt /\ bit_cnt(p) \in Nat
  BY InCall
<1>2. cnt \in Nat
  BY <1>1, PallocAssumption
<1>3. i = BITMAP_ERROR \/ (i \in from .. bit_cnt(p) - cnt /\ bitmap_none(used_map[p], i, cnt))
  <2> HIDE DEF p, cnt
  <2> QED
    BY <1>1, <1>2, Scan
<1> HIDE DEF i
<1>4. i \in Int /\ (i = BITMAP_ERROR \/ Usable(c, i))
  BY <1>1, <1>2, <1>3 DEF Usable, BITMAP_ERROR
<1> QED
  BY <1>4 DEF i

LEMMA First_Fit ==
  ASSUME PallocInv, NEW c \in Client, find_first_fit(c)
  PROVE  PallocInv'
<1> DEFINE i == bitmap_scan(used_map[req[c].pool], bit_cnt(req[c].pool), 0, req[c].cnt)
<1>1. /\ case(c, {"PAL_FIRST_FIT", "PAL_BUDDY"}) /\ found(c, i)
      /\ UNCHANGED <<next_fit_start_idx, current_palloc_mode, lock, best_idx, best_size, own>>
  BY DEF find_first_fit
<1>2. /\ pc[c] = "switch"
      /\ req' \in [Client -> [pool : Pool, cnt : 0 .. MaxCnt, mode : Mode]]
      /\ req'[c].pool = req[c].pool /\ req'[c].cnt = req[c].cnt
      /\ \A d \in Client \ {c} : req'[d] = req[d]
  BY <1>1, Case_Req
<1>3. i \in Int /\ (i = BITMAP_ERROR \/ Usable(c, i))
  BY <1>2, Scan_Usable
<1> HIDE DEF i
<1>4. /\ next_fit_start_idx' \in [Pool -> Nat]
      /\ \A p \in Pool : next_fit_start_idx'[p] = 0 \/ next_fit_start_idx'[p] < bit_cnt(p)
  BY <1>1 DEF PallocInv, PallocTypeOK
<1>5. PallocTypeOK'
  BY <1>1, <1>2, <1>3, <1>4, Found_Type
<1> QED
  BY <1>1, <1>2, <1>3, <1>5, Found

LEMMA Next_Fit ==
  ASSUME PallocInv, NEW c \in Client, find_next_fit(c)
  PROVE  PallocInv'
<1> DEFINE p == req[c].pool
           cnt == req[c].cnt
           i == next_fit(p, cnt)
<1>1. /\ case(c, {"PAL_NEXT_FIT"}) /\ found(c, i)
      /\ next_fit_start_idx' = IF i = BITMAP_ERROR THEN next_fit_start_idx
                               ELSE [next_fit_start_idx EXCEPT ![p] = next_start(p, i, cnt)]
      /\ UNCHANGED <<current_palloc_mode, lock, best_idx, best_size, own>>
  BY DEF find_next_fit
<1>2. /\ pc[c] = "switch"
      /\ req' \in [Client -> [pool : Pool, cnt : 0 .. MaxCnt, mode : Mode]]
      /\ req'[c].pool = req[c].pool /\ req'[c].cnt = req[c].cnt
      /\ \A d \in Client \ {c} : req'[d] = req[d]
  BY <1>1, Case_Req
<1>3. p \in Pool /\ cnt \in 1 .. MaxCnt /\ bit_cnt(p) \in Nat /\ cnt \in Nat
  <2>1. p \in Pool /\ cnt \in 1 .. MaxCnt /\ bit_cnt(p) \in Nat
    BY <1>2, InCall
  <2> QED
    BY <2>1, PallocAssumption
<1>4. /\ next_fit_start_idx \in [Pool -> Nat]
      /\ \A q \in Pool : next_fit_start_idx[q] = 0 \/ next_fit_start_idx[q] < bit_cnt(q)
  BY DEF PallocInv, PallocTypeOK
<1>5. i \in Int /\ (i = BITMAP_ERROR \/ Usable(c, i))
  <2> DEFINE scan(from) == bitmap_scan(used_map[p], bit_cnt(p), from, cnt)
  <2>1. \A from \in Nat : scan(from) \in Int /\ (scan(from) = BITMAP_ERROR \/ Usable(c, scan(from)))
    BY <1>2, Scan_Usable
  <2>2. next_fit_start_idx[p] \in Nat
    BY <1>3, <1>4
  <2>3. i = scan(next_fit_start_idx[p]) \/ i = scan(0)
    BY DEF next_fit
  <2> HIDE DEF scan
  <2> QED
    BY <2>1, <2>2, <2>3
<1> HIDE DEF i
<1>6. /\ next_fit_start_idx' \in [Pool -> Nat]
      /\ \A q \in Pool : next_fit_start_idx'[q] = 0 \/ next_fit_start_idx'[q] < bit_cnt(q)
  <2>1. CASE i = BITMAP_ERROR
    BY <1>1, <1>4, <2>1
  <2>2. CASE i # BITMAP_ERROR
    <3>1. i \in Nat
      BY <1>3, <1>5, <2>2 DEF Usable
    <3>2. next_start(p, i, cnt) \in Nat /\ (next_start(p, i, cnt) = 0 \/ next_start(p, i, cnt) < bit_cnt(p))
      BY <1>3, <3>1 DEF next_start
    <3> QED
      BY <1>1, <1>3, <1>4, <2>2, <3>2
  <2> QED
    BY <2>1, <2>2
<1>7. PallocTypeOK'
  BY <1>1, <1>2, <1>5, <1>6, Found_Type
<1> QED
  BY <1>1, <1>2, <1>5, <1>7, Found

\* A step of find_best_fit() changes locals of its caller only.
LEMMA Local_Step ==
  ASSUME PallocInv, NEW c \in Client, pc[c] \in {"switch", "loop"}, PallocTypeOK', CallOK(c)',
         pc'[c] \in {"loop", "best"}, \A d \in Client \ {c} : Same(d), UNCHANGED <<used_map, lock, own>>
  PROVE  PallocInv'
<1>1. Frame(c)
  BY DEF Frame
<1>2. Live(c)' = live[c]
  BY DEF Live, live
<1>3. [live EXCEPT ![c] = Live(c)'] = live
  BY <1>2, Live_Type
<1>4. Claims([live EXCEPT ![c] = Live(c)'], used_map')
  BY <1>3 DEF PallocInv
<1> QED
  BY <1>1, <1>4, Step_Of

LEMMA Best_Fit ==
  ASSUME PallocInv, NEW c \in Client, find_best_fit(c)
  PROVE  PallocInv'
<1>1. /\ pc[c] = "switch"
      /\ req' \in [Client -> [pool : Pool, cnt : 0 .. MaxCnt, mode : Mode]]
      /\ req'[c].pool = req[c].pool /\ req'[c].cnt = req[c].cnt
      /\ \A d \in Client \ {c} : req'[d] = req[d]
  BY Case_Req DEF find_best_fit
<1>2. PallocTypeOK
  BY DEF PallocInv
<1>3. BITMAP_ERROR \in Int /\ SIZE_MAX \in Nat
  BY PallocAssumption DEF BITMAP_ERROR, SIZE_MAX
<1>4. PallocTypeOK'
  BY <1>1, <1>2, <1>3, SMTT(60) DEF find_best_fit, goto, PallocTypeOK
<1>5. /\ pc'[c] = "loop" /\ idx'[c] = 0 /\ best_idx'[c] = BITMAP_ERROR
      /\ \A d \in Client \ {c} : Same(d)
  BY <1>1, <1>2 DEF find_best_fit, goto, PallocTypeOK, Same
<1>6. lock[req[c].pool] = c /\ req[c].cnt > 0
  BY <1>1 DEF PallocInv, CallOK
<1>7. UNCHANGED <<used_map, lock, own>>
  BY DEF find_best_fit
<1>8. CallOK(c)'
  BY <1>1, <1>5, <1>6, <1>7, SMTT(60) DEF CallOK, Pending
<1> QED
  BY <1>1, <1>4, <1>5, <1>7, <1>8, Local_Step

LEMMA Best_Fit_Loop ==
  ASSUME PallocInv, NEW c \in Client, best_fit_loop(c)
  PROVE  PallocInv'
<1> DEFINE p == req[c].pool
           cnt == req[c].cnt
           free_start == bitmap_scan(used_map[p], bit_cnt(p), idx[c], 1)
           n == free_cnt(p, free_start)
<1>1. pc[c] = "loop" /\ UNCHANGED <<used_map, next_fit_start_idx, current_palloc_mode, lock, req, own>>
  BY DEF best_fit_loop
<1>2. /\ p \in Pool /\ cnt \in 1 .. MaxCnt /\ bit_cnt(p) \in Nat /\ cnt \in Nat /\ cnt > 0
      /\ lock[p] = c /\ idx[c] \in Nat /\ (best_idx[c] = BITMAP_ERROR \/ Usable(c, best_idx[c]))
  <2>1. p \in Pool /\ cnt \in 1 .. MaxCnt /\ bit_cnt(p) \in Nat /\ lock[p] = c
    BY <1>1, InCall
  <2>2. cnt \in Nat /\ cnt > 0
    BY <2>1, PallocAssumption
  <2>3. idx[c] \in Nat /\ (best_idx[c] = BITMAP_ERROR \/ Usable(c, best_idx[c]))
    BY <1>1 DEF PallocInv, CallOK
  <2> QED
    BY <2>1, <2>2, <2>3
<1>3. PallocTypeOK
  BY DEF PallocInv
<1>4. CASE idx[c] >= bit_cnt(p) \/ free_start = BITMAP_ERROR
  <2>1. goto(c, "best") /\ UNCHANGED <<idx, best_idx, best_size>>
    BY <1>4 DEF best_fit_loop, regs
  <2>2. pc'[c] = "best" /\ PallocTypeOK' /\ \A d \in Client \ {c} : Same(d)
    BY <1>1, <1>3, <2>1 DEF goto, PallocTypeOK, Same
  <2>3. CallOK(c)'
    BY <1>1, <1>2, <2>1, <2>2 DEF CallOK, Pending, Usable
  <2> QED
    BY <1>1, <2>2, <2>3, Local_Step
<1>5. CASE ~(idx[c] >= bit_cnt(p) \/ free_start = BITMAP_ERROR)
  <2> HIDE DEF p, cnt
  <2>1. free_start \in idx[c] .. bit_cnt(p) - 1
    BY <1>2, <1>5, Scan
  <2>2. free_start \in Nat /\ free_start < bit_cnt(p)
    BY <1>2, <2>1
  <2> HIDE DEF free_start
  <2>3. n \in 0 .. bit_cnt(p) - free_start /\ bitmap_none(used_map[p], free_start, n)
    BY <1>2, <2>2, Free_Cnt
  <2> HIDE DEF n
  <2>4. bit_cnt(p) \in Nat /\ cnt \in Nat
    BY <1>2
  <2>5. n \in Nat /\ free_start + n \in Nat /\ free_start + n <= bit_cnt(p)
    BY <2>2, <2>3, <2>4
  <2> USE DEF p, cnt, n
  <2> DEFINE take == better(n, cnt, best_size[c])
  <2>6. /\ best_idx' = IF take THEN [best_idx EXCEPT ![c] = free_start] ELSE best_idx
        /\ best_size' = IF take THEN [best_size EXCEPT ![c] = n] ELSE best_size
        /\ IF take /\ n = cnt THEN goto(c, "best") /\ UNCHANGED idx
           ELSE idx' = [idx EXCEPT ![c] = free_start + n] /\ UNCHANGED pc
    BY <1>5 DEF best_fit_loop, free_start
  <2>7. take => n >= cnt
    BY DEF better
  <2> HIDE DEF n, take
  <2>8. take => Usable(c, free_start)
    <3> HIDE DEF p, cnt
    <3>1. take => free_start \in 0 .. bit_cnt(p) - cnt
      BY <2>2, <2>4, <2>5, <2>7
    <3>2. take => Bits(free_start, cnt) \subseteq Bits(free_start, n)
      BY <2>2, <2>4, <2>5, <2>7 DEF Bits
    <3> USE DEF p, cnt
    <3> QED
      BY <2>3, <3>1, <3>2 DEF Usable, bitmap_none
  <2>9. PallocTypeOK'
    BY <1>1, <1>3, <2>2, <2>5, <2>6, SMTT(60) DEF PallocTypeOK, goto
  <2>10. /\ pc'[c] = "loop" \/ pc'[c] = "best"
         /\ \A d \in Client \ {c} : Same(d)
         /\ best_idx'[c] = best_idx[c] \/ (take /\ best_idx'[c] = free_start)
         /\ idx'[c] \in Nat
    <3>1. idx[c] \in Nat /\ free_start + n \in Nat
      BY <1>2, <2>5
    <3> QED
      BY <1>1, <1>3, <2>6, <3>1 DEF PallocTypeOK, goto, Same
  <2>11. CallOK(c)'
    <3>1. best_idx'[c] = BITMAP_ERROR \/ Usable(c, best_idx[c])'
      BY <1>1, <1>2, <2>8, <2>10 DEF Usable
    <3> QED
      BY <1>1, <1>2, <2>10, <3>1 DEF CallOK, Pending
  <2> QED
    BY <1>1, <2>9, <2>10, <2>11, Local_Step
<1> QED
  BY <1>4, <1>5

LEMMA Best_Fit_End ==
  ASSUME PallocInv, NEW c \in Client, best_fit_end(c)
  PROVE  PallocInv'
<1>1. /\ pc[c] = "best" /\ found(c, best_idx[c])
      /\ UNCHANGED <<next_fit_start_idx, current_palloc_mode, lock, req, best_idx, best_size, own>>
  BY DEF best_fit_end
<1>2. PallocTypeOK
  BY DEF PallocInv
<1>3. best_idx[c] \in Int /\ (best_idx[c] = BITMAP_ERROR \/ Usable(c, best_idx[c]))
  BY <1>1, <1>2 DEF PallocInv, CallOK, PallocTypeOK
<1>4. PallocTypeOK'
  BY <1>1, <1>2, <1>3, Found_Type DEF PallocTypeOK
<1> QED
  BY <1>1, <1>3, <1>4, Found

\* lock_release() ends a call of c.
LEMMA Released ==
  ASSUME PallocInv, NEW c \in Client, pc[c] # "run", lock_release(c),
         UNCHANGED <<next_fit_start_idx, current_palloc_mode>>,
         own' \in [Client -> SUBSET Block], used_map' \in Maps,
         \A d \in Client \ {c} : own'[d] = own[d],
         \A p \in Pool \ {req[c].pool} : used_map'[p] = used_map[p],
         Claims([live EXCEPT ![c] = own'[c]], used_map')
  PROVE  PallocInv'
<1>1. PallocTypeOK
  BY DEF PallocInv
<1>2. req[c].pool \in Pool /\ lock[req[c].pool] = c
  BY InCall
<1>3. NoReq \in [pool : Pool, cnt : 0 .. MaxCnt, mode : Mode]
  BY PallocAssumption, SMTT(60) DEF NoReq, Pool, Mode
<1>4. PallocTypeOK'
  <2>1. used_map' \in [Pool -> SUBSET Int] /\ \A p \in Pool : used_map'[p] \subseteq Bits(0, bit_cnt(p))
    BY DEF Maps
  <2> QED
    BY <1>1, <1>2, <1>3, <2>1, SMTT(60) DEF PallocTypeOK, lock_release, goto
<1>5. pc'[c] = "run"
  BY <1>1 DEF PallocTypeOK, lock_release, goto
<1>6. Frame(c)
  BY <1>1, <1>2 DEF Frame, Same, PallocTypeOK, lock_release, goto
<1>7. CallOK(c)' /\ Live(c)' = own'[c]
  BY <1>5 DEF CallOK, Pending, Live
<1> QED
  BY <1>4, <1>6, <1>7, Step_Of

LEMMA Get_Return ==
  ASSUME PallocInv, NEW c \in Client, palloc_get_return(c)
  PROVE  PallocInv'
<1>1. /\ pc[c] = "unlock" /\ lock_release(c)
      /\ own' = IF idx[c] = BITMAP_ERROR THEN own ELSE [own EXCEPT ![c] = @ \cup {block(c)}]
      /\ UNCHANGED <<used_map, next_fit_start_idx, current_palloc_mode>>
  BY DEF palloc_get_return
<1>2. live \in [Client -> SUBSET Block] /\ used_map \in Maps /\ Claims(live, used_map)
  BY Live_Type DEF PallocInv
<1>3. own \in [Client -> SUBSET Block]
  BY DEF PallocInv, PallocTypeOK
<1>4. own'[c] = live[c] /\ \A d \in Client \ {c} : own'[d] = own[d]
  BY <1>1, <1>3 DEF live, Live
<1>5. own' \in [Client -> SUBSET Block]
  <2>1. live[c] \in SUBSET Block
    BY <1>2
  <2>2. own' = [own EXCEPT ![c] = live[c]]
    BY <1>1, <1>3, <1>4
  <2> QED
    BY <1>3, <2>1, <2>2
<1>6. [live EXCEPT ![c] = own'[c]] = live
  BY <1>2, <1>4
<1> QED
  BY <1>1, <1>2, <1>4, <1>5, <1>6, Released

\* The pool that palloc_free_multiple() finds from the address is the block's.
LEMMA Pool_Of ==
  ASSUME NEW b \in Block, NEW p \in Pool, Pages(b) \subseteq Span(p)
  PROVE  pool_of(b.page) = p /\ b.page - base(p) \in 0 .. bit_cnt(p) - b.cnt
<1>1. b.page \in Nat /\ b.cnt \in 1 .. MaxCnt /\ b.cnt \in Nat /\ b.cnt > 0
  BY PallocAssumption DEF Block
<1>2. b.page \in Pages(b) /\ b.page + b.cnt - 1 \in Pages(b)
  BY <1>1 DEF Pages
<1>3. b.page \in Span(p) /\ b.page + b.cnt - 1 \in Span(p)
  BY <1>2
<1>4. base(p) \in Nat /\ bit_cnt(p) \in Nat
  BY Geometry
<1>5. b.page - base(p) \in 0 .. bit_cnt(p) - b.cnt
  BY <1>1, <1>3, <1>4 DEF Span
<1>6. page_from_pool("kernel_pool", b.page) <=> b.page \in Span("kernel_pool")
  <2>1. base("kernel_pool") \in Nat /\ bit_cnt("kernel_pool") \in Nat
    BY Geometry DEF Pool
  <2> QED
    BY <1>1, <2>1 DEF page_from_pool, Span
<1>7. CASE p = "kernel_pool"
  BY <1>3, <1>5, <1>6, <1>7 DEF pool_of
<1>8. CASE p = "user_pool"
  <2>1. b.page \notin Span("kernel_pool")
    BY <1>3, <1>8, Spans_Apart DEF Pool
  <2> QED
    BY <1>5, <1>6, <1>8, <2>1 DEF pool_of
<1> QED
  BY <1>7, <1>8 DEF Pool

LEMMA Free_Multiple ==
  ASSUME PallocInv, NEW c \in Client, NEW b \in own[c], palloc_free_multiple(c, b)
  PROVE  PallocInv'
<1>1. NoClient \notin Client /\ MaxCnt \in Nat
  BY PallocAssumption
<1>2. PallocTypeOK /\ live \in [Client -> SUBSET Block] /\ Claims(live, used_map)
  BY Live_Type DEF PallocInv
<1>3. /\ pc[c] = "run" /\ live[c] = own[c] /\ b \in live[c] /\ b \in Block
  BY <1>2 DEF palloc_free_multiple, live, Live, PallocTypeOK
<1>4. b.cnt \in 1 .. MaxCnt /\ b.page \in Nat /\ b = [page |-> b.page, cnt |-> b.cnt]
  BY <1>3 DEF Block
<1>5. PICK p \in Pool : Pages(b) \subseteq Span(p)
  BY <1>2, <1>3 DEF Claims, Inside
<1>6. pool_of(b.page) = p /\ b.page - base(p) \in 0 .. bit_cnt(p) - b.cnt
  BY <1>3, <1>5, Pool_Of
<1>7. base(p) \in Nat /\ bit_cnt(p) \in Nat
  BY Geometry
<1>8. /\ lock[p] = NoClient /\ lock' = [lock EXCEPT ![p] = c]
      /\ req' = [req EXCEPT ![c].pool = p, ![c].cnt = b.cnt]
      /\ idx' = [idx EXCEPT ![c] = b.page - base(p)]
      /\ own' = [own EXCEPT ![c] = @ \ {b}]
      /\ pc' = [pc EXCEPT ![c] = "free"]
      /\ UNCHANGED <<used_map, next_fit_start_idx, current_palloc_mode, best_idx, best_size>>
  BY <1>6 DEF palloc_free_multiple, lock_acquire, goto
<1>9. /\ pc'[c] = "free" /\ \A d \in Client \ {c} : pc'[d] = pc[d]
      /\ req'[c].pool = p /\ req'[c].cnt = b.cnt /\ \A d \in Client \ {c} : req'[d] = req[d]
      /\ lock'[p] = c /\ \A q \in Pool \ {p} : lock'[q] = lock[q]
      /\ idx'[c] = b.page - base(p) /\ \A d \in Client \ {c} : idx'[d] = idx[d]
      /\ own'[c] = own[c] \ {b} /\ \A d \in Client \ {c} : own'[d] = own[d]
  BY <1>2, <1>8 DEF PallocTypeOK
<1>10. PallocTypeOK'
  <2>1. req' \in [Client -> [pool : Pool, cnt : 0 .. MaxCnt, mode : Mode]]
    <3>1. b.cnt \in 0 .. MaxCnt
      BY <1>1, <1>4
    <3> QED
      BY <1>2, <1>8, <3>1, Req_Update DEF PallocTypeOK
  <2>2. idx' \in [Client -> Int]
    BY <1>2, <1>4, <1>7, <1>8, SMTT(60) DEF PallocTypeOK
  <2> QED
    BY <1>2, <1>8, <2>1, <2>2 DEF PallocTypeOK
<1>11. Frame(c)
  BY <1>1, <1>8, <1>9 DEF Frame, Same
<1>12. block(c)' = b
  <2>1. base(p) + (b.page - base(p)) = b.page
    BY <1>4, <1>7
  <2>2. block(c)' = [page |-> base(p) + (b.page - base(p)), cnt |-> b.cnt]
    BY <1>9 DEF block
  <2> QED
    BY <1>4, <2>1, <2>2
<1>13. CallOK(c)'
  <2>1. b.cnt > 0
    BY <1>4
  <2>2. block(c)' \notin own'[c]
    BY <1>9, <1>12
  <2> QED
    BY <1>6, <1>9, <2>1, <2>2 DEF CallOK, Pending
<1>14. Live(c)' = live[c]
  BY <1>3, <1>9, <1>12 DEF Live
<1>15. [live EXCEPT ![c] = Live(c)'] = live
  BY <1>2, <1>14
<1>16. Claims([live EXCEPT ![c] = Live(c)'], used_map')
  BY <1>2, <1>8, <1>15
<1> QED
  BY <1>10, <1>11, <1>13, <1>16, Step_Of

LEMMA Free_Return ==
  ASSUME PallocInv, NEW c \in Client, palloc_free_return(c)
  PROVE  PallocInv'
<1> DEFINE p == req[c].pool
           cnt == req[c].cnt
           b == block_at(p, idx[c], cnt)
           live2 == [live EXCEPT ![c] = @ \ {b}]
<1>1. /\ pc[c] = "free" /\ lock_release(c) /\ used_map' = [used_map EXCEPT ![p] = @ \ Bits(idx[c], cnt)]
      /\ UNCHANGED <<next_fit_start_idx, current_palloc_mode, own>>
  BY DEF palloc_free_return
<1>2. live \in [Client -> SUBSET Block] /\ used_map \in Maps /\ Claims(live, used_map)
  BY Live_Type DEF PallocInv
<1>3. p \in Pool /\ cnt \in 1 .. MaxCnt
  BY <1>1, InCall
<1>4. idx[c] \in 0 .. bit_cnt(p) - cnt /\ block(c) \notin own[c] /\ block(c) = b
  BY <1>1 DEF PallocInv, CallOK, Pending, block, block_at
<1>5. b \in live[c] /\ live[c] \ {b} = own[c]
  BY <1>1, <1>4 DEF live, Live
<1>6. used_map' \in Maps /\ Claims(live2, used_map')
  <2> HIDE DEF p, cnt
  <2> QED
    BY <1>1, <1>2, <1>3, <1>4, <1>5, Dropped_Claim
<1>7. [live EXCEPT ![c] = own'[c]] = live2
  BY <1>1, <1>2, <1>5
<1>8. \A q \in Pool \ {p} : used_map'[q] = used_map[q]
  BY <1>1, <1>2 DEF Maps
<1>9. own' \in [Client -> SUBSET Block] /\ \A d \in Client \ {c} : own'[d] = own[d]
  BY <1>1 DEF PallocInv, PallocTypeOK
<1> QED
  BY <1>1, <1>6, <1>7, <1>8, <1>9, Released

LEMMA Palloc_Init == Init => PallocInv
<1> SUFFICES ASSUME Init PROVE PallocInv
  OBVIOUS
<1>1. NoReq \in [pool : Pool, cnt : 0 .. MaxCnt, mode : Mode]
  BY PallocAssumption DEF NoReq, Pool, Mode
<1>2. PallocTypeOK
  <2>1. "PAL_FIRST_FIT" \in Mode
    BY DEF Mode
  <2> QED
    BY <1>1, <2>1 DEF Init, PallocTypeOK
<1>3. \A c \in Client : CallOK(c) /\ live[c] = {}
  BY DEF Init, CallOK, Pending, live, Live
<1>4. Claims(live, used_map)
  BY <1>3 DEF Init, Claims, Apart, Inside, Exact, Claimed
<1> QED
  BY <1>2, <1>3, <1>4 DEF PallocInv

LEMMA Palloc_Stutter ==
  ASSUME PallocInv, UNCHANGED <<used_map, next_fit_start_idx, lock, pc, req, idx, best_idx, best_size, own>>,
         current_palloc_mode' \in Mode
  PROVE  PallocInv'
<1>1. PallocTypeOK'
  BY DEF PallocInv, PallocTypeOK
<1>2. ASSUME NEW c \in Client PROVE CallOK(c)' /\ Live(c)' = Live(c)
  BY DEF PallocInv, CallOK, Pending, Usable, block, Live
<1>3. live' = live
  BY <1>2 DEF live
<1>4. Claims(live, used_map)'
  BY <1>3 DEF PallocInv
<1> QED
  BY <1>1, <1>2, <1>4 DEF PallocInv

LEMMA Palloc_Next == PallocInv /\ [Next]_vars => PallocInv'
<1> SUFFICES ASSUME PallocInv, [Next]_vars PROVE PallocInv'
  OBVIOUS
<1>1. ASSUME NEW mode \in Mode, palloc_set_mode(mode) PROVE PallocInv'
  BY <1>1, Palloc_Stutter DEF palloc_set_mode, regs
<1>2. ASSUME UNCHANGED vars PROVE PallocInv'
  <2>1. current_palloc_mode \in Mode
    BY DEF PallocInv, PallocTypeOK
  <2> QED
    BY <1>2, <2>1, Palloc_Stutter DEF vars, regs
<1> QED
  BY <1>1, <1>2, Get_Multiple, First_Fit, Next_Fit, Best_Fit, Best_Fit_Loop, Best_Fit_End, Get_Return,
     Free_Multiple, Free_Return DEF Next

\* The invariant in the words of the properties.
LEMMA Palloc_Exact == PallocInv => PagesExact
<1> SUFFICES ASSUME PallocInv PROVE PagesExact
  OBVIOUS
<1>1. /\ PallocTypeOK /\ used_map \in Maps /\ Apart(live) /\ Inside(live) /\ Exact(live, used_map)
      /\ \A c \in Client : live[c] = Live(c)
  BY Live_Type DEF PallocInv, Claims, live
<1>2. BlocksDisjoint
  BY <1>1, SMTT(60) DEF Apart, BlocksDisjoint
<1>3. ASSUME NEW p \in Pool
      PROVE  {base(p) + i : i \in used_map[p]} =
               {n \in base(p) .. base(p) + bit_cnt(p) - 1 : \E c \in Client : \E b \in Live(c) : n \in Pages(b)}
  <2>1. base(p) \in Nat /\ bit_cnt(p) \in Nat
    BY Geometry
  <2>2. used_map[p] \subseteq Bits(0, bit_cnt(p))
    BY <1>1 DEF Maps
  <2>3. \A i \in Bits(0, bit_cnt(p)) :
          i \in used_map[p] <=> \E c \in Client : \E b \in Live(c) : base(p) + i \in Pages(b)
    BY <1>1 DEF Exact, Claimed
  <2>4. ASSUME NEW i \in used_map[p]
        PROVE  base(p) + i \in {n \in base(p) .. base(p) + bit_cnt(p) - 1 :
                                  \E c \in Client : \E b \in Live(c) : n \in Pages(b)}
    <3>1. i \in Bits(0, bit_cnt(p))
      BY <2>2
    <3>2. base(p) + i \in base(p) .. base(p) + bit_cnt(p) - 1
      BY <2>1, <3>1 DEF Bits
    <3> QED
      BY <2>3, <3>1, <3>2
  <2>5. ASSUME NEW n \in base(p) .. base(p) + bit_cnt(p) - 1,
               \E c \in Client : \E b \in Live(c) : n \in Pages(b)
        PROVE  \E i \in used_map[p] : n = base(p) + i
    <3>1. n - base(p) \in Bits(0, bit_cnt(p)) /\ base(p) + (n - base(p)) = n
      BY <2>1 DEF Bits
    <3>2. n - base(p) \in used_map[p]
      BY <2>3, <2>5, <3>1
    <3> QED
      BY <3>1, <3>2
  <2> QED
    BY <2>4, <2>5
<1>4. UsedMapExact
  <2>1. \A c \in Client : \A b \in Live(c) :
          \E p \in Pool : Pages(b) \subseteq base(p) .. base(p) + bit_cnt(p) - 1
    BY <1>1 DEF Inside, Span
  <2> QED
    BY <1>3, <2>1 DEF UsedMapExact
<1>5. ASSUME NEW c \in Client, pc[c] = "free"
      PROVE  req[c].cnt > 0 /\ bitmap_all(used_map[req[c].pool], idx[c], req[c].cnt)
  <2> DEFINE p == req[c].pool
             cnt == req[c].cnt
             b == block_at(p, idx[c], cnt)
  <2>1. p \in Pool /\ cnt \in 1 .. MaxCnt /\ cnt > 0
    <3>1. p \in Pool /\ cnt \in 1 .. MaxCnt
      BY <1>5, InCall
    <3> QED
      BY <3>1, PallocAssumption
  <2>2. idx[c] \in 0 .. bit_cnt(p) - cnt /\ b \in live[c]
    BY <1>1, <1>5 DEF PallocInv, CallOK, Pending, Live, block, block_at
  <2> HIDE DEF p, cnt
  <2>3. /\ Bits(idx[c], cnt) \subseteq Bits(0, bit_cnt(p))
        /\ \A j \in Bits(0, bit_cnt(p)) : base(p) + j \in Pages(b) <=> j \in Bits(idx[c], cnt)
    BY <2>1, <2>2, Block_At
  <2> HIDE DEF b
  <2>4. \A j \in Bits(idx[c], cnt) : j \in used_map[p]
    BY <1>1, <2>1, <2>2, <2>3 DEF Exact, Claimed
  <2> QED
    BY <2>1, <2>4 DEF bitmap_all, p, cnt
<1>6. FreeFindsUsed
  BY <1>5 DEF FreeFindsUsed
<1> QED
  BY <1>1, <1>2, <1>4, <1>6 DEF PagesExact

\* For pools of any size, any number of threads, requests of any size and any
\* mixture of modes, which any thread may change at any time: no page is in two
\* blocks that palloc_get_multiple() returned and were not freed, the used_maps
\* mark exactly the pages of those blocks, and palloc_free_multiple() finds
\* the pages it clears marked, in the pool it chose from their address.
THEOREM Spec_PagesExact == Spec => []PagesExact
<1>1. Init => PallocInv
  BY Palloc_Init
<1>2. PallocInv /\ [Next]_vars => PallocInv'
  BY Palloc_Next
<1>3. PallocInv => PagesExact
  BY Palloc_Exact
<1> QED
  BY <1>1, <1>2, <1>3, PTL DEF Spec

-----------------------------------------------------------------------------
(* Holes *)

Fit(p, cnt) == {h \in Hole(p) : h.size >= cnt}

\* A hole as its numbers.
LEMMA Hole_Type ==
  ASSUME NEW p \in Pool, NEW h \in Hole(p)
  PROVE  /\ bit_cnt(p) \in Nat /\ h.start \in Nat /\ h.size \in Nat /\ h.size > 0
         /\ h.start + h.size <= bit_cnt(p)
         /\ \A j \in Int : h.start <= j /\ j < h.start + h.size => j \notin used_map[p]
         /\ h.start = 0 \/ h.start - 1 \in used_map[p]
         /\ h.start + h.size = bit_cnt(p) \/ h.start + h.size \in used_map[p]
         /\ h = [start |-> h.start, size |-> h.size]
<1>1. bit_cnt(p) \in Nat
  BY Geometry
<1>2. /\ h \in [start : Bits(0, bit_cnt(p)), size : 1 .. bit_cnt(p)]
      /\ h.start + h.size <= bit_cnt(p)
      /\ Bits(h.start, h.size) \cap used_map[p] = {}
      /\ h.start = 0 \/ h.start - 1 \in used_map[p]
      /\ h.start + h.size = bit_cnt(p) \/ h.start + h.size \in used_map[p]
  BY DEF Hole, bitmap_none
<1>3. h.start \in Bits(0, bit_cnt(p)) /\ h.size \in 1 .. bit_cnt(p) /\ h = [start |-> h.start, size |-> h.size]
  BY <1>2
<1>4. h.start \in Nat /\ h.size \in Nat /\ h.size > 0
  BY <1>1, <1>3 DEF Bits
<1>5. ASSUME NEW j \in Int, h.start <= j, j < h.start + h.size PROVE j \notin used_map[p]
  <2>1. j \in Bits(h.start, h.size)
    BY <1>4, <1>5 DEF Bits
  <2> QED
    BY <1>2, <2>1
<1> QED
  BY <1>1, <1>2, <1>3, <1>4, <1>5

\* The clear bits that free_cnt counts from the first of them on are a hole.
LEMMA Free_Hole ==
  ASSUME NEW p \in Pool, NEW i \in Nat, i < bit_cnt(p), i \notin used_map[p], i = 0 \/ i - 1 \in used_map[p]
  PROVE  /\ [start |-> i, size |-> free_cnt(p, i)] \in Hole(p)
         /\ free_cnt(p, i) \in Nat /\ free_cnt(p, i) > 0
<1> DEFINE n == free_cnt(p, i)
<1>1. /\ n \in 0 .. bit_cnt(p) - i /\ bitmap_none(used_map[p], i, n)
      /\ i + n = bit_cnt(p) \/ i + n \in used_map[p]
  BY Free_Cnt
<1>2. bit_cnt(p) \in Nat
  BY Geometry
<1> HIDE DEF n
<1>3. n # 0
  <2>1. i + 0 = i
    OBVIOUS
  <2>2. i # bit_cnt(p)
    BY <1>2
  <2> QED
    BY <1>1, <2>1, <2>2
<1>4. n \in 1 .. bit_cnt(p) /\ n \in Nat /\ n > 0 /\ i \in Bits(0, bit_cnt(p)) /\ i + n <= bit_cnt(p)
  BY <1>1, <1>2, <1>3 DEF Bits
<1>5. [start |-> i, size |-> n] \in Hole(p)
  BY <1>1, <1>4 DEF Hole
<1> QED
  BY <1>4, <1>5 DEF n

\* A hole that starts inside another is that one.
LEMMA Hole_Unique ==
  ASSUME NEW p \in Pool, NEW h \in Hole(p), NEW g \in Hole(p),
         h.start <= g.start, g.start < h.start + h.size
  PROVE  g = h
<1>1. /\ bit_cnt(p) \in Nat /\ h.start \in Nat /\ h.size \in Nat /\ h.size > 0
      /\ h.start + h.size <= bit_cnt(p)
      /\ \A j \in Int : h.start <= j /\ j < h.start + h.size => j \notin used_map[p]
      /\ h.start + h.size = bit_cnt(p) \/ h.start + h.size \in used_map[p]
      /\ h = [start |-> h.start, size |-> h.size]
  BY Hole_Type
<1>2. /\ g.start \in Nat /\ g.size \in Nat /\ g.size > 0
      /\ g.start + g.size <= bit_cnt(p)
      /\ \A j \in Int : g.start <= j /\ j < g.start + g.size => j \notin used_map[p]
      /\ g.start = 0 \/ g.start - 1 \in used_map[p]
      /\ g.start + g.size = bit_cnt(p) \/ g.start + g.size \in used_map[p]
      /\ g = [start |-> g.start, size |-> g.size]
  BY Hole_Type
<1>3. g.start = h.start
  <2> SUFFICES ASSUME g.start > h.start PROVE FALSE
    BY <1>1, <1>2
  <2>1. g.start - 1 \in Int /\ h.start <= g.start - 1 /\ g.start - 1 < h.start + h.size /\ g.start # 0
    BY <1>1, <1>2
  <2>2. g.start - 1 \notin used_map[p]
    BY <1>1, <2>1
  <2> QED
    BY <1>2, <2>1, <2>2
<1>4. ~(g.size < h.size)
  <2> SUFFICES ASSUME g.size < h.size PROVE FALSE
    OBVIOUS
  <2>1. /\ g.start + g.size \in Int /\ h.start <= g.start + g.size /\ g.start + g.size < h.start + h.size
        /\ g.start + g.size # bit_cnt(p)
    BY <1>1, <1>2, <1>3
  <2>2. g.start + g.size \notin used_map[p]
    BY <1>1, <2>1
  <2> QED
    BY <1>2, <2>1, <2>2
<1>5. ~(h.size < g.size)
  <2> SUFFICES ASSUME h.size < g.size PROVE FALSE
    OBVIOUS
  <2>1. /\ h.start + h.size \in Int /\ g.start <= h.start + h.size /\ h.start + h.size < g.start + g.size
        /\ h.start + h.size # bit_cnt(p)
    BY <1>1, <1>2, <1>3
  <2>2. h.start + h.size \notin used_map[p]
    BY <1>2, <2>1
  <2> QED
    BY <1>1, <2>1, <2>2
<1>6. g.size = h.size
  BY <1>1, <1>2, <1>4, <1>5
<1> QED
  BY <1>1, <1>2, <1>3, <1>6

\* Where CNT bits are clear, there is a hole with room for them.
LEMMA Hole_Around ==
  ASSUME NEW p \in Pool, NEW cnt \in Nat, cnt > 0, NEW i \in Clear(used_map[p], bit_cnt(p), 0, cnt)
  PROVE  Fit(p, cnt) # {}
<1>1. bit_cnt(p) \in Nat
  BY Geometry
<1>2. i \in Nat /\ i + cnt <= bit_cnt(p) /\ Bits(i, cnt) \cap used_map[p] = {}
  BY <1>1, SMTT(60) DEF Clear, bitmap_none
<1>3. \A j \in Int : i <= j /\ j < i + cnt => j \notin used_map[p]
  <2> SUFFICES ASSUME NEW j \in Int, i <= j, j < i + cnt PROVE j \notin used_map[p]
    OBVIOUS
  <2>1. j \in Bits(i, cnt)
    BY <1>2 DEF Bits
  <2> QED
    BY <1>2, <2>1
<1> DEFINE S == {j \in 0 .. i : \A k \in j .. i : k \notin used_map[p]}
<1>4. S \in SUBSET Nat /\ i \in S
  BY <1>2, <1>3, SMTT(60)
<1>5. PICK s \in S : \A j \in S : s <= j
  BY <1>4, Least
<1>6. s \in Nat /\ s <= i /\ \A k \in s .. i : k \notin used_map[p]
  BY <1>2
<1>7. s = 0 \/ s - 1 \in used_map[p]
  <2> SUFFICES ASSUME s # 0, s - 1 \notin used_map[p] PROVE FALSE
    OBVIOUS
  <2>1. s - 1 \in 0 .. i /\ \A k \in s - 1 .. i : k = s - 1 \/ k \in s .. i
    BY <1>2, <1>6
  <2>2. s - 1 \in S
    BY <1>6, <2>1
  <2>3. s <= s - 1
    BY <1>5, <2>2
  <2> QED
    BY <1>6, <2>3
<1> HIDE DEF S
<1>8. s < bit_cnt(p) /\ s \notin used_map[p]
  BY <1>1, <1>2, <1>6
<1> DEFINE n == free_cnt(p, s)
<1>9. [start |-> s, size |-> n] \in Hole(p) /\ n \in Nat
  BY <1>6, <1>7, <1>8, Free_Hole
<1>10. s + n = bit_cnt(p) \/ s + n \in used_map[p]
  BY <1>6, <1>8, Free_Cnt
<1> HIDE DEF n
<1>11. n >= cnt
  <2> SUFFICES ASSUME n < cnt PROVE FALSE
    BY <1>9
  <2>1. s + n \in Int /\ s <= s + n /\ s + n < i + cnt /\ s + n # bit_cnt(p)
    BY <1>1, <1>2, <1>6, <1>9
  <2>2. CASE s + n <= i
    <3>1. s + n \in s .. i
      BY <1>2, <2>1, <2>2, <1>6
    <3> QED
      BY <1>6, <1>10, <2>1, <3>1
  <2>3. CASE ~(s + n <= i)
    <3>1. i <= s + n
      BY <1>2, <2>1, <2>3
    <3> QED
      BY <1>3, <1>10, <2>1, <3>1
  <2> QED
    BY <2>2, <2>3
<1>12. [start |-> s, size |-> n] \in Fit(p, cnt)
  BY <1>9, <1>11 DEF Fit
<1> QED
  BY <1>12

-----------------------------------------------------------------------------
(* The loop of find_best_fit() *)

\* The holes that fit and start before bit i.
Seen(p, cnt, i) == {h \in Fit(p, cnt) : h.start < i}

Tighter(h, g) == h.size < g.size \/ (h.size = g.size /\ h.start <= g.start)

Tightest(h, S) == h \in S /\ \A g \in S : Tighter(h, g)

\* bi and bs are best_idx and best_size after a look at the holes of S.
Picked(bi, bs, S) ==
  IF S = {} THEN bi = BITMAP_ERROR /\ bs = SIZE_MAX
  ELSE \E h \in S : Tightest(h, S) /\ bi = h.start /\ bs = h.size

\* SIZE_MAX is above the size of any hole.
LEMMA Size_Max ==
  ASSUME NEW p \in Pool
  PROVE  bit_cnt(p) < SIZE_MAX /\ SIZE_MAX \in Nat
<1>1. free_pages \in Nat /\ user_page_limit \in Nat
  BY PallocAssumption
<1>2. user_pages \in 0 .. free_pages /\ kernel_pages \in 0 .. free_pages
  BY <1>1 DEF user_pages, kernel_pages
<1>3. pool_pages(p) \in 0 .. free_pages
  BY <1>2 DEF pool_pages
<1>4. bm_pages(pool_pages(p)) \in Nat
  BY <1>1, <1>3, SMTT(60) DEF bm_pages, bitmap_buf_size, div_round_up, PGSIZE
<1> QED
  BY <1>1, <1>3, <1>4 DEF bit_cnt, SIZE_MAX

\* An iteration finds the next hole and passes over none.
LEMMA Loop_Finds ==
  ASSUME NEW p \in Pool, NEW i \in Nat, i < bit_cnt(p), i = 0 \/ i \in used_map[p],
         NEW fs, fs = bitmap_scan(used_map[p], bit_cnt(p), i, 1), fs # BITMAP_ERROR
  PROVE  /\ fs \in Nat /\ i <= fs
         /\ [start |-> fs, size |-> free_cnt(p, fs)] \in Hole(p)
         /\ \A g \in Hole(p) : i <= g.start => fs <= g.start
<1> DEFINE S == Clear(used_map[p], bit_cnt(p), i, 1)
<1>1. bit_cnt(p) \in Nat
  BY Geometry
<1>2. fs \in S /\ \A j \in S : fs <= j
  BY <1>1, Scan_First
<1>3. \A j \in Int : j \in S <=> i <= j /\ j < bit_cnt(p) /\ j \notin used_map[p]
  <2> SUFFICES ASSUME NEW j \in Int PROVE j \in S <=> i <= j /\ j < bit_cnt(p) /\ j \notin used_map[p]
    OBVIOUS
  <2>1. Bits(j, 1) = {j}
    BY DEF Bits
  <2>2. j \in i .. bit_cnt(p) - 1 <=> i <= j /\ j < bit_cnt(p)
    BY <1>1
  <2> QED
    BY <2>1, <2>2 DEF Clear, bitmap_none
<1>4. fs \in Nat /\ i <= fs /\ fs < bit_cnt(p) /\ fs \notin used_map[p]
  <2>1. fs \in i .. bit_cnt(p) - 1
    BY <1>2 DEF Clear
  <2>2. fs \in Nat /\ i <= fs /\ fs < bit_cnt(p)
    BY <1>1, <2>1
  <2> QED
    BY <1>2, <1>3, <2>2
<1> HIDE DEF S
<1>5. fs = 0 \/ fs - 1 \in used_map[p]
  <2>1. CASE fs = i
    <3>1. i = 0
      BY <1>4, <2>1
    <3> QED
      BY <2>1, <3>1
  <2>2. CASE fs # i
    <3>1. fs - 1 \in Int /\ i <= fs - 1 /\ fs - 1 < bit_cnt(p) /\ ~(fs <= fs - 1)
      BY <1>1, <1>4, <2>2
    <3>2. fs - 1 \notin S
      BY <1>2, <3>1
    <3> QED
      BY <1>3, <3>1, <3>2
  <2> QED
    BY <2>1, <2>2
<1>6. [start |-> fs, size |-> free_cnt(p, fs)] \in Hole(p)
  BY <1>4, <1>5, Free_Hole
<1>7. ASSUME NEW g \in Hole(p), i <= g.start PROVE fs <= g.start
  <2>1. /\ g.start \in Nat /\ g.size \in Nat /\ g.size > 0 /\ g.start + g.size <= bit_cnt(p)
        /\ \A j \in Int : g.start <= j /\ j < g.start + g.size => j \notin used_map[p]
    BY Hole_Type
  <2>2. g.start \in Int /\ g.start < g.start + g.size /\ g.start < bit_cnt(p)
    BY <1>1, <2>1
  <2>3. g.start \notin used_map[p]
    BY <2>1, <2>2
  <2>4. g.start \in S
    BY <1>3, <1>7, <2>2, <2>3
  <2> QED
    BY <1>2, <2>4
<1> QED
  BY <1>4, <1>6, <1>7

\* At the end of the loop every hole has been seen.
LEMMA Loop_Ends ==
  ASSUME NEW p \in Pool, NEW i \in Nat,
         i >= bit_cnt(p) \/ bitmap_scan(used_map[p], bit_cnt(p), i, 1) = BITMAP_ERROR,
         NEW g \in Hole(p)
  PROVE  g.start < i
<1>1. /\ bit_cnt(p) \in Nat /\ g.start \in Nat /\ g.size \in Nat /\ g.size > 0 /\ g.start + g.size <= bit_cnt(p)
      /\ \A j \in Int : g.start <= j /\ j < g.start + g.size => j \notin used_map[p]
  BY Hole_Type
<1>2. g.start \in Int /\ g.start < g.start + g.size /\ g.start < bit_cnt(p) /\ g.start \notin used_map[p]
  <2>1. g.start \in Int /\ g.start < g.start + g.size /\ g.start < bit_cnt(p)
    BY <1>1
  <2> QED
    BY <1>1, <2>1
<1>3. CASE i >= bit_cnt(p)
  BY <1>1, <1>2, <1>3
<1>4. CASE bitmap_scan(used_map[p], bit_cnt(p), i, 1) = BITMAP_ERROR
  <2> DEFINE S == Clear(used_map[p], bit_cnt(p), i, 1)
  <2>1. \A j \in S : j \in Nat /\ j # BITMAP_ERROR
    BY <1>1 DEF Clear, BITMAP_ERROR
  <2>2. IF S = {} THEN TRUE ELSE bitmap_scan(used_map[p], bit_cnt(p), i, 1) \in S
    BY <1>1, Scan_First
  <2>3. S = {}
    BY <1>4, <2>1, <2>2
  <2>4. Bits(g.start, 1) = {g.start}
    BY <1>1 DEF Bits
  <2>5. bitmap_none(used_map[p], g.start, 1)
    BY <1>2, <2>4 DEF bitmap_none
  <2>6. g.start \notin i .. bit_cnt(p) - 1
    BY <2>3, <2>5 DEF Clear
  <2> QED
    BY <1>1, <1>2, <2>6
<1> QED
  BY <1>3, <1>4

\* What an iteration makes of best_idx and best_size, h the hole it finds.
LEMMA Picks ==
  ASSUME NEW p \in Pool, NEW cnt \in Nat, NEW i \in Nat, NEW h \in Hole(p), i <= h.start,
         \A g \in Hole(p) : i <= g.start => h.start <= g.start,
         NEW bi, NEW bs \in Nat, Picked(bi, bs, Seen(p, cnt, i))
  PROVE  LET take == better(h.size, cnt, bs)
         IN /\ Picked(IF take THEN h.start ELSE bi, IF take THEN h.size ELSE bs,
                      Seen(p, cnt, h.start + h.size))
            /\ take /\ h.size = cnt => Tightest(h, Fit(p, cnt))
<1> DEFINE S == Seen(p, cnt, i)
           T == Seen(p, cnt, h.start + h.size)
           take == better(h.size, cnt, bs)
<1>1. /\ bit_cnt(p) \in Nat /\ h.start \in Nat /\ h.size \in Nat /\ h.size > 0 /\ h.start + h.size <= bit_cnt(p)
  BY Hole_Type
<1>2. \A g \in Hole(p) : g.start \in Nat /\ g.size \in Nat
  BY Hole_Type
<1>3. \A g \in S : g \in Hole(p) /\ g.size >= cnt /\ g.start < i
  BY DEF Seen, Fit
<1>4. \A g : g \in T <=> g \in S \/ (g = h /\ h.size >= cnt)
  <2> SUFFICES ASSUME NEW g PROVE g \in T <=> g \in S \/ (g = h /\ h.size >= cnt)
    OBVIOUS
  <2>1. CASE g \in T
    <3>1. g \in Hole(p) /\ g.size >= cnt /\ g.start < h.start + h.size
      BY <2>1 DEF Seen, Fit
    <3>2. CASE g.start < i
      BY <3>1, <3>2 DEF Seen, Fit
    <3>3. CASE ~(g.start < i)
      <4>1. h.start <= g.start
        BY <1>2, <3>1, <3>3
      <4>2. g = h
        BY <3>1, <4>1, Hole_Unique
      <4> QED
        BY <2>1, <3>1, <4>2
    <3> QED
      BY <3>2, <3>3
  <2>2. CASE g \in S
    <3>1. g \in Hole(p) /\ g.size >= cnt /\ g.start < i
      BY <1>3, <2>2
    <3>2. g.start < h.start + h.size
      BY <1>1, <1>2, <3>1
    <3> QED
      BY <3>1, <3>2 DEF Seen, Fit
  <2>3. CASE g = h /\ h.size >= cnt
    <3>1. h.start < h.start + h.size
      BY <1>1
    <3> QED
      BY <2>3, <3>1 DEF Seen, Fit
  <2> QED
    BY <2>1, <2>2, <2>3
<1>5. Picked(bi, bs, S)
  OBVIOUS
<1> HIDE DEF S, T
<1>6. h.size < SIZE_MAX
  BY <1>1, Size_Max
<1>7. take <=> h.size >= cnt /\ h.size < bs
  BY DEF better
<1> HIDE DEF take
<1>8. CASE ~(h.size >= cnt)
  <2>1. T = S /\ ~take
    BY <1>4, <1>7, <1>8
  <2> QED
    BY <1>5, <2>1 DEF T, S, take
<1>9. CASE h.size >= cnt /\ h.size < bs
  <2>1. take /\ h \in T
    BY <1>4, <1>7, <1>9
  <2>2. ASSUME NEW g \in S PROVE h.size < g.size
    <3>1. PICK k \in S : Tightest(k, S) /\ bs = k.size
      BY <1>5, <2>2 DEF Picked
    <3>2. k.size < g.size \/ k.size = g.size
      BY <3>1, <2>2 DEF Tightest, Tighter
    <3>3. k.size \in Nat /\ g.size \in Nat
      BY <1>2, <1>3, <2>2, <3>1
    <3> QED
      BY <1>1, <1>9, <3>1, <3>2, <3>3
  <2>3. Tightest(h, T)
    BY <1>1, <1>4, <2>1, <2>2 DEF Tightest, Tighter
  <2>4. Picked(h.start, h.size, T)
    BY <2>1, <2>3 DEF Picked
  <2>5. ASSUME h.size = cnt, NEW g \in Fit(p, cnt) PROVE Tighter(h, g)
    <3>1. g \in Hole(p) /\ g.size >= cnt /\ g.start \in Nat /\ g.size \in Nat
      BY <1>2 DEF Fit
    <3>2. CASE g.start < h.start + h.size
      <4>1. g \in T
        BY <2>5, <3>2 DEF T, Seen
      <4> QED
        BY <2>3, <4>1 DEF Tightest
    <3>3. CASE ~(g.start < h.start + h.size)
      BY <1>1, <2>5, <3>1, <3>3 DEF Tighter
    <3> QED
      BY <3>2, <3>3
  <2>6. h \in Fit(p, cnt)
    BY <1>9 DEF Fit
  <2>7. h.size = cnt => Tightest(h, Fit(p, cnt))
    BY <2>5, <2>6 DEF Tightest
  <2> QED
    BY <2>1, <2>4, <2>7 DEF T, take
<1>10. CASE h.size >= cnt /\ ~(h.size < bs)
  <2>1. ~take
    BY <1>7, <1>10
  <2>2. S # {}
    <3>1. bs # SIZE_MAX
      BY <1>6, <1>10
    <3> QED
      BY <1>5, <3>1 DEF Picked
  <2>3. PICK k \in S : Tightest(k, S) /\ bi = k.start /\ bs = k.size
    BY <1>5, <2>2 DEF Picked
  <2>4. k \in Hole(p) /\ k.start < i /\ k.start \in Nat /\ k.size \in Nat
    BY <1>2, <1>3
  <2>5. Tighter(k, h)
    BY <1>1, <1>10, <2>3, <2>4 DEF Tighter
  <2>6. k \in T /\ Tightest(k, T)
    BY <1>4, <2>3, <2>5 DEF Tightest
  <2>7. Picked(bi, bs, T)
    BY <2>3, <2>6 DEF Picked
  <2> QED
    BY <2>1, <2>7 DEF T, take
<1> QED
  BY <1>8, <1>9, <1>10

-----------------------------------------------------------------------------
(* Searches *)

\* The loop of find_best_fit() stands between holes and has the best of those it has
\* passed; a search that failed has left no group of clear bits out.
SearchOK(c) ==
  LET p == req[c].pool
      cnt == req[c].cnt
  IN /\ pc[c] = "loop" => /\ idx[c] = 0 \/ idx[c] = bit_cnt(p) \/ idx[c] \in used_map[p]
                          /\ Picked(best_idx[c], best_size[c], Seen(p, cnt, idx[c]))
     /\ pc[c] = "best" => IF Fit(p, cnt) = {} THEN best_idx[c] = BITMAP_ERROR
                          ELSE \E h \in Fit(p, cnt) : Tightest(h, Fit(p, cnt)) /\ best_idx[c] = h.start
     /\ (pc[c] = "unlock" /\ idx[c] = BITMAP_ERROR) => Clear(used_map[p], bit_cnt(p), 0, cnt) = {}

SearchInv == PallocInv /\ \A c \in Client : SearchOK(c)

Step(c) ==
  \/ \E p \in Pool, cnt \in 1 .. MaxCnt : palloc_get_multiple(c, p, cnt)
  \/ find_first_fit(c)
  \/ find_next_fit(c)
  \/ find_best_fit(c)
  \/ best_fit_loop(c)
  \/ best_fit_end(c)
  \/ palloc_get_return(c)
  \/ \E b \in own[c] : palloc_free_multiple(c, b)
  \/ palloc_free_return(c)

\* A step of c changes neither the locals of another thread nor the pool that one works on.
LEMMA Others ==
  ASSUME PallocInv, NEW c \in Client, Step(c), NEW d \in Client, d # c
  PROVE  Same(d) /\ (pc[d] # "run" => used_map'[req[d].pool] = used_map[req[d].pool])
<1>1. /\ used_map \in [Pool -> SUBSET Int] /\ lock \in [Pool -> Client \cup {NoClient}]
      /\ pc \in [Client -> {"run", "switch", "loop", "best", "unlock", "free"}]
      /\ req \in [Client -> [pool : Pool, cnt : 0 .. MaxCnt, mode : Mode]]
      /\ idx \in [Client -> Int] /\ best_idx \in [Client -> Int] /\ best_size \in [Client -> Nat]
      /\ own \in [Client -> SUBSET Block]
  BY DEF PallocInv, PallocTypeOK
<1>2. req[d].pool \in Pool /\ req[c].pool \in Pool
  BY <1>1
<1>3. pc[d] # "run" /\ pc[c] # "run" => req[d].pool # req[c].pool
  BY DEF PallocInv, CallOK
<1>4. ASSUME NEW i, found(c, i), pc[c] # "run", UNCHANGED <<best_idx, best_size, own>>, req'[d] = req[d]
      PROVE  Same(d) /\ (pc[d] # "run" => used_map'[req[d].pool] = used_map[req[d].pool])
  BY <1>1, <1>2, <1>3, <1>4 DEF found, set_bits, goto, Same
<1>5. ASSUME NEW p \in Pool, NEW cnt \in 1 .. MaxCnt, palloc_get_multiple(c, p, cnt)
      PROVE  Same(d) /\ UNCHANGED used_map
  BY <1>1, <1>5 DEF palloc_get_multiple, goto, regs, Same
<1>6. ASSUME find_first_fit(c)
      PROVE  Same(d) /\ (pc[d] # "run" => used_map'[req[d].pool] = used_map[req[d].pool])
  BY <1>1, <1>4, <1>6 DEF find_first_fit, case
<1>7. ASSUME find_next_fit(c)
      PROVE  Same(d) /\ (pc[d] # "run" => used_map'[req[d].pool] = used_map[req[d].pool])
  BY <1>1, <1>4, <1>7 DEF find_next_fit, case
<1>8. ASSUME find_best_fit(c) PROVE Same(d) /\ UNCHANGED used_map
  BY <1>1, <1>8 DEF find_best_fit, case, goto, Same
<1>9. ASSUME best_fit_loop(c) PROVE Same(d) /\ UNCHANGED used_map
  <2>1. /\ UNCHANGED <<used_map, req, own>>
        /\ pc' = pc \/ pc' = [pc EXCEPT ![c] = "best"]
        /\ best_idx' = best_idx \/ \E x : best_idx' = [best_idx EXCEPT ![c] = x]
        /\ best_size' = best_size \/ \E x : best_size' = [best_size EXCEPT ![c] = x]
        /\ idx' = idx \/ \E x : idx' = [idx EXCEPT ![c] = x]
    BY <1>9 DEF best_fit_loop, goto, regs
  <2> QED
    BY <1>1, <2>1 DEF Same
<1>10. ASSUME best_fit_end(c)
       PROVE  Same(d) /\ (pc[d] # "run" => used_map'[req[d].pool] = used_map[req[d].pool])
  BY <1>1, <1>4, <1>10 DEF best_fit_end
<1>11. ASSUME palloc_get_return(c) PROVE Same(d) /\ UNCHANGED used_map
  BY <1>1, <1>11 DEF palloc_get_return, lock_release, goto, Same
<1>12. ASSUME NEW b \in own[c], palloc_free_multiple(c, b) PROVE Same(d) /\ UNCHANGED used_map
  BY <1>1, <1>12 DEF palloc_free_multiple, goto, Same
<1>13. ASSUME palloc_free_return(c)
       PROVE  Same(d) /\ (pc[d] # "run" => used_map'[req[d].pool] = used_map[req[d].pool])
  <2>1. pc[c] = "free" /\ used_map' = [used_map EXCEPT ![req[c].pool] = @ \ Bits(idx[c], req[c].cnt)]
    BY <1>13 DEF palloc_free_return
  <2>2. Same(d)
    BY <1>1, <1>13 DEF palloc_free_return, lock_release, goto, Same
  <2> QED
    BY <1>1, <1>2, <1>3, <2>1, <2>2
<1> QED
  BY <1>5, <1>6, <1>7, <1>8, <1>9, <1>10, <1>11, <1>12, <1>13 DEF Step

LEMMA Hole_Same ==
  ASSUME NEW p, used_map'[p] = used_map[p]
  PROVE  \A cnt, i : Fit(p, cnt)' = Fit(p, cnt) /\ Seen(p, cnt, i)' = Seen(p, cnt, i)
  BY DEF Seen, Fit, Hole

LEMMA Search_Same ==
  ASSUME NEW d \in Client, SearchOK(d), Same(d),
         pc[d] # "run" => used_map'[req[d].pool] = used_map[req[d].pool]
  PROVE  SearchOK(d)'
<1>1. PICK p, cnt, i : p = req[d].pool /\ cnt = req[d].cnt /\ i = idx[d]
  OBVIOUS
<1>2. /\ req'[d].pool = p /\ req'[d].cnt = cnt /\ idx'[d] = i /\ pc'[d] = pc[d]
      /\ best_idx'[d] = best_idx[d] /\ best_size'[d] = best_size[d]
  BY <1>1 DEF Same
<1>3. CASE pc[d] = "run"
  BY <1>2, <1>3 DEF SearchOK
<1>4. CASE pc[d] # "run"
  <2>1. used_map'[p] = used_map[p] /\ Fit(p, cnt)' = Fit(p, cnt) /\ Seen(p, cnt, i)' = Seen(p, cnt, i)
    BY <1>1, <1>4, Hole_Same
  <2>2. /\ pc'[d] = "loop" => /\ i = 0 \/ i = bit_cnt(p) \/ i \in used_map'[p]
                              /\ Picked(best_idx'[d], best_size'[d], Seen(p, cnt, i)')
    BY <1>1, <1>2, <2>1 DEF SearchOK
  <2>3. pc'[d] = "best" => IF Fit(p, cnt)' = {} THEN best_idx'[d] = BITMAP_ERROR
                           ELSE \E h \in Fit(p, cnt)' : Tightest(h, Fit(p, cnt)') /\ best_idx'[d] = h.start
    BY <1>1, <1>2, <2>1 DEF SearchOK
  <2>4. (pc'[d] = "unlock" /\ idx'[d] = BITMAP_ERROR) => Clear(used_map'[p], bit_cnt(p), 0, cnt) = {}
    BY <1>1, <1>2, <2>1 DEF SearchOK
  <2> QED
    BY <1>2, <2>2, <2>3, <2>4 DEF SearchOK
<1> QED
  BY <1>3, <1>4

\* A scan from the start fails only if there is nothing to find.
LEMMA Scan_Fails ==
  ASSUME NEW b, NEW size \in Nat, NEW cnt \in Nat, bitmap_scan(b, size, 0, cnt) = BITMAP_ERROR
  PROVE  Clear(b, size, 0, cnt) = {}
<1>1. \A j \in Clear(b, size, 0, cnt) : j # BITMAP_ERROR
  BY DEF Clear, BITMAP_ERROR
<1> QED
  BY <1>1, Scan_First

LEMMA Found_Search ==
  ASSUME PallocInv, NEW c \in Client, NEW i, found(c, i),
         req'[c].pool = req[c].pool, req'[c].cnt = req[c].cnt,
         i = BITMAP_ERROR => Clear(used_map[req[c].pool], bit_cnt(req[c].pool), 0, req[c].cnt) = {}
  PROVE  SearchOK(c)'
<1>1. pc'[c] = "unlock" /\ idx'[c] = i
  BY DEF PallocInv, PallocTypeOK, found, goto
<1>2. i = BITMAP_ERROR => used_map' = used_map
  BY DEF found, set_bits
<1> QED
  BY <1>1, <1>2 DEF SearchOK

LEMMA Call_Numbers ==
  ASSUME PallocInv, NEW c \in Client, pc[c] # "run"
  PROVE  req[c].pool \in Pool /\ req[c].cnt \in Nat /\ req[c].cnt > 0 /\ bit_cnt(req[c].pool) \in Nat
<1>1. req[c].pool \in Pool /\ req[c].cnt \in 1 .. MaxCnt /\ bit_cnt(req[c].pool) \in Nat
  BY InCall
<1> QED
  BY <1>1, PallocAssumption

LEMMA First_Fit_Search ==
  ASSUME PallocInv, NEW c \in Client, find_first_fit(c)
  PROVE  SearchOK(c)'
<1> DEFINE i == bitmap_scan(used_map[req[c].pool], bit_cnt(req[c].pool), 0, req[c].cnt)
<1>1. found(c, i) /\ pc[c] = "switch" /\ req'[c].pool = req[c].pool /\ req'[c].cnt = req[c].cnt
  BY Case_Req DEF find_first_fit
<1>2. req[c].cnt \in Nat /\ bit_cnt(req[c].pool) \in Nat
  BY <1>1, Call_Numbers
<1>3. i = BITMAP_ERROR => Clear(used_map[req[c].pool], bit_cnt(req[c].pool), 0, req[c].cnt) = {}
  BY <1>2, Scan_Fails
<1> HIDE DEF i
<1> QED
  BY <1>1, <1>3, Found_Search

LEMMA Next_Fit_Search ==
  ASSUME PallocInv, NEW c \in Client, find_next_fit(c)
  PROVE  SearchOK(c)'
<1> DEFINE i == next_fit(req[c].pool, req[c].cnt)
<1>1. found(c, i) /\ pc[c] = "switch" /\ req'[c].pool = req[c].pool /\ req'[c].cnt = req[c].cnt
  BY Case_Req DEF find_next_fit
<1>2. req[c].cnt \in Nat /\ bit_cnt(req[c].pool) \in Nat
  BY <1>1, Call_Numbers
<1>3. i = BITMAP_ERROR => bitmap_scan(used_map[req[c].pool], bit_cnt(req[c].pool), 0, req[c].cnt) = BITMAP_ERROR
  BY DEF next_fit
<1>4. i = BITMAP_ERROR => Clear(used_map[req[c].pool], bit_cnt(req[c].pool), 0, req[c].cnt) = {}
  BY <1>2, <1>3, Scan_Fails
<1> HIDE DEF i
<1> QED
  BY <1>1, <1>4, Found_Search

LEMMA Best_Fit_Search ==
  ASSUME PallocInv, NEW c \in Client, find_best_fit(c)
  PROVE  SearchOK(c)'
<1>1. pc[c] = "switch" /\ req'[c].pool = req[c].pool /\ req'[c].cnt = req[c].cnt
  BY Case_Req DEF find_best_fit
<1>2. PICK p, cnt : p = req[c].pool /\ cnt = req[c].cnt
  OBVIOUS
<1>3. p \in Pool
  BY <1>1, <1>2, Call_Numbers
<1>4. /\ pc'[c] = "loop" /\ idx'[c] = 0 /\ best_idx'[c] = BITMAP_ERROR /\ best_size'[c] = SIZE_MAX
      /\ used_map' = used_map
  BY DEF PallocInv, PallocTypeOK, find_best_fit, goto
<1>5. Seen(p, cnt, 0) = {}
  <2>1. \A h \in Fit(p, cnt) : h.start \in Nat
    BY <1>3, Hole_Type DEF Fit
  <2>2. \A h \in Fit(p, cnt) : ~(h.start < 0)
    BY <2>1
  <2> QED
    BY <2>2 DEF Seen
<1>6. Seen(p, cnt, 0)' = {}
  BY <1>4, <1>5, Hole_Same
<1>7. Picked(best_idx'[c], best_size'[c], Seen(p, cnt, 0)')
  BY <1>4, <1>6 DEF Picked
<1> QED
  BY <1>1, <1>2, <1>4, <1>7 DEF SearchOK

LEMMA Best_Fit_End_Search ==
  ASSUME SearchInv, NEW c \in Client, best_fit_end(c)
  PROVE  SearchOK(c)'
<1>1. PallocInv /\ SearchOK(c) /\ pc[c] = "best" /\ found(c, best_idx[c]) /\ req' = req
  BY DEF SearchInv, best_fit_end
<1>2. PICK p, cnt : p = req[c].pool /\ cnt = req[c].cnt
  OBVIOUS
<1>3. p \in Pool /\ cnt \in Nat /\ cnt > 0
  BY <1>1, <1>2, Call_Numbers
<1>4. ASSUME best_idx[c] = BITMAP_ERROR PROVE Clear(used_map[p], bit_cnt(p), 0, cnt) = {}
  <2>1. \A h \in Fit(p, cnt) : h.start \in Nat
    BY <1>3, Hole_Type DEF Fit
  <2>2. \A h \in Fit(p, cnt) : h.start # BITMAP_ERROR
    BY <2>1 DEF BITMAP_ERROR
  <2>3. Fit(p, cnt) = {}
    BY <1>1, <1>2, <1>4, <2>2 DEF SearchOK
  <2> QED
    BY <1>3, <2>3, Hole_Around
<1> QED
  BY <1>1, <1>2, <1>4, Found_Search

LEMMA Best_Fit_Loop_Search ==
  ASSUME SearchInv, NEW c \in Client, best_fit_loop(c)
  PROVE  SearchOK(c)'
<1>1. /\ PallocInv /\ SearchOK(c) /\ pc[c] = "loop" /\ req' = req /\ used_map' = used_map
      /\ pc \in [Client -> {"run", "switch", "loop", "best", "unlock", "free"}]
      /\ idx \in [Client -> Int] /\ best_idx \in [Client -> Int] /\ best_size \in [Client -> Nat]
  BY DEF SearchInv, PallocInv, PallocTypeOK, best_fit_loop
<1>2. PICK p, cnt, i, bi, bs, fs, n :
        /\ p = req[c].pool /\ cnt = req[c].cnt /\ i = idx[c] /\ bi = best_idx[c] /\ bs = best_size[c]
        /\ fs = bitmap_scan(used_map[p], bit_cnt(p), i, 1) /\ n = free_cnt(p, fs)
  OBVIOUS
<1>3. p \in Pool /\ cnt \in Nat /\ bit_cnt(p) \in Nat /\ i \in Nat /\ bs \in Nat
  <2>1. p \in Pool /\ cnt \in Nat /\ bit_cnt(p) \in Nat
    BY <1>1, <1>2, Call_Numbers
  <2>2. i \in Nat
    BY <1>1, <1>2 DEF PallocInv, CallOK
  <2> QED
    BY <1>1, <1>2, <2>1, <2>2
<1>4. /\ i = 0 \/ i = bit_cnt(p) \/ i \in used_map[p]
      /\ Picked(bi, bs, Seen(p, cnt, i))
  BY <1>1, <1>2 DEF SearchOK
<1>5. \A j : Fit(p, cnt)' = Fit(p, cnt) /\ Seen(p, cnt, j)' = Seen(p, cnt, j)
  BY <1>1, Hole_Same
<1>6. CASE i >= bit_cnt(p) \/ fs = BITMAP_ERROR
  <2>1. pc'[c] = "best" /\ best_idx'[c] = bi
    BY <1>1, <1>2, <1>6 DEF best_fit_loop, goto, regs
  <2>2. \A g \in Hole(p) : g.start < i
    BY <1>2, <1>3, <1>6, Loop_Ends
  <2>3. Seen(p, cnt, i) = Fit(p, cnt)
    BY <2>2 DEF Seen, Fit
  <2>4. IF Fit(p, cnt) = {} THEN bi = BITMAP_ERROR
        ELSE \E h \in Fit(p, cnt) : Tightest(h, Fit(p, cnt)) /\ bi = h.start
    BY <1>4, <2>3 DEF Picked
  <2> QED
    BY <1>1, <1>2, <1>5, <2>1, <2>4 DEF SearchOK
<1>7. CASE ~(i >= bit_cnt(p) \/ fs = BITMAP_ERROR)
  <2>1. i < bit_cnt(p) /\ (i = 0 \/ i \in used_map[p])
    BY <1>3, <1>4, <1>7
  <2>2. /\ fs \in Nat /\ i <= fs /\ [start |-> fs, size |-> n] \in Hole(p)
        /\ \A g \in Hole(p) : i <= g.start => fs <= g.start
    BY <1>2, <1>3, <1>7, <2>1, Loop_Finds
  <2>3. PICK h \in Hole(p) : h = [start |-> fs, size |-> n]
    BY <2>2
  <2>4. h.start = fs /\ h.size = n
    BY <2>3
  <2>5. PICK take \in BOOLEAN : take <=> better(n, cnt, bs)
    BY DEF better
  <2>6. /\ Picked(IF take THEN fs ELSE bi, IF take THEN n ELSE bs, Seen(p, cnt, fs + n))
        /\ take /\ n = cnt => Tightest(h, Fit(p, cnt))
    BY <1>3, <1>4, <2>2, <2>4, <2>5, Picks
  <2>7. /\ best_idx' = IF take THEN [best_idx EXCEPT ![c] = fs] ELSE best_idx
        /\ best_size' = IF take THEN [best_size EXCEPT ![c] = n] ELSE best_size
        /\ IF take /\ n = cnt THEN goto(c, "best") /\ UNCHANGED idx
           ELSE idx' = [idx EXCEPT ![c] = fs + n] /\ UNCHANGED pc
    BY <1>2, <1>7, <2>5 DEF best_fit_loop
  <2>8. best_idx'[c] = (IF take THEN fs ELSE bi) /\ best_size'[c] = (IF take THEN n ELSE bs)
    BY <1>1, <1>2, <2>7
  <2>9. CASE take /\ n = cnt
    <3>1. pc'[c] = "best" /\ best_idx'[c] = h.start
      BY <1>1, <2>4, <2>7, <2>8, <2>9 DEF goto
    <3>2. Tightest(h, Fit(p, cnt)) /\ h \in Fit(p, cnt)
      BY <2>6, <2>9 DEF Tightest
    <3> QED
      BY <1>1, <1>2, <1>5, <3>1, <3>2 DEF SearchOK
  <2>10. CASE ~(take /\ n = cnt)
    <3>1. pc'[c] = "loop" /\ idx'[c] = fs + n
      BY <1>1, <2>7, <2>10
    <3>2. fs + n = bit_cnt(p) \/ fs + n \in used_map[p]
      BY <1>3, <2>3, <2>4, Hole_Type
    <3>3. Picked(best_idx'[c], best_size'[c], Seen(p, cnt, fs + n)')
      BY <1>5, <2>6, <2>8
    <3> QED
      BY <1>1, <1>2, <3>1, <3>2, <3>3 DEF SearchOK
  <2> QED
    BY <2>9, <2>10
<1> QED
  BY <1>6, <1>7

LEMMA Search_Step ==
  ASSUME SearchInv, NEW c \in Client, Step(c)
  PROVE  SearchOK(c)'
<1>1. PallocInv /\ pc \in [Client -> {"run", "switch", "loop", "best", "unlock", "free"}]
  BY DEF SearchInv, PallocInv, PallocTypeOK
<1>2. ASSUME pc'[c] \in {"run", "switch", "free"} PROVE SearchOK(c)'
  BY <1>2 DEF SearchOK
<1>3. ASSUME NEW p \in Pool, NEW cnt \in 1 .. MaxCnt, palloc_get_multiple(c, p, cnt) PROVE pc'[c] = "switch"
  BY <1>1, <1>3 DEF palloc_get_multiple, goto
<1>4. ASSUME NEW b \in own[c], palloc_free_multiple(c, b) PROVE pc'[c] = "free"
  BY <1>1, <1>4 DEF palloc_free_multiple, goto
<1>5. ASSUME palloc_get_return(c) \/ palloc_free_return(c) PROVE pc'[c] = "run"
  BY <1>1, <1>5 DEF palloc_get_return, palloc_free_return, lock_release, goto
<1> QED
  BY <1>1, <1>2, <1>3, <1>4, <1>5, First_Fit_Search, Next_Fit_Search, Best_Fit_Search, Best_Fit_Loop_Search,
     Best_Fit_End_Search DEF Step

LEMMA Search_Next == SearchInv /\ [Next]_vars => SearchInv'
<1> SUFFICES ASSUME SearchInv, [Next]_vars PROVE SearchInv'
  OBVIOUS
<1>1. PallocInv /\ PallocInv'
  BY Palloc_Next DEF SearchInv
<1>2. ASSUME NEW c \in Client, Step(c), NEW d \in Client PROVE SearchOK(d)'
  <2>1. SearchOK(d)
    BY DEF SearchInv
  <2>2. CASE d = c
    BY <1>2, <2>2, Search_Step
  <2>3. CASE d # c
    BY <1>1, <1>2, <2>1, <2>3, Others, Search_Same
  <2> QED
    BY <2>2, <2>3
<1>3. ASSUME UNCHANGED <<used_map, pc, req, idx, best_idx, best_size, own>>, NEW d \in Client PROVE SearchOK(d)'
  <2>1. SearchOK(d) /\ Same(d) /\ used_map'[req[d].pool] = used_map[req[d].pool]
    BY <1>3 DEF SearchInv, Same
  <2> QED
    BY <2>1, Search_Same
<1>4. (\E c \in Client : Step(c)) \/ UNCHANGED <<used_map, pc, req, idx, best_idx, best_size, own>>
  BY DEF Next, Step, vars, regs, palloc_set_mode
<1> QED
  BY <1>1, <1>2, <1>3, <1>4 DEF SearchInv

LEMMA Search_Init == Init => SearchInv
<1> SUFFICES ASSUME Init PROVE SearchInv
  OBVIOUS
<1>1. \A c \in Client : SearchOK(c)
  BY DEF Init, SearchOK
<1> QED
  BY <1>1, Palloc_Init DEF SearchInv

LEMMA Search_Right == SearchInv => FitsRight
<1> SUFFICES ASSUME SearchInv PROVE FitsRight
  OBVIOUS
<1>1. FailsOnlyIfFull
  BY DEF SearchInv, SearchOK, FailsOnlyIfFull
<1>2. BestFit
  BY DEF SearchInv, SearchOK, BestFit, Fit, Tightest, Tighter
<1> QED
  BY <1>1, <1>2 DEF FitsRight

\* palloc_get_multiple() fails only if no pages are free in a row, in every mode, and
\* find_best_fit() ends with the first of the smallest holes that are large enough.
THEOREM Spec_FitsRight == Spec => []FitsRight
<1>1. Init => SearchInv
  BY Search_Init
<1>2. SearchInv /\ [Next]_vars => SearchInv'
  BY Search_Next
<1>3. SearchInv => FitsRight
  BY Search_Right
<1> QED
  BY <1>1, <1>2, <1>3, PTL DEF Spec

-----------------------------------------------------------------------------
(* Next fit *)

\* The distance from s to i around a circle of n.
LEMMA Around ==
  ASSUME NEW n \in Nat, NEW i \in 0 .. n - 1, NEW s \in 0 .. n - 1
  PROVE  (i - s) % n = IF i >= s THEN i - s ELSE i - s + n
<1>1. n > 0
  OBVIOUS
<1>2. CASE i >= s
  BY <1>1, <1>2
<1>3. CASE ~(i >= s)
  BY <1>1, <1>3
<1> QED
  BY <1>2, <1>3

\* The scan from s, then from the start, finds the group nearest to s.
LEMMA Nearest ==
  ASSUME NEW b, NEW size \in Nat, NEW cnt \in Nat, cnt > 0, NEW s \in Nat, s = 0 \/ s < size,
         Clear(b, size, 0, cnt) # {},
         NEW i, i = IF bitmap_scan(b, size, s, cnt) # BITMAP_ERROR THEN bitmap_scan(b, size, s, cnt)
                    ELSE bitmap_scan(b, size, 0, cnt)
  PROVE  /\ i \in Clear(b, size, 0, cnt)
         /\ \A j \in Clear(b, size, 0, cnt) : (i - s) % size <= (j - s) % size
<1> DEFINE S == Clear(b, size, 0, cnt)
           T == Clear(b, size, s, cnt)
<1>1. \A j \in S : j \in 0 .. size - cnt
  BY DEF Clear
<1>2. \A j : j \in T <=> j \in S /\ s <= j
  <2>1. \A j : j \in s .. size - cnt <=> j \in 0 .. size - cnt /\ s <= j
    OBVIOUS
  <2> QED
    BY <2>1 DEF Clear
<1>3. /\ IF T = {} THEN bitmap_scan(b, size, s, cnt) = BITMAP_ERROR
         ELSE bitmap_scan(b, size, s, cnt) \in T /\ \A j \in T : bitmap_scan(b, size, s, cnt) <= j
  BY Scan_First
<1>4. bitmap_scan(b, size, 0, cnt) \in S /\ \A j \in S : bitmap_scan(b, size, 0, cnt) <= j
  BY Scan_First
<1>5. \A j \in S : j \in 0 .. size - 1 /\ j # BITMAP_ERROR
  BY <1>1 DEF BITMAP_ERROR
<1> HIDE DEF S, T
<1>6. s \in 0 .. size - 1
  BY <1>5, <1>4
<1>7. \A j \in S : (j - s) % size = IF j >= s THEN j - s ELSE j - s + size
  BY <1>5, <1>6, Around
<1>8. CASE T # {}
  <2>1. i \in T /\ \A j \in T : i <= j
    BY <1>2, <1>3, <1>5, <1>8
  <2>2. i \in S /\ i >= s /\ i \in 0 .. size - 1
    BY <1>2, <1>5, <1>6, <2>1
  <2>3. ASSUME NEW j \in S PROVE (i - s) % size <= (j - s) % size
    <3>1. j \in 0 .. size - 1 /\ (j >= s => i <= j)
      BY <1>2, <1>5, <1>6, <2>1
    <3> QED
      BY <1>6, <1>7, <2>2, <3>1
  <2> QED
    BY <2>2, <2>3 DEF S
<1>9. CASE T = {}
  <2>1. i \in S /\ \A j \in S : i <= j
    BY <1>3, <1>4, <1>9
  <2>2. \A j \in S : ~(j >= s) /\ j \in 0 .. size - 1
    BY <1>2, <1>5, <1>6, <1>9
  <2>3. ASSUME NEW j \in S PROVE (i - s) % size <= (j - s) % size
    BY <1>6, <1>7, <2>1, <2>2
  <2> QED
    BY <2>1, <2>3 DEF S
<1> QED
  BY <1>8, <1>9

LEMMA Next_Start ==
  ASSUME NEW p \in Pool, NEW cnt \in Nat, cnt > 0, NEW i \in 0 .. bit_cnt(p) - cnt
  PROVE  next_start(p, i, cnt) = (i + cnt) % bit_cnt(p)
<1>1. bit_cnt(p) \in Nat /\ i \in Nat /\ i + cnt <= bit_cnt(p) /\ bit_cnt(p) > 0
  BY Geometry
<1>2. PICK n \in Nat, k \in Nat : n = bit_cnt(p) /\ k = i + cnt /\ k <= n /\ n > 0
  BY <1>1
<1>3. next_start(p, i, cnt) = IF k >= n THEN 0 ELSE k
  BY <1>2 DEF next_start
<1>4. CASE k = n
  <2>1. k % n = 0
    BY <1>2, <1>4
  <2> QED
    BY <1>2, <1>3, <1>4, <2>1
<1>5. CASE k < n
  <2>1. k % n = k
    BY <1>2, <1>5
  <2> QED
    BY <1>2, <1>3, <1>5, <2>1
<1> QED
  BY <1>2, <1>4, <1>5

LEMMA Next_Fit_Step == PallocInv /\ [Next]_vars => NextFitStep
<1> SUFFICES ASSUME PallocInv, [Next]_vars, NEW c \in Client,
                    pc[c] = "switch", pc'[c] = "unlock", req'[c].mode = "PAL_NEXT_FIT",
                    Clear(used_map[req[c].pool], bit_cnt(req[c].pool), 0, req[c].cnt) # {}
             PROVE  LET p == req[c].pool
                        away(i) == (i - next_fit_start_idx[p]) % bit_cnt(p)
                        Fits == Clear(used_map[p], bit_cnt(p), 0, req[c].cnt)
                    IN /\ idx'[c] \in Fits
                       /\ \A i \in Fits : away(idx'[c]) <= away(i)
                       /\ next_fit_start_idx'[p] = (idx'[c] + req[c].cnt) % bit_cnt(p)
  BY DEF NextFitStep
<1>1. /\ pc \in [Client -> {"run", "switch", "loop", "best", "unlock", "free"}]
      /\ req \in [Client -> [pool : Pool, cnt : 0 .. MaxCnt, mode : Mode]]
      /\ idx \in [Client -> Int] /\ next_fit_start_idx \in [Pool -> Nat]
      /\ \A p \in Pool : next_fit_start_idx[p] = 0 \/ next_fit_start_idx[p] < bit_cnt(p)
      /\ current_palloc_mode \in Mode
  BY DEF PallocInv, PallocTypeOK
<1>2. find_next_fit(c)
  <2>1. Step(c)
    <3>1. PICK d \in Client : Step(d)
      BY DEF Next, Step, vars, palloc_set_mode
    <3>2. d = c
      BY <3>1, Others DEF Same
    <3> QED
      BY <3>1, <3>2
  <2>2. ~find_first_fit(c)
    <3> SUFFICES ASSUME find_first_fit(c) PROVE FALSE
      OBVIOUS
    <3>1. req' = [req EXCEPT ![c].mode = current_palloc_mode] /\ current_palloc_mode \in {"PAL_FIRST_FIT", "PAL_BUDDY"}
      BY DEF find_first_fit, case
    <3>2. req'[c].mode = current_palloc_mode
      BY <1>1, <3>1
    <3> QED
      BY <3>1, <3>2
  <2>3. ~find_best_fit(c)
    BY <1>1 DEF find_best_fit, goto
  <2>4. \A p, cnt : ~palloc_get_multiple(c, p, cnt)
    BY DEF palloc_get_multiple
  <2>5. \A b : ~palloc_free_multiple(c, b)
    BY DEF palloc_free_multiple
  <2>6. ~best_fit_loop(c) /\ ~best_fit_end(c) /\ ~palloc_get_return(c) /\ ~palloc_free_return(c)
    BY DEF best_fit_loop, best_fit_end, palloc_get_return, palloc_free_return
  <2> QED
    BY <2>1, <2>2, <2>3, <2>4, <2>5, <2>6 DEF Step
<1>3. PICK p, cnt, s, i : /\ p = req[c].pool /\ cnt = req[c].cnt /\ s = next_fit_start_idx[p]
                          /\ i = next_fit(p, cnt)
  OBVIOUS
<1>4. p \in Pool /\ cnt \in Nat /\ cnt > 0 /\ bit_cnt(p) \in Nat /\ s \in Nat /\ (s = 0 \/ s < bit_cnt(p))
  <2>1. p \in Pool /\ cnt \in Nat /\ cnt > 0 /\ bit_cnt(p) \in Nat
    BY <1>3, Call_Numbers
  <2> QED
    BY <1>1, <1>3, <2>1
<1>5. idx'[c] = i
  BY <1>1, <1>2, <1>3 DEF find_next_fit, found
<1>6. /\ i \in Clear(used_map[p], bit_cnt(p), 0, cnt)
      /\ \A j \in Clear(used_map[p], bit_cnt(p), 0, cnt) : (i - s) % bit_cnt(p) <= (j - s) % bit_cnt(p)
  <2>1. i = IF bitmap_scan(used_map[p], bit_cnt(p), s, cnt) # BITMAP_ERROR
            THEN bitmap_scan(used_map[p], bit_cnt(p), s, cnt) ELSE bitmap_scan(used_map[p], bit_cnt(p), 0, cnt)
    BY <1>3 DEF next_fit
  <2> QED
    BY <1>3, <1>4, <2>1, Nearest, SMTT(60)
<1>7. i \in 0 .. bit_cnt(p) - cnt /\ i # BITMAP_ERROR
  <2>1. i \in 0 .. bit_cnt(p) - cnt
    BY <1>6 DEF Clear
  <2> QED
    BY <1>4, <2>1 DEF BITMAP_ERROR
<1>8. next_fit_start_idx'[p] = (i + cnt) % bit_cnt(p)
  <2>1. next_fit_start_idx' = [next_fit_start_idx EXCEPT ![p] = next_start(p, i, cnt)]
    BY <1>2, <1>3, <1>7 DEF find_next_fit
  <2>2. next_start(p, i, cnt) = (i + cnt) % bit_cnt(p)
    BY <1>4, <1>7, Next_Start
  <2> QED
    BY <1>1, <1>4, <2>1, <2>2
<1> QED
  BY <1>3, <1>5, <1>6, <1>8

\* find_next_fit() takes the first free group, searching circularly from the end of the block
\* it placed last.
THEOREM Spec_NextFit == Spec => NextFit
<1>1. Init => PallocInv
  BY Palloc_Init
<1>2. PallocInv /\ [Next]_vars => PallocInv'
  BY Palloc_Next
<1>3. PallocInv /\ [Next]_vars => NextFitStep
  BY Next_Fit_Step
<1> QED
  BY <1>1, <1>2, <1>3, PTL DEF Spec, NextFit
=============================================================================
