------------------------------- MODULE Palloc -------------------------------
(***************************************************************************)
(* The page allocator (threads/palloc.c) on the bitmap of                  *)
(* lib/kernel/bitmap.c.  Two pools; first, next and best fit; PAL_BUDDY,   *)
(* which the code serves by first fit.                                     *)
(*                                                                         *)
(* Pages have absolute page numbers.  A pool's lock is held from           *)
(* lock_acquire() to lock_release(); that at most one thread is between    *)
(* the two is what Synch shows, so taking the lock is one step here.  The  *)
(* allocation mode is a plain global that any thread may set at any time.  *)
(* The boot-time callers that pass PAL_ASSERT panic where others get NULL. *)
(***************************************************************************)
EXTENDS Integers, FiniteSets

CONSTANTS Client,           \* threads that allocate and free
          free_pages,       \* pages of RAM above 1 MB
          user_page_limit,  \* palloc_init()'s argument
          MaxCnt,           \* bound: largest number of pages requested at once
          NoClient          \* NULL

PGSIZE == 4096
FREE_START == 256    \* the page at 1 MB
BITMAP_ERROR == -1   \* SIZE_MAX as a size_t
SIZE_MAX == free_pages + 1   \* above the size of any hole
Mode == {"PAL_FIRST_FIT", "PAL_NEXT_FIT", "PAL_BEST_FIT", "PAL_BUDDY"}

----------------------------------------------------------------------------
(* palloc_init() and init_pool() *)

div_round_up(x, step) == (x + step - 1) \div step

\* bitmap_buf_size(): struct bitmap and its 32-bit elements
bitmap_buf_size(bit_cnt) == 8 + 4 * div_round_up(bit_cnt, 32)

bm_pages(page_cnt) == div_round_up(bitmap_buf_size(page_cnt), PGSIZE)

user_pages == IF free_pages \div 2 > user_page_limit THEN user_page_limit ELSE free_pages \div 2
kernel_pages == free_pages - user_pages

Pool == {"kernel_pool", "user_pool"}

pool_start(p) == IF p = "kernel_pool" THEN FREE_START ELSE FREE_START + kernel_pages
pool_pages(p) == IF p = "kernel_pool" THEN kernel_pages ELSE user_pages

\* The pool's used_map takes the first pages of the pool.
base(p) == pool_start(p) + bm_pages(pool_pages(p))
bit_cnt(p) == pool_pages(p) - bm_pages(pool_pages(p))

\* init_pool() panics unless each bitmap fits into its pool.
ASSUME PallocAssumption ==
  /\ free_pages \in Nat /\ user_page_limit \in Nat /\ MaxCnt \in Nat
  /\ \A p \in Pool : bit_cnt(p) >= 0
  /\ NoClient \notin Client

----------------------------------------------------------------------------
(* lib/kernel/bitmap.c; a bitmap is the set of its set bits *)

Bits(start, cnt) == start .. start + cnt - 1

\* !bitmap_contains (b, start, cnt, true)
bitmap_none(b, start, cnt) == Bits(start, cnt) \cap b = {}

bitmap_all(b, start, cnt) == Bits(start, cnt) \subseteq b

\* The starts at or after START of CNT clear bits in B, a bitmap of SIZE bits.
Clear(b, size, start, cnt) == {i \in start .. size - cnt : bitmap_none(b, i, cnt)}

\* bitmap_scan (b, start, cnt, false)
bitmap_scan(b, size, start, cnt) ==
  LET S == Clear(b, size, start, cnt)
  IN IF S = {} THEN BITMAP_ERROR ELSE CHOOSE i \in S : \A j \in S : i <= j

----------------------------------------------------------------------------
VARIABLES used_map,             \* pool->used_map
          next_fit_start_idx,   \* pool->next_fit_start_idx
          current_palloc_mode,
          lock,                 \* the client that holds pool->lock
          pc,                   \* where a client is in palloc.c
          req,                  \* the pool and page_cnt of its call
          idx,                  \* page_idx; in find_best_fit() the loop's idx
          best_idx, best_size,  \* of find_best_fit()
          own                   \* the blocks a client has got and not freed

regs == <<idx, best_idx, best_size>>
vars == <<used_map, next_fit_start_idx, current_palloc_mode, lock, pc, req, regs, own>>

\* A block of pages as the caller sees it.
Block == [page : Nat, cnt : 1 .. MaxCnt]

NoReq == [pool |-> "kernel_pool", cnt |-> 0, mode |-> "PAL_FIRST_FIT"]

Init ==
  /\ used_map = [p \in Pool |-> {}]
  /\ next_fit_start_idx = [p \in Pool |-> 0]
  /\ current_palloc_mode = "PAL_FIRST_FIT"
  /\ lock = [p \in Pool |-> NoClient]
  /\ pc = [c \in Client |-> "run"]
  /\ req = [c \in Client |-> NoReq]
  /\ idx = [c \in Client |-> 0]
  /\ best_idx = [c \in Client |-> 0]
  /\ best_size = [c \in Client |-> 0]
  /\ own = [c \in Client |-> {}]

palloc_set_mode(mode) ==
  /\ current_palloc_mode' = mode
  /\ UNCHANGED <<used_map, next_fit_start_idx, lock, pc, req, regs, own>>

goto(c, l) == pc' = [pc EXCEPT ![c] = l]

lock_acquire(c, p) == lock[p] = NoClient /\ lock' = [lock EXCEPT ![p] = c]

\* palloc_get_multiple() up to the switch; page_cnt = 0 returns at once.
palloc_get_multiple(c, p, cnt) ==
  /\ pc[c] = "run"
  /\ lock_acquire(c, p)
  /\ req' = [req EXCEPT ![c].pool = p, ![c].cnt = cnt]
  /\ goto(c, "switch")
  /\ UNCHANGED <<used_map, next_fit_start_idx, current_palloc_mode, regs, own>>

\* case MODE of the switch; the mode is read under the lock, but is not
\* protected by it.
case(c, modes) ==
  /\ pc[c] = "switch"
  /\ current_palloc_mode \in modes
  /\ req' = [req EXCEPT ![c].mode = current_palloc_mode]

\* bitmap_set_multiple (..., true) on the group found, if one was.
set_bits(c, i) ==
  used_map' = IF i = BITMAP_ERROR THEN used_map
              ELSE [used_map EXCEPT ![req[c].pool] = @ \cup Bits(i, req[c].cnt)]

\* The end of a search with result i.
found(c, i) ==
  /\ set_bits(c, i)
  /\ idx' = [idx EXCEPT ![c] = i]
  /\ goto(c, "unlock")

find_first_fit(c) ==
  LET p == req[c].pool IN
  /\ case(c, {"PAL_FIRST_FIT", "PAL_BUDDY"})
  /\ found(c, bitmap_scan(used_map[p], bit_cnt(p), 0, req[c].cnt))
  /\ UNCHANGED <<next_fit_start_idx, current_palloc_mode, lock, best_idx, best_size, own>>

\* Mutation: the second scan, from the start, is missing.
next_fit_once(p, cnt) == bitmap_scan(used_map[p], bit_cnt(p), next_fit_start_idx[p], cnt)

\* From next_fit_start_idx on, then from the start.
next_fit(p, cnt) ==
  LET i == bitmap_scan(used_map[p], bit_cnt(p), next_fit_start_idx[p], cnt)
  IN IF i # BITMAP_ERROR THEN i ELSE bitmap_scan(used_map[p], bit_cnt(p), 0, cnt)

next_start(p, i, cnt) == IF i + cnt >= bit_cnt(p) THEN 0 ELSE i + cnt

find_next_fit(c) ==
  LET p == req[c].pool
      i == next_fit(p, req[c].cnt)
  IN /\ case(c, {"PAL_NEXT_FIT"})
     /\ found(c, i)
     /\ next_fit_start_idx' = IF i = BITMAP_ERROR THEN next_fit_start_idx
                              ELSE [next_fit_start_idx EXCEPT ![p] = next_start(p, i, req[c].cnt)]
     /\ UNCHANGED <<current_palloc_mode, lock, best_idx, best_size, own>>

\* find_best_fit() up to its loop.
find_best_fit(c) ==
  /\ case(c, {"PAL_BEST_FIT"})
  /\ idx' = [idx EXCEPT ![c] = 0]
  /\ best_idx' = [best_idx EXCEPT ![c] = BITMAP_ERROR]
  /\ best_size' = [best_size EXCEPT ![c] = SIZE_MAX]
  /\ goto(c, "loop")
  /\ UNCHANGED <<used_map, next_fit_start_idx, current_palloc_mode, lock, own>>

\* The clear bits from bit I on, up to a set bit or the end.
free_cnt(p, i) == CHOOSE n \in 0 .. bit_cnt(p) - i :
                    /\ bitmap_none(used_map[p], i, n)
                    /\ i + n = bit_cnt(p) \/ i + n \in used_map[p]

\* Mutation: a later hole of the same size wins, and a larger one too.
better_any(n, cnt, size) == n >= cnt

better(n, cnt, size) == n >= cnt /\ n < size

\* One iteration of find_best_fit()'s loop, or its end.
best_fit_loop(c) ==
  LET p == req[c].pool
      cnt == req[c].cnt
      free_start == bitmap_scan(used_map[p], bit_cnt(p), idx[c], 1)
      n == free_cnt(p, free_start)
      take == better(n, cnt, best_size[c])
  IN /\ pc[c] = "loop"
     /\ IF idx[c] >= bit_cnt(p) \/ free_start = BITMAP_ERROR
        THEN goto(c, "best") /\ UNCHANGED regs
        ELSE /\ best_idx' = IF take THEN [best_idx EXCEPT ![c] = free_start] ELSE best_idx
             /\ best_size' = IF take THEN [best_size EXCEPT ![c] = n] ELSE best_size
             /\ IF take /\ n = cnt
                THEN goto(c, "best") /\ UNCHANGED idx
                ELSE idx' = [idx EXCEPT ![c] = free_start + n] /\ UNCHANGED pc
     /\ UNCHANGED <<used_map, next_fit_start_idx, current_palloc_mode, lock, req, own>>

best_fit_end(c) ==
  /\ pc[c] = "best"
  /\ found(c, best_idx[c])
  /\ UNCHANGED <<next_fit_start_idx, current_palloc_mode, lock, req, best_idx, best_size, own>>

\* lock_release() and the return from palloc.c, which ends C's locals.
lock_release(c) ==
  /\ lock' = [lock EXCEPT ![req[c].pool] = NoClient]
  /\ req' = [req EXCEPT ![c] = NoReq]
  /\ idx' = [idx EXCEPT ![c] = 0]
  /\ best_idx' = [best_idx EXCEPT ![c] = 0]
  /\ best_size' = [best_size EXCEPT ![c] = 0]
  /\ goto(c, "run")

\* The block that pages = pool->base + PGSIZE * page_idx names.
block(c) == [page |-> base(req[c].pool) + idx[c], cnt |-> req[c].cnt]

\* palloc_get_multiple() from lock_release() on.
palloc_get_return(c) ==
  /\ pc[c] = "unlock"
  /\ lock_release(c)
  /\ own' = IF idx[c] = BITMAP_ERROR THEN own ELSE [own EXCEPT ![c] = @ \cup {block(c)}]
  /\ UNCHANGED <<used_map, next_fit_start_idx, current_palloc_mode>>

\* Mutation: the end of the pool is not looked at.
page_from_pool_open(p, page) == page >= base(p)

page_from_pool(p, page) == page >= base(p) /\ page < base(p) + bit_cnt(p)

pool_of(page) == IF page_from_pool("kernel_pool", page) THEN "kernel_pool" ELSE "user_pool"

\* palloc_free_multiple() up to lock_acquire().
palloc_free_multiple(c, b) ==
  /\ pc[c] = "run" /\ b \in own[c]
  /\ lock_acquire(c, pool_of(b.page))
  /\ req' = [req EXCEPT ![c].pool = pool_of(b.page), ![c].cnt = b.cnt]
  /\ idx' = [idx EXCEPT ![c] = b.page - base(pool_of(b.page))]
  /\ own' = [own EXCEPT ![c] = @ \ {b}]
  /\ goto(c, "free")
  /\ UNCHANGED <<used_map, next_fit_start_idx, current_palloc_mode, best_idx, best_size>>

palloc_free_return(c) ==
  /\ pc[c] = "free"
  /\ used_map' = [used_map EXCEPT ![req[c].pool] = @ \ Bits(idx[c], req[c].cnt)]
  /\ lock_release(c)
  /\ UNCHANGED <<next_fit_start_idx, current_palloc_mode, own>>

Next ==
  \/ \E mode \in Mode : palloc_set_mode(mode)
  \/ \E c \in Client :
       \/ \E p \in Pool, cnt \in 1 .. MaxCnt : palloc_get_multiple(c, p, cnt)
       \/ find_first_fit(c)
       \/ find_next_fit(c)
       \/ find_best_fit(c)
       \/ best_fit_loop(c)
       \/ best_fit_end(c)
       \/ palloc_get_return(c)
       \/ \E b \in own[c] : palloc_free_multiple(c, b)
       \/ palloc_free_return(c)

Spec == Init /\ [][Next]_vars
----------------------------------------------------------------------------
(* Properties *)

\* The blocks C has a claim on: returned to it, on the way out of
\* palloc_get_multiple(), or on the way back in palloc_free_multiple().
Live(c) ==
  own[c] \cup (IF pc[c] = "free" \/ (pc[c] = "unlock" /\ idx[c] # BITMAP_ERROR)
               THEN {block(c)} ELSE {})

Pages(b) == b.page .. b.page + b.cnt - 1

\* Every variable has its type.  next_fit_start_idx stays a bit of its
\* bitmap, as the assertion of bitmap_scan() needs.
PallocTypeOK ==
  /\ used_map \in [Pool -> SUBSET Int]
  /\ \A p \in Pool : used_map[p] \subseteq Bits(0, bit_cnt(p))
  /\ next_fit_start_idx \in [Pool -> Nat]
  /\ \A p \in Pool : next_fit_start_idx[p] = 0 \/ next_fit_start_idx[p] < bit_cnt(p)
  /\ current_palloc_mode \in Mode
  /\ lock \in [Pool -> Client \cup {NoClient}]
  /\ pc \in [Client -> {"run", "switch", "loop", "best", "unlock", "free"}]
  /\ req \in [Client -> [pool : Pool, cnt : 0 .. MaxCnt, mode : Mode]]
  /\ idx \in [Client -> Int] /\ best_idx \in [Client -> Int] /\ best_size \in [Client -> Nat]
  /\ own \in [Client -> SUBSET Block]

\* No page is in two blocks handed out, whatever mixture of modes and of
\* clients got them: palloc_get_multiple() returns free pages.
BlocksDisjoint ==
  \A c1, c2 \in Client : \A b1 \in Live(c1), b2 \in Live(c2) :
    (c1 = c2 /\ b1 = b2) \/ Pages(b1) \cap Pages(b2) = {}

\* A pool's used_map says exactly which of its pages are in a block: no page
\* is lost (set but in no block) or handed out unmarked, and no block reaches
\* out of its pool.
UsedMapExact ==
  /\ \A p \in Pool : {base(p) + i : i \in used_map[p]} =
       {n \in base(p) .. base(p) + bit_cnt(p) - 1 : \E c \in Client : \E b \in Live(c) : n \in Pages(b)}
  /\ \A c \in Client : \A b \in Live(c) :
       \E p \in Pool : Pages(b) \subseteq base(p) .. base(p) + bit_cnt(p) - 1

\* palloc_free_multiple() always finds the pages it clears marked as used in
\* the pool it chose from the address: its assertion never fails.
FreeFindsUsed ==
  \A c \in Client : pc[c] = "free" => /\ req[c].cnt > 0
                                      /\ bitmap_all(used_map[req[c].pool], idx[c], req[c].cnt)

\* No page is in two blocks that palloc_get_multiple() returned, a pool's
\* used_map marks the pages of the blocks handed out and no others, and the
\* assertion of palloc_free_multiple() holds.
PagesExact == PallocTypeOK /\ BlocksDisjoint /\ UsedMapExact /\ FreeFindsUsed

\* palloc_get_multiple() fails only if no PAGE_CNT free pages of the pool
\* are contiguous, in every mode: next fit looks everywhere once, and best
\* fit's loop passes over no hole.
FailsOnlyIfFull ==
  \A c \in Client : (pc[c] = "unlock" /\ idx[c] = BITMAP_ERROR) =>
    Clear(used_map[req[c].pool], bit_cnt(req[c].pool), 0, req[c].cnt) = {}

\* The maximal groups of clear bits.
Hole(p) == {h \in [start : Bits(0, bit_cnt(p)), size : 1 .. bit_cnt(p)] :
              /\ h.start + h.size <= bit_cnt(p)
              /\ bitmap_none(used_map[p], h.start, h.size)
              /\ h.start = 0 \/ h.start - 1 \in used_map[p]
              /\ h.start + h.size = bit_cnt(p) \/ h.start + h.size \in used_map[p]}

\* find_best_fit() ends its loop with the smallest hole that is large enough,
\* the first of them if several are, and with none only if none is.
BestFit ==
  \A c \in Client : pc[c] = "best" =>
    LET Fits == {h \in Hole(req[c].pool) : h.size >= req[c].cnt}
    IN IF Fits = {} THEN best_idx[c] = BITMAP_ERROR
       ELSE \E h \in Fits : /\ best_idx[c] = h.start
                            /\ \A g \in Fits : h.size < g.size \/ (h.size = g.size /\ h.start <= g.start)

\* A step of find_next_fit() takes the first group that is free when the pool is
\* searched circularly from the end of the block it placed last.
NextFitStep ==
  \A c \in Client :
    (pc[c] = "switch" /\ pc'[c] = "unlock" /\ req'[c].mode = "PAL_NEXT_FIT") =>
      LET p == req[c].pool
          away(i) == (i - next_fit_start_idx[p]) % bit_cnt(p)
          Fits == Clear(used_map[p], bit_cnt(p), 0, req[c].cnt)
      IN Fits # {} => /\ idx'[c] \in Fits
                      /\ \A i \in Fits : away(idx'[c]) <= away(i)
                      /\ next_fit_start_idx'[p] = (idx'[c] + req[c].cnt) % bit_cnt(p)

\* Over every pattern of holes, find_best_fit() takes the smallest hole that
\* fits, and palloc_get_multiple() returns NULL only if no hole fits.
FitsRight == FailsOnlyIfFull /\ BestFit

\* Every step of find_next_fit() takes the first hole that fits, circularly from
\* the end of the last block.
NextFit == [][NextFitStep]_vars

\* What the project's README asks of the buddy system: a request for s pages
\* is served with a block of 2^k, 2^(k-1) < s <= 2^k, got by halving the memory,
\* so that it starts at a multiple of 2^k.
BuddyBlocks ==
  \A c \in Client : (pc[c] = "unlock" /\ req[c].mode = "PAL_BUDDY" /\ idx[c] # BITMAP_ERROR) =>
    \E k \in 0 .. MaxCnt : /\ req[c].cnt <= 2^k
                           /\ k = 0 \/ 2^(k-1) < req[c].cnt
                           /\ idx[c] % 2^k = 0
=============================================================================
