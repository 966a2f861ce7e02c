------------------------------- MODULE Malloc -------------------------------
(***************************************************************************)
(* The block allocator (threads/malloc.c).  Pages are numbered; a block is *)
(* the page of its arena and its offset in it.  What runs under a          *)
(* descriptor's lock is one step; the page allocator takes and gives back  *)
(* pages in one step and may place a request in any hole, as Palloc shows. *)
(***************************************************************************)
EXTENDS Integers, Sequences, FiniteSets, SequencesExt

CONSTANTS MThread,           \* threads
          Page,              \* the pages of the kernel pool, lo .. hi
          PAGE_SIZE,         \* PGSIZE, 4096 in the code
          ARENA,             \* sizeof (struct arena), 12 in the code
          MIN_BLOCK,         \* 16 in the code
          SIZE_T,            \* 2^32 in the code: the values of a size_t
          MSize              \* bound: the sizes that clients ask for

\* No request is so close to SIZE_T that adding an arena wraps around.
ASSUME MallocAssumption ==
  \A s \in MSize : s \in Nat /\ 2 * s + ARENA + PAGE_SIZE < SIZE_T

div_up(x, step) == ((x + step - 1) % SIZE_T) \div step

RECURSIVE sizes_from(_)
\* The loop of malloc_init().
sizes_from(n) == IF n < PAGE_SIZE \div 2 THEN <<n>> \o sizes_from(2 * n) ELSE <<>>

block_sizes == sizes_from(MIN_BLOCK)
Desc == DOMAIN block_sizes
blocks_per_arena(d) == (PAGE_SIZE - ARENA) \div block_sizes[d]

\* An arena's descriptor if it holds a big block.
Big == 0

VARIABLES arena,             \* desc and free_cnt of each page that starts one
          free_list,         \* of each descriptor
          taken,             \* the pages that the page allocator has given out
          owns,              \* the blocks of each thread, with the size asked for
          freeing,           \* blocks between the start of free() and its lock
          moving             \* realloc() calls between malloc() and memcpy()

mvars == <<arena, free_list, taken, owns, freeing, moving>>

NoArena == [desc |-> -1, free_cnt |-> 0]

MallocInit ==
  /\ arena = [p \in Page |-> NoArena]
  /\ free_list = [d \in Desc |-> <<>>]
  /\ taken = {}
  /\ owns = [t \in MThread |-> {}]
  /\ freeing = [t \in MThread |-> {}]
  /\ moving = [t \in MThread |-> <<>>]

\* arena_to_block()
arena_to_block(p, d, i) == [page |-> p, ofs |-> ARENA + i * block_sizes[d]]

\* The blocks of an arena, by address.
blocks(p, d) == [i \in 1 .. blocks_per_arena(d) |-> arena_to_block(p, d, i - 1)]

\* Runs of CNT pages that the page allocator can give.
Runs(cnt) == {p \in Page : p .. p + cnt - 1 \subseteq Page \ taken}

fits(d, size) == block_sizes[d] >= size

\* The first descriptor that fits, or none.
desc_of(size) ==
  LET D == {d \in Desc : fits(d, size)} IN IF D = {} THEN Big ELSE Min(D)

page_cnt(size) == div_up((size + ARENA) % SIZE_T, PAGE_SIZE)

big_block(size, p) ==
  LET cnt == page_cnt(size) IN
  /\ arena' = [arena EXCEPT ![p] = [desc |-> Big, free_cnt |-> cnt]]
  /\ taken' = taken \cup (p .. p + cnt - 1)
  /\ UNCHANGED free_list

\* Pop the front of free list L of descriptor D, after arenas A.
pop(a, d, l) ==
  /\ free_list' = [free_list EXCEPT ![d] = Tail(l)]
  /\ arena' = [a EXCEPT ![Head(l).page].free_cnt = @ - 1]

\* malloc (size) returns block B, which is NoBlock for NULL.
NoBlock == [page |-> -1, ofs |-> 0]

malloc(size, b) ==
  LET d == desc_of(size) IN
  \/ /\ size = 0 /\ b = NoBlock
     /\ UNCHANGED <<arena, free_list, taken>>
  \/ /\ size > 0 /\ d = Big
     /\ IF page_cnt(size) = 0 \/ Runs(page_cnt(size)) = {}
        THEN b = NoBlock /\ UNCHANGED <<arena, free_list, taken>>
        ELSE /\ b.page \in Runs(page_cnt(size)) /\ b.ofs = ARENA
             /\ big_block(size, b.page)
  \/ /\ size > 0 /\ d # Big /\ free_list[d] # <<>>
     /\ b = Head(free_list[d])
     /\ pop(arena, d, free_list[d])
     /\ UNCHANGED taken
  \/ /\ size > 0 /\ d # Big /\ free_list[d] = <<>>
     /\ IF Runs(1) = {} THEN b = NoBlock /\ UNCHANGED <<arena, free_list, taken>>
        ELSE /\ b.page \in Runs(1) /\ b = arena_to_block(b.page, d, 0)
             /\ taken' = taken \cup {b.page}
             /\ pop([arena EXCEPT ![b.page] = [desc |-> d, free_cnt |-> blocks_per_arena(d)]],
                    d, blocks(b.page, d))

Blocks == [page : Page, ofs : {ARENA + i * MIN_BLOCK : i \in 0 .. PAGE_SIZE \div MIN_BLOCK}] \cup {NoBlock}

given(t, b, size) ==
  owns' = IF b = NoBlock THEN owns
          ELSE [owns EXCEPT ![t] = @ \cup {[block |-> b, size |-> size]}]

idle(t) == freeing[t] = {} /\ moving[t] = <<>>

\* A call of malloc() from outside.
call_malloc(t, size, b) ==
  /\ idle(t)
  /\ malloc(size, b)
  /\ given(t, b, size)
  /\ UNCHANGED <<freeing, moving>>

\* calloc()'s product, and its test that the product fits in a size_t.
calloc_size(a, b) == (a * b) % SIZE_T
calloc_refuses(a, b) == calloc_size(a, b) < a \/ calloc_size(a, b) < b

calloc(t, x, y, b) ==
  /\ ~calloc_refuses(x, y)
  /\ call_malloc(t, calloc_size(x, y), b)

block_size(b) ==
  LET a == arena[b.page]
  IN IF a.desc # Big THEN block_sizes[a.desc] ELSE PAGE_SIZE * a.free_cnt - b.ofs

\* free() up to the lock: the arena and its descriptor are read, the block of
\* a descriptor is overwritten.
free(t, o) ==
  /\ idle(t) /\ o \in owns[t]
  /\ owns' = [owns EXCEPT ![t] = @ \ {o}]
  /\ freeing' = [freeing EXCEPT ![t] = {[block |-> o.block, desc |-> arena[o.block.page].desc]}]
  /\ UNCHANGED <<arena, free_list, taken, moving>>

\* Mutation: an arena goes back one block too early.
unused_early(n, d) == n + 1 >= blocks_per_arena(d)

unused(n, d) == n >= blocks_per_arena(d)

\* list_remove() of every block of an arena
without_arena(l, p) == SelectSeq(l, LAMBDA b : b.page # p)

\* free() from the lock on, or palloc_free_multiple() for a big block.
free_end(t) ==
  \E f \in freeing[t] :
    LET p == f.block.page
        l == <<f.block>> \o free_list[f.desc]
        n == arena[p].free_cnt + 1
    IN /\ freeing' = [freeing EXCEPT ![t] = {}]
       /\ \/ /\ f.desc = Big
             /\ taken' = taken \ (p .. p + arena[p].free_cnt - 1)
             /\ arena' = [arena EXCEPT ![p] = NoArena]
             /\ UNCHANGED free_list
          \/ /\ f.desc # Big /\ unused(n, f.desc)
             /\ free_list' = [free_list EXCEPT ![f.desc] = without_arena(l, p)]
             /\ arena' = [arena EXCEPT ![p] = NoArena]
             /\ taken' = taken \ {p}
          \/ /\ f.desc # Big /\ ~unused(n, f.desc)
             /\ free_list' = [free_list EXCEPT ![f.desc] = l]
             /\ arena' = [arena EXCEPT ![p].free_cnt = n]
             /\ UNCHANGED taken
       /\ UNCHANGED <<owns, moving>>

\* realloc() of O, up to and including malloc(); size 0 is free().  It returns
\* NULL and leaves O alone if there is no memory.
realloc(t, o, size, b) ==
  /\ idle(t) /\ o \in owns[t] /\ size > 0
  /\ malloc(size, b)
  /\ moving' = IF b = NoBlock THEN moving
               ELSE [moving EXCEPT ![t] = <<[from |-> o, to |-> b, size |-> size]>>]
  /\ UNCHANGED <<owns, freeing>>

smaller(a, b) == IF a < b THEN a ELSE b

min_size(new_size, old_size) == smaller(new_size, old_size)

\* memcpy() of the contents, then the start of free (old_block).
realloc_copy(t) ==
  /\ moving[t] # <<>>
  /\ LET m == Head(moving[t])
     IN /\ owns' = [owns EXCEPT ![t] = (@ \ {m.from}) \cup {[block |-> m.to, size |-> m.size]}]
        /\ freeing' = [freeing EXCEPT ![t] = {[block |-> m.from.block, desc |-> arena[m.from.block.page].desc]}]
  /\ moving' = [moving EXCEPT ![t] = <<>>]
  /\ UNCHANGED <<arena, free_list, taken>>

MallocNext ==
  \E t \in MThread :
    \/ \E size \in MSize, b \in Blocks : call_malloc(t, size, b)
    \/ \E x \in {2}, y \in MSize, b \in Blocks : calloc(t, x, y, b)
    \/ \E o \in owns[t] : free(t, o)
    \/ free_end(t)
    \/ \E o \in owns[t], size \in MSize, b \in Blocks : realloc(t, o, size, b)
    \/ realloc_copy(t)

----------------------------------------------------------------------------
(* Properties *)

\* The blocks that threads have, with the ones that they are about to give
\* back and the ones that realloc() is filling.
Held ==
  UNION {{o.block : o \in owns[t]} \cup {f.block : f \in freeing[t]}
         \cup {m.to : m \in Range(moving[t])} : t \in MThread}

\* The bytes of a block, over all pages.
Bytes(b) == LET start == b.page * PAGE_SIZE + b.ofs IN start .. start + block_size(b) - 1

\* The blocks of an arena are on its descriptor's free list or held, never
\* both and never neither; free_cnt is the number on the list, which names no
\* other block and none twice.  An arena all of whose blocks are free has gone
\* back, and the pages taken are those of the arenas.
FreeListExact ==
  /\ \A d \in Desc : Cardinality(Range(free_list[d])) = Len(free_list[d])
  /\ \A d \in Desc : \A b \in Range(free_list[d]) : arena[b.page].desc = d
  /\ \A p \in Page : arena[p].desc \in Desc =>
       LET d == arena[p].desc
           mine == Range(blocks(p, d))
           onlist == mine \cap Range(free_list[d])
       IN /\ arena[p].free_cnt = Cardinality(onlist)
          /\ onlist = mine \ Held
          /\ onlist # mine
  /\ taken = UNION {IF arena[p].desc = Big THEN p .. p + arena[p].free_cnt - 1 ELSE {p} :
                      p \in {q \in Page : arena[q].desc # -1}}

\* Blocks that are held do not overlap, and each lies in a live arena behind
\* its header, so that block_to_arena() finds the arena.
HeldDisjoint ==
  /\ \A b \in Held : arena[b.page].desc # -1 /\ b.ofs >= ARENA
  /\ \A b, c \in Held : b = c \/ Bytes(b) \cap Bytes(c) = {}

\* A block has at least the bytes that were asked for, header apart, whichever
\* of malloc(), calloc() and realloc() it came from.
LargeEnough == \A t \in MThread : \A o \in owns[t] : block_size(o.block) >= o.size

\* The copy in realloc() stays inside both blocks and takes along all that the
\* caller had asked for, as far as the new block is to hold it.
CopyFits ==
  \A t \in MThread : \A m \in Range(moving[t]) :
    LET n == min_size(m.size, block_size(m.from.block))
    IN /\ n <= block_size(m.to) /\ n <= block_size(m.from.block)
       /\ n >= smaller(m.from.size, m.size)

\* free()'s descriptor, read before its lock is taken, is still the arena's
\* when the lock is held: the block itself keeps the arena from going away.
DescNotStale ==
  \A t \in MThread : \A f \in freeing[t] : arena[f.block.page].desc = f.desc

\* The heap is in order while threads allocate, free and move blocks between
\* each other's steps: every block is free or held, held blocks are apart and
\* large enough, and neither realloc()'s copy nor free()'s early look at the
\* arena goes wrong.
HeapOK == FreeListExact /\ HeldDisjoint /\ LargeEnough /\ CopyFits /\ DescNotStale
=============================================================================
