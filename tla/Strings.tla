------------------------------ MODULE Strings ------------------------------
(***************************************************************************)
(* The string functions of lib/string.c on a small memory: bytes at        *)
(* addresses 0 .. MemSize - 1, of which the last is always 0, so that      *)
(* every address starts a string.  Loops are written as recursions that    *)
(* take the same steps; the properties compare them with what the comments *)
(* promise.                                                                *)
(***************************************************************************)
EXTENDS Integers, Sequences

CONSTANTS MemSize,         \* bytes of memory
          Byte             \* their values, 0 .. n

Addr == 0 .. MemSize - 1
NULL_PTR == -1

VARIABLES memory,
          before,          \* memory before the last call
          scall,           \* the last call: [fn, dst, src, size, set, ret]
          save_ptr         \* strtok_r()'s

stringvars == <<memory, before, scall, save_ptr>>

no_call == [fn |-> "none", dst |-> 0, src |-> 0, size |-> 0, set |-> {}, ret |-> 0]

StringsInit ==
  /\ memory = [a \in Addr |-> 0]
  /\ before = memory
  /\ scall = no_call
  /\ save_ptr = NULL_PTR

\* A program puts some bytes in memory.
fill(m) ==
  /\ scall.fn = "none" /\ m[MemSize - 1] = 0
  /\ memory' = m /\ before' = m
  /\ scall' = [no_call EXCEPT !.fn = "fill"]
  /\ UNCHANGED save_ptr

----------------------------------------------------------------------------
(* The functions.  m is the memory, p, dst and src are addresses. *)

\* The first address from p on whose byte is not in s.
RECURSIVE skip(_, _, _)
skip(m, p, s) == IF m[p] \in s THEN skip(m, p + 1, s) ELSE p

strlen(m, p) == skip(m, p, Byte \ {0}) - p

strchr(m, p, c) == LET q == skip(m, p, Byte \ {c, 0}) IN IF m[q] = c THEN q ELSE NULL_PTR

\* strchr(delimiters, c) is not null: true of the null byte as well.
found_in(s) == s \cup {0}

strcspn(m, p, stop) == skip(m, p, Byte \ found_in(stop)) - p
strspn(m, p, skipped) == skip(m, p, skipped \ {0}) - p
strpbrk(m, p, stop) == LET q == skip(m, p, Byte \ found_in(stop)) IN IF m[q] = 0 THEN NULL_PTR ELSE q

RECURSIVE last_seen(_, _, _, _)
last_seen(m, p, c, seen) == IF m[p] = 0 THEN seen ELSE last_seen(m, p + 1, c, IF m[p] = c THEN p ELSE seen)

strrchr(m, p, c) == last_seen(m, p, c, NULL_PTR)

RECURSIVE strnlen_from(_, _, _, _)
strnlen_from(m, p, n, max) == IF m[p + n] # 0 /\ n < max THEN strnlen_from(m, p, n + 1, max) ELSE n
strnlen(m, p, max) == strnlen_from(m, p, 0, max)

RECURSIVE memchr(_, _, _, _)
memchr(m, p, c, n) == IF n = 0 THEN NULL_PTR ELSE IF m[p] = c THEN p ELSE memchr(m, p + 1, c, n - 1)

sign(a, b) == IF a < b THEN -1 ELSE IF a > b THEN 1 ELSE 0

RECURSIVE memcmp(_, _, _, _)
memcmp(m, a, b, n) == IF n = 0 THEN 0 ELSE IF m[a] # m[b] THEN sign(m[a], m[b]) ELSE memcmp(m, a + 1, b + 1, n - 1)

RECURSIVE strcmp(_, _, _)
strcmp(m, a, b) == IF m[a] # 0 /\ m[a] = m[b] THEN strcmp(m, a + 1, b + 1) ELSE sign(m[a], m[b])

RECURSIVE strstr_from(_, _, _, _)
strstr_from(m, h, needle, last) ==
  IF h > last THEN NULL_PTR
  ELSE IF memcmp(m, h, needle, strlen(m, needle)) = 0 THEN h ELSE strstr_from(m, h + 1, needle, last)

\* The last place where the needle fits.
last_place(m, h, needle) == h + strlen(m, h) - strlen(m, needle)

strstr(m, h, needle) ==
  IF strlen(m, h) >= strlen(m, needle)
  THEN strstr_from(m, h, needle, last_place(m, h, needle)) ELSE NULL_PTR

\* The loop of memcpy(), upwards, and the second one of memmove(), downwards.
RECURSIVE copy_up(_, _, _, _)
copy_up(m, dst, src, n) == IF n = 0 THEN m ELSE copy_up([m EXCEPT ![dst] = m[src]], dst + 1, src + 1, n - 1)
RECURSIVE copy_down(_, _, _, _)
copy_down(m, dst, src, n) ==
  IF n = 0 THEN m ELSE copy_down([m EXCEPT ![dst + n - 1] = m[src + n - 1]], dst, src, n - 1)

memcpy(m, dst, src, n) == copy_up(m, dst, src, n)

\* memmove()'s effect on memory.
moved_bytes(m, dst, src, n) == IF dst < src THEN copy_up(m, dst, src, n) ELSE copy_down(m, dst, src, n)

lesser(a, b) == IF a < b THEN a ELSE b

strlcpy(m, dst, src, size) ==
  LET len == lesser(strlen(m, src), size - 1)
  IN IF size = 0 THEN m ELSE [memcpy(m, dst, src, len) EXCEPT ![dst + len] = 0]

copy_cnt(m, dst, src, size) == lesser(strlen(m, src), size - strlen(m, dst) - 1)

strlcat(m, dst, src, size) ==
  LET end == strlen(m, dst)
      cnt == copy_cnt(m, dst, src, size)
  IN IF size > 0 /\ end < size
     THEN [memcpy(m, dst + end, src, cnt) EXCEPT ![dst + end + cnt] = 0] ELSE m

RECURSIVE memset(_, _, _, _)
memset(m, dst, c, n) == IF n = 0 THEN m ELSE memset([m EXCEPT ![dst] = c], dst + 1, c, n - 1)

\* Mutation: the tokenizer's position is the delimiter's.
saved_at(m, p) == p

\* strtok_r()'s *save_ptr for a token that ends at p.
saved(m, p) == IF m[p] # 0 THEN p + 1 ELSE p

----------------------------------------------------------------------------
(* Calls *)

returns(fn, dst, src, size, set, ret) ==
  /\ scall' = [fn |-> fn, dst |-> dst, src |-> src, size |-> size, set |-> set, ret |-> ret]
  /\ before' = memory

reads(fn, src, size, set, ret) ==
  returns(fn, 0, src, size, set, ret) /\ UNCHANGED <<memory, save_ptr>>

search(p, c) ==
  /\ scall.fn = "fill"
  /\ \/ reads("strlen", p, 0, {}, strlen(memory, p))
     \/ reads("strchr", p, 0, {c}, strchr(memory, p, c))
     \/ reads("strrchr", p, 0, {c}, strrchr(memory, p, c))
     \/ \E n \in 0 .. MemSize - p :
          reads("strnlen", p, n, {}, strnlen(memory, p, n)) \/ reads("memchr", p, n, {c}, memchr(memory, p, c, n))

search_set(p, s) ==
  /\ scall.fn = "fill"
  /\ \/ reads("strcspn", p, 0, s, strcspn(memory, p, s))
     \/ reads("strspn", p, 0, s, strspn(memory, p, s))
     \/ reads("strpbrk", p, 0, s, strpbrk(memory, p, s))

compare(a, b, n) ==
  /\ scall.fn = "fill"
  /\ \/ returns("memcmp", a, b, n, {}, memcmp(memory, a, b, n)) /\ UNCHANGED <<memory, save_ptr>>
     \/ returns("strcmp", a, b, 0, {}, strcmp(memory, a, b)) /\ UNCHANGED <<memory, save_ptr>>
     \/ returns("strstr", a, b, 0, {}, strstr(memory, a, b)) /\ UNCHANGED <<memory, save_ptr>>

apart(a, n, b, k) == a + n <= b \/ b + k <= a

\* memmove() returns the address after the copy if it copies upwards.
write(dst, src, n, c) ==
  /\ scall.fn = "fill"
  /\ UNCHANGED save_ptr
  /\ \/ /\ memory' = moved_bytes(memory, dst, src, n)
        /\ returns("memmove", dst, src, n, {}, IF dst < src THEN dst + n ELSE dst)
     \/ /\ memory' = memset(memory, dst, c, n)
        /\ returns("memset", dst, 0, n, {c}, dst)
     \/ /\ apart(dst, n, src, strlen(memory, src) + 1)
        /\ memory' = strlcpy(memory, dst, src, n)
        /\ returns("strlcpy", dst, src, n, {}, strlen(memory, src))
     \/ /\ apart(dst, n, src, strlen(memory, src) + 1)
        /\ memory' = strlcat(memory, dst, src, n)
        /\ returns("strlcat", dst, src, n, {}, strlen(memory, dst) + strlen(memory, src))

\* strtok_r() with the string at p, or with a null pointer: from save_ptr.
strtok_r(p, s) ==
  LET token == skip(memory, p, s \ {0})
      end == skip(memory, token, Byte \ found_in(s))
  IN /\ scall.fn \in {"fill", "strtok_r"}
     /\ before' = memory
     /\ IF memory[token] = 0
        THEN /\ save_ptr' = token /\ UNCHANGED memory
             /\ scall' = [fn |-> "strtok_r", dst |-> p, src |-> 0, size |-> 0, set |-> s, ret |-> NULL_PTR]
        ELSE /\ memory' = [memory EXCEPT ![end] = 0]
             /\ save_ptr' = saved(memory, end)
             /\ scall' = [fn |-> "strtok_r", dst |-> p, src |-> 0, size |-> 0, set |-> s, ret |-> token]

StringsNext ==
  \/ \E m \in [Addr -> Byte] : fill(m)
  \/ \E p \in Addr : (\E c \in Byte : search(p, c)) \/ (\E s \in SUBSET (Byte \ {0}) : search_set(p, s))
  \/ \E a, b \in Addr : \E n \in 0 .. MemSize - (IF a > b THEN a ELSE b) :
       compare(a, b, n) \/ \E c \in Byte : write(a, b, n, c)
  \/ \E s \in SUBSET (Byte \ {0}) :
       (scall.fn = "fill" /\ strtok_r(0, s)) \/ (save_ptr # NULL_PTR /\ strtok_r(save_ptr, s))

----------------------------------------------------------------------------
(* Properties *)

\* The end of the string at p.
End(m, p) == CHOOSE q \in p .. MemSize - 1 : m[q] = 0 /\ \A r \in p .. q - 1 : m[r] # 0
String(m, p) == [i \in 1 .. End(m, p) - p |-> m[p + i - 1]]
First(S) == IF S = {} THEN NULL_PTR ELSE CHOOSE a \in S : \A b \in S : a <= b

\* Each search returns the first or last place, or the length, that its comment
\* describes, also for the null byte, an empty set and a size of zero.
SearchRight ==
  LET p == scall.src
      e == End(before, p)
      hits == {q \in p .. e : before[q] \in scall.set}
      inside == {q \in p .. e - 1 : before[q] \in scall.set}
  IN CASE scall.fn = "strlen" -> p + scall.ret = e
       [] scall.fn = "strchr" -> scall.ret = First(hits)
       [] scall.fn = "strrchr" -> IF inside = {} THEN scall.ret = NULL_PTR
                                  ELSE scall.ret \in inside /\ \A q \in inside : q <= scall.ret
       [] scall.fn = "strcspn" -> p + scall.ret = First(inside \cup {e})
       [] scall.fn = "strspn" -> p + scall.ret = First(p .. e \ inside)
       [] scall.fn = "strpbrk" -> scall.ret = First(inside)
       [] scall.fn = "strnlen" -> scall.ret = lesser(e - p, scall.size)
       [] scall.fn = "memchr" -> scall.ret = First({q \in p .. p + scall.size - 1 : before[q] \in scall.set})
       [] OTHER -> TRUE

\* memcmp(), strcmp() and strstr() agree with the sequences of bytes.
CompareRight ==
  LET a == String(before, scall.dst)
      b == String(before, scall.src)
      at(i) == scall.dst + i
      block(p) == [i \in 1 .. scall.size |-> before[p + i - 1]]
      less(s, t) == \E i \in 1 .. lesser(Len(t), Len(s) + 1) : SubSeq(s, 1, i - 1) = SubSeq(t, 1, i - 1) /\ (i > Len(s) \/ s[i] < t[i])
  IN CASE scall.fn = "memcmp" -> scall.ret = IF block(scall.dst) = block(scall.src) THEN 0
                                            ELSE IF less(block(scall.dst), block(scall.src)) THEN -1 ELSE 1
       [] scall.fn = "strcmp" -> scall.ret = IF a = b THEN 0 ELSE IF less(a, b) THEN -1 ELSE 1
       [] scall.fn = "strstr" -> scall.ret = First({at(i) : i \in {k \in 0 .. Len(a) - Len(b) : SubSeq(a, k + 1, k + Len(b)) = b}})
       [] OTHER -> TRUE

\* What a function writes is what the source held before the call, however the
\* blocks overlap; no byte outside the destination changes; strlcpy() and
\* strlcat() end what they write with a null byte inside SIZE bytes and return
\* the length that the whole string has.  In two places the code does less than
\* its comments: strlcat() leaves a string at DST of SIZE characters or more as
\* it is, neither limited nor terminated (string.c:333-335 has no such case),
\* and memmove() returns DST only when it copies downwards: copying upwards it
\* returns the end of the copy (string.c:22: "Returns DST").
WriteRight ==
  LET d == scall.dst
      n == scall.size
      src == String(before, scall.src)
      whole == IF scall.fn = "strlcat" THEN String(before, d) \o src ELSE src
      full == scall.fn = "strlcat" /\ Len(String(before, d)) >= n
      same_outside == \A a \in Addr \ d .. d + n - 1 : memory[a] = before[a]
  IN CASE scall.fn = "memmove" ->
            /\ same_outside
            /\ \A a \in d .. d + n - 1 : memory[a] = before[scall.src + a - d]
            /\ scall.ret = IF d < scall.src THEN d + n ELSE d
       [] scall.fn = "memset" -> same_outside /\ \A a \in d .. d + n - 1 : memory[a] \in scall.set
       [] scall.fn \in {"strlcpy", "strlcat"} ->
            /\ same_outside
            /\ scall.ret = Len(whole)
            /\ IF n = 0 \/ full THEN memory = before
               ELSE String(memory, d) = SubSeq(whole, 1, lesser(Len(whole), n - 1))
       [] OTHER -> TRUE

\* Each strtok_r() returns the next nonempty run of bytes that are none of its
\* delimiters, skipping only delimiters, and the next call continues right after
\* the delimiter that ended it: no byte of the string is lost or seen twice.
TokensRight ==
  scall.fn = "strtok_r" =>
    LET p == scall.dst
        e == End(before, p)
        start == First({q \in p .. e - 1 : before[q] \notin scall.set})
        stop == First({q \in start .. e : before[q] \in scall.set \cup {0}})
    IN /\ scall.ret = start
       /\ start = NULL_PTR => save_ptr = e /\ memory = before
       /\ start # NULL_PTR =>
            /\ String(memory, start) = [i \in 1 .. stop - start |-> before[start + i - 1]]
            /\ save_ptr = IF stop = e THEN e ELSE stop + 1
            /\ \A a \in Addr : a # stop => memory[a] = before[a]

\* Every function of string.c does what its comment says for every placement,
\* overlap and size in a small memory, but for the two cases that WriteRight
\* names.
StringsRight == SearchRight /\ CompareRight /\ WriteRight /\ TokensRight
=============================================================================
