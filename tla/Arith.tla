------------------------------- MODULE Arith --------------------------------
(***************************************************************************)
(* 64-bit division out of 32-bit instructions (lib/arithmetic.c), with     *)
(* HALF-bit halves, and the random number generator (lib/random.c), with   *)
(* an RC4 state of N entries.                                              *)
(***************************************************************************)
EXTENDS Integers, Sequences, SequencesExt

CONSTANTS HALF_BITS,       \* bits of a uint32_t, a multiple of 4
          N,               \* entries of s[], 256
          Seed,            \* seeds, as sequences of their bytes
          MaxBytes         \* bound: bytes drawn after a seed

VARIABLES division,        \* the last division: [n, d, q, r, sq, sr]
          s, s_i, s_j,     \* the generator
          seeded, drawn    \* its seed, and the bytes drawn since

arithvars == <<division, s, s_i, s_j, seeded, drawn>>
randomvars == <<s, s_i, s_j, seeded, drawn>>

B == 2^HALF_BITS
W == 2^(2 * HALF_BITS)
TRAP == -1                 \* divide error

----------------------------------------------------------------------------
(* Division *)

\* The DIVL instruction: it traps when the quotient does not fit.
divl(n, d) == IF d = 0 \/ n \div d >= B THEN TRAP ELSE n \div d

\* nlz(): the last two tests of the five, for a half of four bits.
nlz(x) ==
  LET n2 == IF x <= 3 THEN 2 ELSE 0
      x2 == (x * 2^n2) % B
  IN n2 + (IF x2 <= 7 THEN 1 ELSE 0)

\* Mutation: the estimate is returned as it is.
corrected_not(n, d, q) == q

\* The estimate Q of the quotient may be one too large.
corrected(n, d, q) == IF (n - (q - 1) * d) % W < d THEN q - 1 ELSE q

udiv64(n, d) ==
  IF d \div B = 0 THEN
    LET n1 == n \div B
        q0 == divl(B * (n1 % d) + (n % B), d)
    IN IF q0 = TRAP THEN TRAP ELSE (q0 + B * (n1 \div d)) % W
  ELSE IF n < d THEN 0
  ELSE LET shift == nlz(d \div B)
           q0 == divl(n \div 2, ((d * 2^shift) % W) \div B)
       IN IF q0 = TRAP THEN TRAP ELSE corrected(n, d, q0 \div 2^(HALF_BITS - 1 - shift))

to_signed(x, m) == IF x >= m \div 2 THEN x - m ELSE x
magnitude(x) == IF to_signed(x, W) >= 0 THEN x ELSE (W - x) % W

negated(n, d) == (to_signed(n, W) < 0) # (to_signed(d, W) < 0)

\* sdiv64(): two's complement bits in and out.
sdiv64(n, d) ==
  LET q == udiv64(magnitude(n), magnitude(d))
  IN IF q = TRAP THEN TRAP ELSE IF negated(n, d) THEN (W - q) % W ELSE q

\* umod64() and smod64() return the low half.
umod64(n, d) == ((n - d * udiv64(n, d)) % W) % B
smod64(n, d) == to_signed(((n - d * sdiv64(n, d)) % W) % B, B)

divide(n, d) ==
  /\ seeded = <<>> /\ division = <<>>
  /\ division' = [n |-> n, d |-> d, q |-> udiv64(n, d), r |-> umod64(n, d),
                  sq |-> sdiv64(n, d), sr |-> smod64(n, d)]
  /\ UNCHANGED randomvars

----------------------------------------------------------------------------
(* Random numbers *)

identity == [i \in 0 .. N - 1 |-> i]
swap_byte(a, i, j) == [a EXCEPT ![i] = a[j], ![j] = a[i]]

RECURSIVE schedule(_, _, _, _)
schedule(a, i, j, seed) ==
  IF i = N THEN a
  ELSE LET j2 == (j + a[i] + seed[(i % Len(seed)) + 1]) % N
       IN schedule(swap_byte(a, i, j2), i + 1, j2, seed)

scheduled_from(seed) == schedule(identity, 0, 0, seed)

\* One byte: the state after it, and the byte.
draw(a, i, j) ==
  LET i2 == (i + 1) % N
      j2 == (j + a[i2]) % N
      a2 == swap_byte(a, i2, j2)
  IN [s |-> a2, i |-> i2, j |-> j2, byte |-> a2[(a2[i2] + a2[j2]) % N]]

random_init(seed) ==
  /\ division = <<>>
  /\ s' = scheduled_from(seed) /\ s_i' = 0 /\ s_j' = 0
  /\ seeded' = seed /\ drawn' = <<>>
  /\ UNCHANGED division

\* random_bytes() of one byte; random_ulong() draws several.
random_bytes ==
  LET from == IF seeded = <<>> THEN [s |-> scheduled_from(<<0>>), i |-> 0, j |-> 0]
              ELSE [s |-> s, i |-> s_i, j |-> s_j]
      d == draw(from.s, from.i, from.j)
  IN /\ division = <<>> /\ Len(drawn) < MaxBytes
     /\ s' = d.s /\ s_i' = d.i /\ s_j' = d.j
     /\ seeded' = IF seeded = <<>> THEN <<0>> ELSE seeded
     /\ drawn' = Append(drawn, d.byte)
     /\ UNCHANGED division

ArithInit ==
  /\ division = <<>>
  /\ s = [i \in 0 .. N - 1 |-> 0] /\ s_i = 0 /\ s_j = 0
  /\ seeded = <<>> /\ drawn = <<>>

ArithNext ==
  \/ division = <<>> /\ \E n \in 0 .. W - 1, d \in 1 .. W - 1 : divide(n, d)
  \/ \E seed \in Seed : random_init(seed)
  \/ random_bytes

----------------------------------------------------------------------------
(* Properties *)


\* The division routines never trap and return the exact quotient, also of the
\* most negative number by -1, which wraps; and the exact remainder of a
\* divisor that fits in a half, though they return no more than a half.
DivisionRight ==
  division # <<>> =>
    LET n == division.n
        d == division.d
        sn == to_signed(n, W)
        sd == to_signed(d, W)
        sq == IF (sn < 0) # (sd < 0) THEN -(magnitude(n) \div magnitude(d)) ELSE magnitude(n) \div magnitude(d)
    IN /\ division.q = n \div d
       /\ division.sq = sq % W
       /\ d <= B => division.r = n % d
       /\ magnitude(d) <= B \div 2 => division.sr = sn - sd * sq

RECURSIVE Stream(_, _, _, _)
Stream(a, i, j, cnt) ==
  IF cnt = 0 THEN <<>>
  ELSE LET d == draw(a, i, j) IN <<d.byte>> \o Stream(d.s, d.i, d.j, cnt - 1)

\* The bytes drawn depend on the seed alone: initialising again with a seed
\* starts the same sequence, whatever was drawn before, and drawing without a
\* seed is drawing with seed 0.  s[] stays a permutation.
Reproducible ==
  seeded # <<>> =>
    /\ drawn = Stream(schedule(identity, 0, 0, seeded), 0, 0, Len(drawn))
    /\ \A v \in 0 .. N - 1 : \E i \in 0 .. N - 1 : s[i] = v

\* Division is exact and the random numbers depend on the seed alone.
ArithRight == DivisionRight /\ Reproducible
=============================================================================
