------------------------------- MODULE Printf -------------------------------
(***************************************************************************)
(* Formatted output (lib/stdio.c): the options of a conversion, integer    *)
(* and string conversions, vsnprintf()'s buffer and hex_dump().            *)
(*                                                                         *)
(* Integers are scaled down: WIDTH bits for intmax_t, fewer for the other  *)
(* types, and smaller bases and groups, so that every digit count and      *)
(* every wrap happens.  A format is one conversion and a literal.          *)
(***************************************************************************)
EXTENDS Integers, Sequences, SequencesExt

CONSTANTS WIDTH,           \* bits of intmax_t
          CHAR_WIDTH,      \* bits of char
          SHORT_WIDTH,     \* bits of short
          INT_WIDTH,       \* bits of int, long, size_t and ptrdiff_t
          BUF,             \* sizeof buf in format_integer(), 64
          PER_LINE,        \* bytes in a line of hex_dump(), 16
          FieldWidth,      \* field widths, negative ones from `*'
          Precision,       \* precisions; -1: none
          MaxDump          \* bound: offsets and sizes given to hex_dump()

VARIABLES conv,            \* the conversion: [flags, width, precision, type, spec]
          arg,             \* its argument: bits, or characters for %c and %s
          printed,         \* the characters output
          sbuf,            \* what snprintf() of them left in its buffer
          dump             \* hex_dump()'s lines: the bytes of each, by column

printfvars == <<conv, arg, printed, sbuf, dump>>

Flag == {"MINUS", "PLUS", "SPACE", "POUND", "ZERO", "GROUP"}
Type == {"CHAR", "SHORT", "INT", "INTMAX", "LONG", "LONGLONG", "PTRDIFFT", "SIZET"}
NULL_STRING == <<"NULL">>
no_conv == [flags |-> {}, width |-> 0, precision |-> -1, type |-> "none", spec |-> "none"]

PrintfInit ==
  /\ conv = no_conv /\ arg = 0
  /\ printed = <<>> /\ sbuf = <<>> /\ dump = <<>>

----------------------------------------------------------------------------
(* Conversions *)

\* parse_conversion(): given the flag characters, and the numbers, normalise.
\* A negative width from `*' sets MINUS after ZERO has been looked at.
parse_conversion(flags, width, precision, type, spec) ==
  LET signs == (flags \ (IF "MINUS" \in flags THEN {"ZERO"} ELSE {}))
                      \ (IF "PLUS" \in flags THEN {"SPACE"} ELSE {})
      justified == signs \cup (IF width < 0 THEN {"MINUS"} ELSE {})
  IN [flags |-> justified \ (IF precision >= 0 THEN {"ZERO"} ELSE {}),
      width |-> IF width < 0 THEN -width ELSE width,
      precision |-> IF precision < 0 THEN -1 ELSE precision,
      type |-> type, spec |-> spec]

base == [d |-> 3, u |-> 3, o |-> 2, x |-> 4]
group == 2
digits == <<"0", "1", "2", "3">>

type_width(type) ==
  CASE type = "CHAR" -> CHAR_WIDTH
    [] type = "SHORT" -> SHORT_WIDTH
    [] type \in {"INTMAX", "LONGLONG"} -> WIDTH
    [] OTHER -> INT_WIDTH

\* The bits as a value of an unsigned or a signed type of W bits.
unsigned_of(bits, w) == bits % 2^w
signed_of(bits, w) == LET v == unsigned_of(bits, w) IN IF v >= 2^(w - 1) THEN v - 2^w ELSE v

\* What a signed conversion reads: a size_t is read unsigned and corrected.
signed_value(type, bits) ==
  LET w == type_width(type)
      v == unsigned_of(bits, w)
      SIZE_MAX == 2^w - 1
  IN IF type = "SIZET" THEN IF v > SIZE_MAX \div 2 THEN v - SIZE_MAX - 1 ELSE v
     ELSE signed_of(bits, w)

\* What an unsigned conversion reads, as an uintmax_t: a ptrdiff_t is read
\* signed, so extended, and masked.
unsigned_value(type, bits) ==
  LET w == type_width(type)
      PTRDIFF_MAX == 2^(w - 1) - 1
  IN IF type = "PTRDIFFT" THEN (signed_of(bits, w) % 2^WIDTH) % (2 * PTRDIFF_MAX + 2)
     ELSE unsigned_of(bits, w)

separated(c, cnt) == "GROUP" \in c.flags /\ cnt > 0 /\ cnt % group = 0

\* The digits in reverse order, with separators; cnt digits precede.
RECURSIVE accumulate(_, _, _)
accumulate(c, value, cnt) ==
  IF value = 0 THEN <<>>
  ELSE (IF separated(c, cnt) THEN <<",">> ELSE <<>>)
       \o <<digits[(value % base[c.spec]) + 1]>>
       \o accumulate(c, value \div base[c.spec], cnt + 1)

output_dup(ch, cnt) == [i \in 1 .. cnt |-> ch]

most(a, b) == IF a > b THEN a ELSE b
least(a, b) == IF a < b THEN a ELSE b

\* Mutation: only the precision counts.
zeros_end_any(precision) == precision

zeros_end(precision) == least(precision, BUF - 1)

\* Zeros up to the precision, as far as the buffer goes, and the leading zero
\* of an alternative octal number.
with_zeros(c, cp) ==
  LET precision == IF c.precision < 0 THEN 1 ELSE c.precision
      padded == cp \o output_dup("0", most(0, zeros_end(precision) - Len(cp)))
  IN IF "POUND" \in c.flags /\ c.spec = "o" /\ (padded = <<>> \/ Last(padded) # "0")
     THEN Append(padded, "0") ELSE padded

sign_char(c, negative) ==
  CASE c.spec # "d" -> <<>>
    [] negative -> <<"-">>
    [] "PLUS" \in c.flags -> <<"+">>
    [] "SPACE" \in c.flags -> <<" ">>
    [] OTHER -> <<>>

pad_cnt(c, cp, x, sign) == most(0, c.width - Len(cp) - Len(x) - Len(sign))

format_integer(c, value, negative) ==
  LET cp == with_zeros(c, accumulate(c, value, 0))
      x == IF "POUND" \in c.flags /\ value # 0 /\ c.spec = "x" THEN <<"0", "x">> ELSE <<>>
      sign == sign_char(c, negative)
      pad == pad_cnt(c, cp, x, sign)
  IN (IF {"MINUS", "ZERO"} \cap c.flags = {} THEN output_dup(" ", pad) ELSE <<>>)
     \o sign \o x
     \o (IF "ZERO" \in c.flags THEN output_dup("0", pad) ELSE <<>>)
     \o Reverse(cp)
     \o (IF "MINUS" \in c.flags THEN output_dup(" ", pad) ELSE <<>>)

\* The first LENGTH characters of STRING.
format_string(string, length, c) ==
  LET s == SubSeq(string, 1, length)
      pad == output_dup(" ", most(0, c.width - length))
  IN IF "MINUS" \in c.flags THEN s \o pad ELSE pad \o s

\* strnlen(): a precision of -1 is unlimited.
strnlen_of(string, precision) == IF precision < 0 THEN Len(string) ELSE least(Len(string), precision)

\* A is the argument.  %X differs from %x in the digits' case only.
convert(c, a) ==
  CASE c.spec = "d" -> LET v == signed_value(c.type, a) IN format_integer(c, IF v < 0 THEN -v ELSE v, v < 0)
    [] c.spec \in {"o", "u", "x"} -> format_integer(c, unsigned_value(c.type, a), FALSE)
    [] c.spec = "c" -> format_string(a, 1, c)
    [] c.spec = "s" -> LET string == IF a = NULL_STRING THEN <<"(", "n", "u", "l", "l", ")">> ELSE a
                       IN format_string(string, strnlen_of(string, c.precision), c)
    [] c.spec = "p" -> format_integer([c EXCEPT !.flags = {"POUND"}, !.spec = "x"], unsigned_of(a, INT_WIDTH), FALSE)

\* __vprintf() of "%<conversion>;": the conversion's output, then the literal.
vprintf(flags, width, precision, type, spec, a) ==
  /\ conv = no_conv
  /\ conv' = [flags |-> flags, width |-> width, precision |-> precision, type |-> type, spec |-> spec]
  /\ arg' = a
  /\ printed' = Append(convert(parse_conversion(flags, width, precision, type, spec), a), ";")
  /\ UNCHANGED <<sbuf, dump>>

\* aux.max_length
max_length(buf_size) == IF buf_size > 0 THEN buf_size - 1 ELSE 0

\* vsnprintf() of the same output: stores while length < max_length.
vsnprintf(buf_size) ==
  /\ conv.spec = "s" /\ sbuf = <<>>
  /\ sbuf' = [size |-> buf_size,
              stored |-> SubSeq(printed, 1, least(Len(printed), max_length(buf_size)))
                         \o IF buf_size > 0 THEN <<"NUL">> ELSE <<>>,
              length |-> Len(printed)]
  /\ UNCHANGED <<conv, arg, printed, dump>>

\* Where the bytes of a line end, as columns.
line_end(ofs, size) == least(PER_LINE, (ofs % PER_LINE) + size)

RECURSIVE dump_lines(_, _, _)
dump_lines(ofs, byte, size) ==
  LET start == ofs % PER_LINE
      end == line_end(ofs, size)
  IN IF size <= 0 \/ end <= start THEN <<>>
     ELSE <<[at |-> ofs - start,
             row |-> [i \in 0 .. PER_LINE - 1 |-> IF i \in start .. end - 1 THEN byte + i - start ELSE -1]]>>
          \o dump_lines(ofs + end - start, byte + end - start, size - (end - start))

hex_dump(ofs, size) ==
  /\ conv = no_conv /\ dump = <<>>
  /\ conv' = [no_conv EXCEPT !.spec = "dump", !.width = size, !.precision = ofs]
  /\ dump' = dump_lines(ofs, 0, size)
  /\ UNCHANGED <<arg, printed, sbuf>>

PrintfNext ==
  \/ conv = no_conv /\ \E flags \in SUBSET Flag, w \in FieldWidth, p \in Precision, spec \in {"d", "u", "o", "x"}, bits \in 0 .. 2^WIDTH - 1 :
       vprintf(flags, w, p, "INTMAX", spec, bits)
  \/ conv = no_conv /\ \E flags \in {{}, {"MINUS"}}, w \in FieldWidth, p \in Precision :
       \/ \E type \in Type, spec \in {"d", "u", "o", "x", "p"}, bits \in 0 .. 2^WIDTH - 1 : vprintf(flags, w, p, type, spec, bits)
       \/ vprintf(flags, w, p, "INT", "c", <<"a">>)
       \/ \E string \in {<<>>, <<"a", "b">>, NULL_STRING} : vprintf(flags, w, p, "INT", "s", string)
  \/ \E n \in 0 .. 8 : vsnprintf(n)
  \/ \E ofs, size \in 0 .. MaxDump : hex_dump(ofs, size)

----------------------------------------------------------------------------
(* Properties *)

text_of == SubSeq(printed, 1, Len(printed) - 1)
is_digit(ch) == \E i \in DOMAIN digits : digits[i] = ch
digit_value(ch) == (CHOOSE i \in DOMAIN digits : digits[i] = ch) - 1

\* The value that a reader of the digits sees.
Read(s, b) == FoldLeft(LAMBDA n, ch : n * b + digit_value(ch), 0, s)

\* The value that the bits have in a type of W bits, signed or not.
Meaning(bits, w, signed) ==
  CHOOSE v \in (IF signed THEN -(2^(w - 1)) .. 2^(w - 1) - 1 ELSE 0 .. 2^w - 1) : (v - bits) % 2^w = 0

\* The output of an integer conversion reads as the value that the argument has
\* in its type, whether char, size_t or ptrdiff_t, with its sign, even the
\* smallest negative one.  The precision is met by digits and separators
\* together: the loop that adds zeros counts both (stdio.c:485), so a grouped
\* number can have fewer digits than its precision asks for, although the
\* comment (stdio.c:479) says "Append enough zeros to match precision".  Without
\* separators the digits alone meet it, as far as the buffer goes.
IntegerReads ==
  conv.spec \in {"d", "u", "o", "x", "p"} =>
    LET s == SelectSeq(text_of, LAMBDA ch : ch \notin {" ", ",", "+", "-"})
        separators == Len(SelectSeq(text_of, LAMBDA ch : ch = ","))
        prefixed == Len(s) > 1 /\ s[2] = "x"
        number == IF prefixed THEN SubSeq(s, 3, Len(s)) ELSE s
        value == Meaning(arg, IF conv.spec = "p" THEN INT_WIDTH ELSE type_width(conv.type), conv.spec = "d")
        b == IF conv.spec = "p" THEN 4 ELSE base[conv.spec]
    IN /\ \A i \in DOMAIN number : is_digit(number[i])
       /\ Read(number, b) = IF value < 0 THEN -value ELSE value
       /\ value < 0 <=> Contains(text_of, "-")
       /\ Len(number) + separators >= least(conv.precision, BUF - 1)

\* A field is as wide as asked or as the number needs, and a separator stands
\* only between digits.  (A zero flag with a negative `*' width is the
\* exception: parse_conversion() then pads on both sides.)
FieldRight ==
  conv.spec \in {"d", "u", "o", "x", "c", "s"} =>
    LET asked == IF conv.width < 0 THEN -conv.width ELSE conv.width
        solid == SelectSeq(text_of, LAMBDA ch : ch # " ")
    IN (conv.width >= 0 \/ "ZERO" \notin conv.flags) =>
       /\ Len(text_of) >= asked
       /\ Len(text_of) > asked => Len(text_of) - Len(solid) <= IF "SPACE" \in conv.flags THEN 1 ELSE 0
       /\ \A i \in DOMAIN solid : solid[i] = "," => i > 1 /\ i < Len(solid) /\ is_digit(solid[i - 1]) /\ is_digit(solid[i + 1])

\* format_integer()'s buffer holds the digits of every value of every base,
\* with separators, zeros for any precision and the octal zero.
DigitsFit ==
  conv.spec \in {"d", "u", "o", "x"} =>
    LET c == parse_conversion(conv.flags, conv.width, conv.precision, conv.type, conv.spec)
        v == IF conv.spec = "d" THEN signed_value(c.type, arg) ELSE unsigned_value(c.type, arg)
    IN Len(with_zeros(c, accumulate(c, IF v < 0 THEN -v ELSE v, 0))) <= BUF

\* snprintf() stores a prefix of the output and a terminator in no more than
\* BUF_SIZE bytes, and returns the full length.
BufferTerminated ==
  sbuf # <<>> =>
    /\ Len(sbuf.stored) <= sbuf.size
    /\ sbuf.size > 0 => Last(sbuf.stored) = "NUL"
    /\ IsPrefix(SubSeq(sbuf.stored, 1, Len(sbuf.stored) - 1), printed)
    /\ sbuf.length = Len(printed) /\ (sbuf.size > Len(printed) => Len(sbuf.stored) = Len(printed) + 1)

\* hex_dump() shows every byte once, in the line and the column of its offset.
DumpComplete ==
  conv.spec = "dump" =>
    \A n \in 0 .. conv.width - 1 :
      LET at == conv.precision + n
      IN \E l \in DOMAIN dump :
           /\ dump[l].at = at - (at % PER_LINE) /\ dump[l].row[at % PER_LINE] = n
           /\ \A k \in DOMAIN dump \ {l} : \A i \in 0 .. PER_LINE - 1 : dump[k].row[i] # n

\* Formatted output is right for every combination of flags, widths, precisions
\* and values, and for every type: it reads as the argument, has its width, and
\* stays inside format_integer()'s and snprintf()'s buffers; a dump shows every
\* byte.  IntegerReads and FieldRight name the two cases in which the code does
\* less than its comments.
PrintfRight == IntegerReads /\ FieldRight /\ DigitsFit /\ BufferTerminated /\ DumpComplete
=============================================================================
