------------------------------- MODULE Ustar --------------------------------
(***************************************************************************)
(* Archive headers (lib/ustar.c): ustar_make_header(), a fault in one byte *)
(* of the header on its way, and ustar_parse_header().                     *)
(*                                                                         *)
(* A header has the fields that differ from one file to another and those  *)
(* that the parser looks at, with shorter names and numbers; each field is *)
(* a sequence of character codes.                                          *)
(***************************************************************************)
EXTENDS Integers, Sequences, SequencesExt, TLC

CONSTANTS NAME_LEN,        \* bytes of the name field, 100
          SIZE_LEN,        \* bytes of the size field, 12
          CHKSUM_LEN,      \* bytes of the checksum field, 8
          ULONG_MAX, INT_MAX,
          MaxName          \* bound: length of a file name

VARIABLES header,          \* the fields; <<>>: none made
          made,            \* what the header was made for
          damaged,         \* has a byte been changed?
          read             \* what ustar_parse_header() returned

ustarvars == <<header, made, damaged, read>>

NUL == 0
SPACE == 32
DOT == 46
SLASH == 47
ZERO == 48
LETTER == 97
REGULAR == "0"
DIRECTORY == "5"
MAGIC == <<117, NUL>>
VERSION == <<ZERO, ZERO>>
type_code == "0" :> 48 @@ "5" :> 53

UstarInit == header = <<>> /\ made = <<>> /\ damaged = FALSE /\ read = <<>>

----------------------------------------------------------------------------
pad_to(len, str) == str \o [i \in 1 .. len - Len(str) |-> NUL]

\* The characters before the first null.
c_string(field) == LET end == SelectInSeq(field, LAMBDA c : c = NUL)
                   IN IF end = 0 THEN field ELSE SubSeq(field, 1, end - 1)

starts(name, prefix) == Len(prefix) <= Len(name) /\ SubSeq(name, 1, Len(prefix)) = prefix

\* The loop of strip_antisocial_prefixes().
RECURSIVE stripped(_)
stripped(name) ==
  IF \E p \in {<<SLASH>>, <<DOT, SLASH>>, <<DOT, DOT, SLASH>>} : starts(name, p)
  THEN stripped(SubSeq(name, SelectInSeq(name, LAMBDA c : c = SLASH) + 1, Len(name))) ELSE name

strip_antisocial_prefixes(name) ==
  LET rest == stripped(name)
  IN IF rest \in {<<>>, <<DOT, DOT>>} THEN <<DOT>> ELSE rest

sum(bytes) == FoldLeft(LAMBDA n, c : n + c, 0, bytes)

\* The bytes of a header but for its checksum field.
summed(h) == h.name \o h.size \o h.type \o h.magic \o h.version \o h.prefix

\* Mutation: the checksum field counts as it stands.
calculate_chksum_own(h) == sum(summed(h)) + sum(h.chksum)

calculate_chksum(h) == sum(summed(h)) + CHKSUM_LEN * SPACE

\* snprintf (FIELD, LEN, "%0<LEN - 1>o", VALUE)
octal(len, value) == [i \in 1 .. len |-> IF i = len THEN NUL ELSE ZERO + ((value \div 8^(len - 1 - i)) % 8)]

\* A negative SIZE prints as an unsigned int.
unsigned(size) == IF size < 0 THEN size + 2 * (INT_MAX + 1) ELSE size

ustar_make_header(name, type, size) ==
  LET short == strip_antisocial_prefixes(name)
      fields == [name |-> pad_to(NAME_LEN, short), size |-> octal(SIZE_LEN, unsigned(size)),
                 magic |-> MAGIC, version |-> VERSION, type |-> <<type_code[type]>>, prefix |-> <<NUL>>, chksum |-> <<>>]
  IN /\ header = <<>>
     /\ Len(short) <= NAME_LEN - 1
     /\ header' = [fields EXCEPT !.chksum = octal(CHKSUM_LEN, calculate_chksum(fields))]
     /\ made' = [name |-> name, type |-> type, size |-> size]
     /\ UNCHANGED <<damaged, read>>

\* The end of an archive is a block of zeros.
end_of_archive ==
  /\ header = <<>>
  /\ header' = [name |-> pad_to(NAME_LEN, <<>>), size |-> pad_to(SIZE_LEN, <<>>), magic |-> <<NUL, NUL>>,
                version |-> <<NUL, NUL>>, type |-> <<NUL>>, prefix |-> <<NUL>>, chksum |-> pad_to(CHKSUM_LEN, <<>>)]
  /\ made' = [name |-> <<>>, type |-> "EOF", size |-> 0]
  /\ UNCHANGED <<damaged, read>>

\* A byte of the header changes.
damage(field, i, byte) ==
  /\ header # <<>> /\ ~damaged /\ read = <<>>
  /\ i \in DOMAIN header[field] /\ header[field][i] # byte
  /\ header' = [header EXCEPT ![field][i] = byte]
  /\ damaged' = TRUE
  /\ UNCHANGED <<made, read>>

is_octal(c) == ZERO <= c /\ c <= ZERO + 7

overflows(value) == value > ULONG_MAX \div 8

\* parse_octal_field() from byte I on; -1: false.
RECURSIVE parse_octal_field(_, _, _)
parse_octal_field(field, i, value) ==
  CASE i > Len(field) -> -1
    [] is_octal(field[i]) -> IF overflows(value) THEN -1
                             ELSE parse_octal_field(field, i + 1, (field[i] - ZERO + value * 8) % (ULONG_MAX + 1))
    [] field[i] \in {SPACE, NUL} -> IF i > 1 THEN value ELSE -1
    [] OTHER -> -1

is_all_zeros(h) == \A field \in DOMAIN h : \A i \in DOMAIN h[field] : h[field][i] = NUL

parse_fields(h) ==
  LET chksum == parse_octal_field(h.chksum, 1, 0)
      size == IF h.type = <<type_code[REGULAR]>> THEN parse_octal_field(h.size, 1, 0) ELSE 0
  IN CASE is_all_zeros(h) -> [error |-> "none", name |-> <<>>, type |-> "EOF", size |-> 0]
       [] h.magic # MAGIC -> [error |-> "not a ustar archive"]
       [] h.version # VERSION -> [error |-> "invalid ustar version"]
       [] chksum = -1 -> [error |-> "corrupt chksum field"]
       [] chksum # calculate_chksum(h) -> [error |-> "checksum mismatch"]
       [] Last(h.name) # NUL \/ h.prefix[1] # NUL -> [error |-> "file name too long"]
       [] h.type[1] \notin Range(type_code) -> [error |-> "unimplemented file type"]
       [] size = -1 -> [error |-> "corrupt file size field"]
       [] size > INT_MAX -> [error |-> "file too large"]
       [] OTHER -> [error |-> "none", name |-> strip_antisocial_prefixes(c_string(h.name)),
                    type |-> CHOOSE t \in DOMAIN type_code : type_code[t] = h.type[1], size |-> size]

ustar_parse_header ==
  /\ header # <<>> /\ read = <<>>
  /\ read' = parse_fields(header)
  /\ UNCHANGED <<header, made, damaged>>

UstarNext ==
  \/ \E n \in 1 .. MaxName : \E name \in [1 .. n -> {DOT, SLASH, LETTER}], type \in {REGULAR, DIRECTORY}, size \in {-1, 0, 9, INT_MAX} :
       header = <<>> /\ ustar_make_header(name, type, size)
  \/ end_of_archive
  \/ header # <<>> /\ \E field \in DOMAIN header, i \in 1 .. NAME_LEN + CHKSUM_LEN, byte \in {NUL, SPACE, SLASH, ZERO + 1} :
       damage(field, i, byte)
  \/ ustar_parse_header

----------------------------------------------------------------------------
(* Properties *)

parsed_file == read # <<>> /\ read.error = "none"

\* A header that arrives as it was made parses to the name without its
\* prefixes, the type and the size that it was made for; a negative size is the
\* only thing refused.
HeaderRoundTrip ==
  read # <<>> /\ ~damaged =>
    IF made.type = REGULAR /\ made.size < 0 THEN read.error = "file too large"
    ELSE /\ parsed_file
         /\ read.type = made.type
         /\ made.type # "EOF" => read.name = strip_antisocial_prefixes(made.name)
         /\ read.size = IF made.type = REGULAR THEN made.size ELSE 0

\* A change of one byte, wherever it is, is reported or changes nothing.
DamageSeen ==
  damaged /\ parsed_file =>
    /\ read.name = strip_antisocial_prefixes(made.name) /\ read.type = made.type
    /\ read.size = IF made.type = REGULAR THEN made.size ELSE 0

\* No file name that the parser returns, or the header contains, is absolute or
\* starts by leaving the destination directory.
NoAntisocialPrefix ==
  LET tame(name) == /\ name # <<>> /\ name # <<DOT, DOT>>
                    /\ ~starts(name, <<SLASH>>) /\ ~starts(name, <<DOT, SLASH>>) /\ ~starts(name, <<DOT, DOT, SLASH>>)
  IN /\ header # <<>> /\ ~damaged /\ made.type # "EOF" => tame(c_string(header.name))
     /\ parsed_file /\ read.type # "EOF" => tame(read.name)

\* What ustar_make_header() writes, ustar_parse_header() reads back, tame and
\* with any one damaged byte noticed.
UstarRight == HeaderRoundTrip /\ DamageSeen /\ NoAntisocialPrefix
=============================================================================
