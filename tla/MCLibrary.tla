----------------------------- MODULE MCLibrary ------------------------------
(***************************************************************************)
(* The library, the boot code and the drivers that nothing waits for, for  *)
(* TLC.  None needs another's state, so a behaviour is one of the part     *)
(* named by component, and the others stay as they start.                  *)
(***************************************************************************)
EXTENDS Lists, Hash, Malloc, Strings, Printf, Stdlib, Bitmap, Arith, Ustar, PartitionTable, Boot, Loader,
        Kbd, Vga, Clock

VARIABLE component

Part == {"list", "hash", "malloc", "string", "stdio", "stdlib", "bitmap", "arithmetic",
         "ustar", "partition", "init", "loader", "kbd", "vga", "calibrate", "rtc"}

LibraryInit ==
  /\ component \in Part
  /\ ListsInit /\ HashInit /\ MallocInit /\ StringsInit /\ PrintfInit /\ StdlibInit
  /\ BitmapInit /\ ArithInit /\ UstarInit /\ PartitionInit /\ BootInit /\ LoaderInit
  /\ KbdInit /\ VgaInit /\ ClockInit

LibraryNext ==
  /\ UNCHANGED component
  /\ IF component = "list" THEN ListsNext ELSE UNCHANGED mem
  /\ IF component = "hash" THEN HashNext ELSE UNCHANGED hashvars
  /\ IF component = "malloc" THEN MallocNext ELSE UNCHANGED mvars
  /\ IF component = "string" THEN StringsNext ELSE UNCHANGED stringvars
  /\ IF component = "stdio" THEN PrintfNext ELSE UNCHANGED printfvars
  /\ IF component = "stdlib" THEN StdlibNext ELSE UNCHANGED stdlibvars
  /\ IF component = "bitmap" THEN BitmapNext ELSE UNCHANGED bitmapvars
  /\ IF component = "arithmetic" THEN ArithNext ELSE UNCHANGED arithvars
  /\ IF component = "ustar" THEN UstarNext ELSE UNCHANGED ustarvars
  /\ IF component = "partition" THEN PartitionNext ELSE UNCHANGED ptvars
  /\ IF component = "init" THEN BootNext ELSE UNCHANGED bootvars
  /\ IF component = "loader" THEN LoaderNext ELSE UNCHANGED loadervars
  /\ IF component = "kbd" THEN KbdNext ELSE UNCHANGED kbdvars
  /\ IF component = "vga" THEN VgaNext ELSE UNCHANGED vgavars
  /\ IF component = "calibrate" THEN CalibrateNext ELSE UNCHANGED calibratevars
  /\ IF component = "rtc" THEN RtcNext ELSE UNCHANGED rtcvars

LibrarySpec ==
  LibraryInit /\ [][LibraryNext]_<<component, mem, hashvars, mvars, stringvars, printfvars, stdlibvars,
                                   bitmapvars, arithvars, ustarvars, ptvars, bootvars, loadervars,
                                   kbdvars, vgavars, calibratevars, rtcvars>>

----------------------------------------------------------------------------
(* Values of the constants *)

\* list.c: two lists, and elements of which two have the same value
HeadOf(l) == IF l = "a" THEN "ha" ELSE "hb"
TailOf(l) == IF l = "a" THEN "ta" ELSE "tb"
ListKeys == [e \in {"e1", "e2", "e3", "e4"} |-> CASE e \in {"e1", "e2"} -> 1 [] e = "e3" -> 2 [] OTHER -> 3]

\* hash.c: two equal elements, and hash values that share buckets until a rehash
HashKeys == [e \in {"a", "a2", "b", "c", "d"} |->
               CASE e \in {"a", "a2"} -> 1 [] e = "b" -> 2 [] e = "c" -> 3 [] OTHER -> 4]
Hashes == <<5, 1, 7, 2>>

\* malloc.c
TwoPages == 1 .. 2

\* stdio.c: field widths and precisions, - 1 for none
FieldWidths == {-5, 0, 5}
Precisions == {-1, 0, 3, 9}

\* random.c
Seeds == {<<0>>, <<1, 3>>, <<4, 2>>}

\* partition.c: partitions inside, across and beyond the end of a disk of six
\* sectors, and one whose end wraps around
Entry == [type : {"kernel"}, offset : {1, 3, 15}, size : {0, 2, 14}]
           \cup {[type |-> "empty", offset |-> 1, size |-> 1], [type |-> "ext", offset |-> 2, size |-> 3]}
MbrDisks == {[size |-> 6, tables |-> (0 :> pt)] : pt \in UNION {[1 .. n -> Entry] : n \in 1 .. 3}}
              \cup {[size |-> 6, tables |-> <<>>]}

\* init.c: every command line of up to four words
Lines == UNION {[1 .. n -> {"-q", "-r", "-h", "-x", "run", "alarm"}] : n \in 0 .. 4}

\* rtc.c: a minute of three seconds, and carries into some and all registers
Radixes == <<3, 2, 2, 2, 2, 2>>
ClockStarts == {3, 10, 94}

\* loader.S: up to two drives, with and without a signature, whose partitions are
\* unused, foreign, not bootable, or a kernel that is small, empty, too large or
\* wraps BX
PtEntry(used, type, boot, start, size) ==
  [used |-> used, type |-> type, bootable |-> boot, start |-> start, size |-> size]
PtEntries == {PtEntry(FALSE, 0, FALSE, 0, 0), PtEntry(TRUE, 131, TRUE, 1, 2), PtEntry(TRUE, 32, FALSE, 1, 2),
              PtEntry(TRUE, 32, TRUE, 3, 2), PtEntry(TRUE, 32, TRUE, 9, 5), PtEntry(TRUE, 32, TRUE, 6, 3),
              PtEntry(TRUE, 32, TRUE, 0, 0)}
Drives(parts) == [signature : {0, 43605, 65535}, table : [1 .. parts -> PtEntries]]
AllMachines == {<<>>} \cup {<<d>> : d \in Drives(2)} \cup (Drives(2) \X Drives(1))

----------------------------------------------------------------------------
(* Properties of several parts, and of one, looked at while it is in use *)

\* The pointer operations are the operations on sequences that list.h
\* describes, call by call: an element goes where the call says and after its
\* equals when the insertion is ordered, sorting is stable, list_unique() keeps
\* the first of equal neighbours and appends the others to DUPLICATES, and no
\* call touches a list it was not given.  The links and the extremes agree
\* throughout.
IsSequence ==
  /\ Abstract!SeqSpec
  /\ [](component = "list" => LinksAgree /\ ExtremesFirst /\ CallsExact)

\* From the loader to the last action: of the drives up to the one that ends the
\* search the first bootable kernel is loaded whole, main() sets up every part
\* before it is used and maps memory, and the command line is carried out up to
\* its end or the panic it leads to, and shuts the machine down as it asks.
StartUpRight ==
  /\ LoadsKernel /\ GivesUpLate
  /\ NothingUsedEarly /\ PagesMapped /\ CommandLineDone

\* The keyboard's state follows the keys held and gives the right characters,
\* and the screen shows the end of the text with the cursor after it.
TerminalRight == ShiftTracksKeys /\ CharacterRight /\ CursorOnScreen /\ ScreenShowsText

\* The loops per tick that timer_calibrate() finds are right within a factor of
\* two, and the six registers that rtc_get_time() returns are those of one time,
\* or of two that an update in progress separates.
ClockRight == CalibratedWithinTwo /\ TimeNotTorn
=============================================================================
