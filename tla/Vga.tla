-------------------------------- MODULE Vga --------------------------------
(***************************************************************************)
(* The text display (devices/vga.c) and the speaker (devices/speaker.c).   *)
(* vga_putc() runs with interrupts off, except that the bell gives them    *)
(* back while it sounds: an interrupt handler may print before the thread, *)
(* which holds the console's lock, updates the cursor.                     *)
(***************************************************************************)
EXTENDS Integers, Sequences

CONSTANTS COL_CNT, ROW_CNT,
          TAB,             \* distance of tab stops, 8; it divides COL_CNT
          MaxPutc          \* bound: characters put

VARIABLES cx, cy, fb,
          cursor,          \* the hardware cursor
          inited,
          beeping,         \* a thread is in speaker_beep()
          speaker,         \* the speaker's gate is open
          puts,            \* characters put so far
          text             \* all rows written, those scrolled away included

vgavars == <<cx, cy, fb, cursor, inited, beeping, speaker, puts, text>>

blank == [x \in 0 .. COL_CNT - 1 |-> " "]

\* What the BIOS and the loader leave: some text above the cursor.
VgaInit ==
  /\ cx = 0 /\ cy = 0
  /\ fb = [y \in 1 .. ROW_CNT |-> IF y < ROW_CNT THEN [x \in 0 .. COL_CNT - 1 |-> "b"] ELSE blank]
  /\ cursor = COL_CNT * (ROW_CNT - 1)
  /\ inited = FALSE /\ beeping = FALSE /\ speaker = FALSE
  /\ puts = 0
  /\ text = fb

\* The position after init(): find_cursor() the first time.  Row y of the
\* framebuffer is fb[y + 1].
x0 == IF inited THEN cx ELSE cursor % COL_CNT
y0 == IF inited THEN cy ELSE cursor \div COL_CNT

\* memmove() of the framebuffer and clear_row() of the last row.
scrolled(f) == Tail(f) \o <<blank>>

newline(y, f) ==
  /\ cx' = 0
  /\ IF y + 1 >= ROW_CNT THEN cy' = ROW_CNT - 1 /\ fb' = scrolled(f) ELSE cy' = y + 1 /\ fb' = f

\* The cursor goes to column x, or to a new line.
advance(x, y, f) == IF x >= COL_CNT THEN newline(y, f) ELSE cx' = x /\ cy' = y /\ fb' = f

ROUND_UP(x, step) == ((x + step - 1) \div step) * step

move_cursor == cursor' = cx' + COL_CNT * cy'

interprets(c) ==
  CASE c = "nl" -> newline(y0, fb)
    [] c = "ff" -> cx' = 0 /\ cy' = 0 /\ fb' = [y \in 1 .. ROW_CNT |-> blank]
    [] c = "bs" -> cx' = (IF x0 > 0 THEN x0 - 1 ELSE x0) /\ cy' = y0 /\ fb' = fb
    [] c = "cr" -> cx' = 0 /\ cy' = y0 /\ fb' = fb
    [] c = "tab" -> advance(ROUND_UP(x0 + 1, TAB), y0, fb)
    [] c = "bell" -> cx' = x0 /\ cy' = y0 /\ fb' = fb
    [] OTHER -> advance(x0 + 1, y0, [fb EXCEPT ![y0 + 1][x0] = c])

\* The rows written, without scrolling: the screen is the last of them.
records(c) ==
  LET top_row == Len(text) - ROW_CNT
      line_full == (c = "x" /\ x0 = COL_CNT - 1) \/ (c = "tab" /\ x0 >= COL_CNT - TAB)
      put == IF c = "x" THEN [text EXCEPT ![top_row + y0 + 1][x0] = c] ELSE text
  IN text' = IF c = "ff" THEN text \o [y \in 1 .. ROW_CNT |-> blank]
             ELSE IF (c = "nl" \/ line_full) /\ y0 = ROW_CNT - 1 THEN Append(put, blank) ELSE put

\* vga_putc() of a character, by a thread or by a handler; where interrupts are
\* off, the bell is silent.
vga_put(c) ==
  /\ puts < MaxPutc
  /\ interprets(c)
  /\ records(c)
  /\ move_cursor
  /\ inited' = TRUE
  /\ puts' = puts + 1
  /\ UNCHANGED <<beeping, speaker>>

\* vga_putc('\a') in a thread with interrupts on, up to the sleep, and its end.
vga_bell ==
  /\ puts < MaxPutc /\ ~beeping
  /\ cx' = x0 /\ cy' = y0 /\ inited' = TRUE
  /\ beeping' = TRUE /\ speaker' = TRUE
  /\ puts' = puts + 1
  /\ UNCHANGED <<fb, cursor, text>>

vga_bell_end ==
  /\ beeping
  /\ beeping' = FALSE /\ speaker' = FALSE
  /\ cx' = cx /\ cy' = cy
  /\ move_cursor
  /\ UNCHANGED <<fb, inited, puts, text>>

VgaNext ==
  \/ \E c \in {"x", "nl", "ff", "bs", "cr", "tab", "bell"} : vga_put(c)
  \/ vga_bell
  \/ vga_bell_end

----------------------------------------------------------------------------
(* Properties *)

\* The cursor is on the screen, where the next character is put without
\* leaving the framebuffer, and the hardware shows it there, also when a
\* handler has printed in the middle of a bell.
CursorOnScreen ==
  inited => /\ cx \in 0 .. COL_CNT - 1 /\ cy \in 0 .. ROW_CNT - 1
            /\ cursor = cx + COL_CNT * cy

\* The screen shows the last rows of everything written: scrolling, tabs and
\* full lines lose no row, repeat none and leave nothing behind in a new one.
ScreenShowsText == fb = SubSeq(text, Len(text) - ROW_CNT + 1, Len(text))
=============================================================================
