-------------------------------- MODULE Kbd --------------------------------
(***************************************************************************)
(* The keyboard driver (devices/kbd.c): what keyboard_interrupt() makes of *)
(* the scancodes that the keyboard sends when keys go down and up, in any  *)
(* order and overlap.  Characters are their codes; of the keymaps there is *)
(* a key of each kind.                                                     *)
(***************************************************************************)
EXTENDS Integers, FiniteSets

CONSTANTS KeyRoom,         \* characters that the input buffer takes
          MaxHeld          \* bound: keys held at a time

VARIABLES shift_state,     \* the variables of shift_keys[] that are true
          caps_lock,
          in_buffer,       \* characters in the input buffer
          held,            \* the keys that are down (the keyboard's own state)
          last_char,       \* what input_putc() got last, and for which key
          rebooted         \* shutdown_reboot() was called

kbdvars == <<shift_state, caps_lock, in_buffer, held, last_char, rebooted>>

ShiftKey == {"left_shift", "right_shift", "left_alt", "right_alt", "left_ctrl", "right_ctrl"}

\* Keys by kind: their characters without and with Shift.  The keymaps hold
\* letters in upper case, the same in both.
key_chars == [letter |-> <<65, 65>>,    \* A
              symbol |-> <<50, 64>>,    \* 2 @
              bracket |-> <<91, 123>>,  \* [ {
              delete |-> <<127, 127>>]

KbdInit ==
  /\ shift_state = {} /\ caps_lock = FALSE /\ in_buffer = 0
  /\ held = {} /\ last_char = <<"none", 0>> /\ rebooted = FALSE

shift == {"left_shift", "right_shift"} \cap shift_state # {}
alt == {"left_alt", "right_alt"} \cap shift_state # {}
ctrl == {"left_ctrl", "right_ctrl"} \cap shift_state # {}

map_key(key) == key_chars[key][IF shift THEN 2 ELSE 1]
tolower(c) == IF c \in 65 .. 90 THEN c + 32 ELSE c

\* Letters are lower case: shift == caps_lock
lowers(s, caps) == s = caps

\* The character that goes to the input buffer, a uint8_t.
interpret(key) ==
  LET c == map_key(key)
      d == IF ctrl /\ c \in 64 .. 95 THEN c - 64
           ELSE IF lowers(shift, caps_lock) THEN tolower(c) ELSE c
  IN (IF alt THEN d + 128 ELSE d) % 256

\* The keyboard sends the code of an ordinary key that goes down or is
\* repeated.  The character is dropped if the buffer has no room.
ordinary_pressed(key) ==
  /\ ~rebooted /\ (key \in held \/ Cardinality(held) < MaxHeld)
  /\ held' = held \cup {key}
  /\ rebooted' = (map_key(key) = 127 /\ ctrl /\ alt)
  /\ IF ~rebooted' /\ in_buffer < KeyRoom
     THEN in_buffer' = in_buffer + 1 /\ last_char' = <<key, interpret(key)>>
     ELSE UNCHANGED <<in_buffer, last_char>>
  /\ UNCHANGED <<shift_state, caps_lock>>

ordinary_released(key) ==
  /\ ~rebooted /\ key \in held
  /\ held' = held \ {key}
  /\ last_char' = <<"none", 0>>
  /\ UNCHANGED <<shift_state, caps_lock, in_buffer, rebooted>>

caps_pressed ==
  /\ ~rebooted
  /\ caps_lock' = ~caps_lock
  /\ last_char' = <<"none", 0>>
  /\ UNCHANGED <<shift_state, in_buffer, held, rebooted>>

\* Mutation: both keys of a pair share one variable.
released_pair(key) ==
  CHOOSE s \in {{"left_shift", "right_shift"}, {"left_alt", "right_alt"}, {"left_ctrl", "right_ctrl"}} : key \in s

\* The variables that the release of a key makes false.
released(key) == {key}

shift_key(key, release) ==
  /\ ~rebooted /\ (release <=> key \in held) /\ (release \/ Cardinality(held) < MaxHeld)
  /\ held' = IF release THEN held \ {key} ELSE held \cup {key}
  /\ shift_state' = IF release THEN shift_state \ released(key) ELSE shift_state \cup {key}
  /\ last_char' = <<"none", 0>>
  /\ UNCHANGED <<caps_lock, in_buffer, rebooted>>

\* input_getc() makes room.
key_read ==
  /\ in_buffer > 0 /\ ~rebooted
  /\ in_buffer' = in_buffer - 1
  /\ UNCHANGED <<shift_state, caps_lock, held, last_char, rebooted>>

KbdNext ==
  \/ \E key \in DOMAIN key_chars : ordinary_pressed(key) \/ ordinary_released(key)
  \/ caps_pressed
  \/ \E key \in ShiftKey, release \in BOOLEAN : shift_key(key, release)
  \/ key_read

----------------------------------------------------------------------------
(* Properties *)

holds(s) == s \cap held # {}

\* The driver believes a modifier to be down exactly while the key is, for each
\* of the two keys of a pair on its own, in whatever order they are released.
ShiftTracksKeys == shift_state = held \cap ShiftKey

\* A key gives the character that the keys held with it call for: a letter is
\* upper case if exactly one of Shift and Caps Lock is on, Ctrl wins over both,
\* Alt sets the high bit and never overflows the byte.
CharacterRight ==
  last_char[1] \in DOMAIN key_chars =>
    LET pressed == last_char[1]
        up == holds({"left_shift", "right_shift"})
        control == holds({"left_ctrl", "right_ctrl"})
        base == CASE pressed = "letter" -> IF control THEN 1 ELSE IF up = caps_lock THEN 97 ELSE 65
                  [] pressed = "symbol" -> IF ~up THEN 50 ELSE IF control THEN 0 ELSE 64
                  [] pressed = "bracket" -> IF up THEN 123 ELSE IF control THEN 27 ELSE 91
                  [] pressed = "delete" -> 127
    IN last_char[2] = base + IF holds({"left_alt", "right_alt"}) THEN 128 ELSE 0
=============================================================================
