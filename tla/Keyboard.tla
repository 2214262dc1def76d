------------------------------ MODULE Keyboard ------------------------------
(***************************************************************************)
(* The keyboard driver (devices/kbd.c): scancodes of key presses and       *)
(* releases become characters for the input buffer.  A scancode stands for *)
(* itself as the name of its key; Keymap has one key of each kind.         *)
(***************************************************************************)
EXTENDS Integers, FiniteSets

CONSTANT Plain   \* the keys typed, out of DOMAIN Keymap

Shift == {"left shift", "right shift"}
Alt == {"left alt", "right alt"}
Ctrl == {"left ctrl", "right ctrl"}
ShiftKeys == Shift \union Alt \union Ctrl
CapsLock == "caps lock"

\* The keymaps, as the character without and with Shift.
Keymap == [A |-> <<65, 65>>, two |-> <<50, 64>>, bracket |-> <<91, 123>>,
           escape |-> <<27, 27>>, delete |-> <<127, 127>>]

KeyboardAssumption == Plain \subseteq DOMAIN Keymap

VARIABLES
  state_var,   \* the shift keys whose variable is true
  caps_lock,
  rebooted,    \* shutdown_reboot() was called
  typed,       \* the last character put in the input buffer, and why
  down,        \* history: the shift keys held down
  caps_on      \* history: Caps Lock was struck an odd number of times

kbd_vars == <<state_var, caps_lock, rebooted, typed, down, caps_on>>

Nothing == [key |-> "none"]

KeyboardInit ==
  /\ state_var = {} /\ caps_lock = FALSE /\ rebooted = FALSE
  /\ typed = Nothing /\ down = {} /\ caps_on = FALSE

tolower(c) == IF c \in 65 .. 90 THEN c + 32 ELSE c

\* map_key() in the three tables
map_key(key, shift) == Keymap[key][IF shift THEN 2 ELSE 1]

\* The character of keyboard_interrupt() for a press.
Character(key) ==
  LET shift == state_var \intersect Shift # {}
      c == map_key(key, shift)
      d == IF state_var \intersect Ctrl # {} /\ c \in 64 .. 95 THEN c - 64
           ELSE IF shift = caps_lock THEN tolower(c) ELSE c
  IN  IF state_var \intersect Alt # {} THEN d + 128 ELSE d

\* Mutant: the two keys of a pair share a variable.
ShiftReleased_pair(key) ==
  state_var \ (CHOOSE p \in {Shift, Alt, Ctrl} : key \in p)

ShiftReleased(key) == state_var \ {key}

\* A key goes down, or repeats while it is held.
key_pressed(key) ==
  /\ ~rebooted
  /\ down' = down \union ({key} \intersect ShiftKeys)
  /\ state_var' = IF key \in ShiftKeys THEN state_var \union {key} ELSE state_var
  /\ caps_lock' = IF key = CapsLock THEN ~caps_lock ELSE caps_lock
  /\ caps_on' = IF key = CapsLock THEN ~caps_on ELSE caps_on
  /\ rebooted' = (key = "delete" /\ state_var \intersect Alt # {}
                    /\ state_var \intersect Ctrl # {})
  /\ typed' = IF key \in Plain /\ ~rebooted'
              THEN [key |-> key, char |-> Character(key), held |-> down, caps |-> caps_on]
              ELSE typed

\* The release of a key that is not a shift key changes nothing.
key_released(key) ==
  /\ ~rebooted /\ key \in down
  /\ down' = down \ {key}
  /\ state_var' = ShiftReleased(key)
  /\ UNCHANGED <<caps_lock, rebooted, typed, caps_on>>

-----------------------------------------------------------------------------
(***************************************************************************)
(* A typed character is the one the keys held down call for, however the   *)
(* two keys of a pair and Caps Lock were struck before: Ctrl makes a       *)
(* letter a control character whatever Shift is ("Ctrl overrides Shift",   *)
(* devices/kbd.c:141), else a letter is a capital when exactly one of      *)
(* Shift and Caps Lock is on and Caps Lock leaves other keys alone; Alt    *)
(* sets the high bit.                                                      *)
(***************************************************************************)
KeysAsHeld ==
  /\ state_var = down
  /\ typed # Nothing =>
       LET on(pair) == typed.held \intersect pair # {}
           letter == IF on(Ctrl) THEN 1 ELSE IF on(Shift) # typed.caps THEN 65 ELSE 97
           plain == CASE typed.key = "A" -> letter
                      [] typed.key = "two" -> IF ~on(Shift) THEN 50 ELSE IF on(Ctrl) THEN 0 ELSE 64
                      [] typed.key = "bracket" -> IF on(Shift) THEN 123 ELSE IF on(Ctrl) THEN 27 ELSE 91
                      [] typed.key = "escape" -> 27
                      [] typed.key = "delete" -> 127
       IN  /\ typed.char = plain + (IF on(Alt) THEN 128 ELSE 0)
           /\ typed.key = "delete" => ~(on(Alt) /\ on(Ctrl))
=============================================================================
