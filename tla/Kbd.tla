-------------------------------- MODULE Kbd --------------------------------
(***************************************************************************)
(* The keyboard driver, devices/kbd.c: which shift keys are down, Caps     *)
(* Lock, and the character each key press appends to the input buffer.     *)
(* Characters are their ASCII codes.  Keys is the set of keys of the       *)
(* keyboard, by the scancode the driver sees without its release bit; a    *)
(* key that is held down repeats its press.  The buffer (input.c, module   *)
(* Serial) is taken by whether it has room.                                *)
(***************************************************************************)
EXTENDS Integers, Sequences, FiniteSets

CONSTANT Keys

VARIABLES
  down,        \* the keys that are down (the keyboard's own state)
  kbd,         \* the driver's shift variables and caps_lock
  typed,       \* what the last interrupt appended: [key, char], or NoChar
  rebooted     \* shutdown_reboot() was called

kbd_vars == <<down, kbd, typed, rebooted>>

NoChar == [key |-> 0, char |-> -1]

(* The keymaps: runs of scancodes, and the character of each. *)
Run(first, chars) == [first |-> first, chars |-> chars]
Upto(a, b) == [i \in 1 .. b - a + 1 |-> a + i - 1]

invariant_keymap ==
  << Run(1, <<27>>), Run(14, <<8>>),
     Run(15, <<9, 81, 87, 69, 82, 84, 89, 85, 73, 79, 80>>),
     Run(28, <<13>>),
     Run(30, <<65, 83, 68, 70, 71, 72, 74, 75, 76>>),
     Run(44, <<90, 88, 67, 86, 66, 78, 77>>),
     Run(55, <<42>>), Run(57, <<32>>), Run(83, <<127>>) >>

unshifted_keymap ==
  << Run(2, Upto(49, 57) \o <<48, 45, 61>>), Run(26, <<91, 93>>),
     Run(39, <<59, 39, 96>>), Run(43, <<92>>), Run(51, <<44, 46, 47>>) >>

shifted_keymap ==
  << Run(2, <<33, 64, 35, 36, 37, 94, 38, 42, 40, 41, 95, 43>>),
     Run(26, <<123, 125>>), Run(39, <<58, 34, 126>>), Run(43, <<124>>),
     Run(51, <<60, 62, 63>>) >>

(* The shift keys by scancode, 0xe038 and 0xe01d with their prefix, and    *)
(* Caps Lock.                                                              *)
shift_keys == [left_shift |-> 42, right_shift |-> 54, left_alt |-> 56,
               right_alt |-> 57400, left_ctrl |-> 29, right_ctrl |-> 57373]
CAPS == 58
DEL == 127

Covers(r, code) == r.first <= code /\ code < r.first + Len(r.chars)

Mapped(keymap, code) == \E i \in DOMAIN keymap : Covers(keymap[i], code)

(* map_key(): the first run that covers the code. *)
map_key(keymap, code) ==
  LET i == CHOOSE i \in DOMAIN keymap :
             /\ Covers(keymap[i], code)
             /\ \A j \in 1 .. i - 1 : ~Covers(keymap[j], code)
  IN  keymap[i].chars[code - keymap[i].first + 1]

tolower(c) == IF c \in 65 .. 90 THEN c + 32 ELSE c

kbd_init ==
  /\ down = {}
  /\ kbd = [k \in DOMAIN shift_keys \cup {"caps_lock"} |-> FALSE]
  /\ typed = NoChar
  /\ rebooted = FALSE

shift == kbd.left_shift \/ kbd.right_shift
alt == kbd.left_alt \/ kbd.right_alt
ctrl == kbd.left_ctrl \/ kbd.right_ctrl

(* The keymap in which the interrupt finds the code, if any. *)
KeymapOf(code) ==
  IF Mapped(invariant_keymap, code) THEN invariant_keymap
  ELSE IF shift THEN shifted_keymap ELSE unshifted_keymap

Ordinary(code) == Mapped(KeymapOf(code), code)

(* Ctrl, which overrides Shift, or the case of a letter. *)
WithShift(c) ==
  IF ctrl /\ c \in 64 .. 95 THEN c - 64
  ELSE IF shift = kbd.caps_lock THEN tolower(c) ELSE c

(* keyboard_interrupt() for a key press: Caps Lock, an ordinary character  *)
(* or a shift key, told apart in this order.                               *)
PressCode(code) ==
  IF code = CAPS
  THEN /\ kbd' = [kbd EXCEPT !.caps_lock = ~@]
       /\ typed' = NoChar /\ UNCHANGED rebooted
  ELSE IF Ordinary(code)
  THEN LET c == map_key(KeymapOf(code), code)
           d == WithShift(c) + (IF alt THEN 128 ELSE 0) IN
         /\ rebooted' = (c = DEL /\ ctrl /\ alt)
         /\ \E input_full \in BOOLEAN :
              typed' = IF input_full \/ rebooted' THEN NoChar
                       ELSE [key |-> code, char |-> d]
         /\ UNCHANGED kbd
  ELSE /\ kbd' = [k \in DOMAIN kbd |->
                    IF k # "caps_lock" /\ shift_keys[k] = code THEN TRUE ELSE kbd[k]]
       /\ typed' = NoChar /\ UNCHANGED rebooted

(* Wrong: the release of a right-hand key is not looked up. *)
ReleaseCode_Left(code) ==
  /\ kbd' = [k \in DOMAIN kbd |->
               IF /\ k \in {"left_shift", "left_alt", "left_ctrl"}
                  /\ shift_keys[k] = code
               THEN FALSE ELSE kbd[k]]
  /\ typed' = NoChar /\ UNCHANGED rebooted

(* The same for a key release: only a shift key has an effect. *)
ReleaseCode(code) ==
  /\ kbd' = [k \in DOMAIN kbd |->
               IF k # "caps_lock" /\ ~Ordinary(code) /\ shift_keys[k] = code
               THEN FALSE ELSE kbd[k]]
  /\ typed' = NoChar /\ UNCHANGED rebooted

Press(code) == ~rebooted /\ down' = down \cup {code} /\ PressCode(code)
Release(code) == code \in down /\ ~rebooted /\ down' = down \ {code} /\ ReleaseCode(code)

KbdNext == \E code \in Keys : Press(code) \/ Release(code)

KbdSpec == kbd_init /\ [][KbdNext]_kbd_vars

(***************************************************************************)
(* Properties.                                                             *)
(***************************************************************************)
(* After any sequence of presses, repeats and releases, in any order, of   *)
(* either hand's keys, each shift variable says whether its key is down.   *)
ShiftStateFollowsKeys ==
  \A k \in DOMAIN shift_keys : kbd[k] = (shift_keys[k] \in down)

(* What reaches the input buffer: a letter is upper case exactly when one  *)
(* of Shift and Caps Lock applies, Ctrl makes it 1 to 26 whatever Shift    *)
(* and Caps Lock say, Alt adds 128, and no character of a key without Alt  *)
(* has the high bit.                                                       *)
LettersHaveTheirCase ==
  (typed # NoChar /\ ~rebooted) =>
    LET low == typed.char % 128
        letter == \E i \in DOMAIN invariant_keymap :
                    /\ Covers(invariant_keymap[i], typed.key)
                    /\ map_key(invariant_keymap, typed.key) \in 65 .. 90 IN
      /\ (typed.char >= 128) = alt
      /\ letter => IF ctrl THEN low \in 1 .. 26
                   ELSE IF shift # kbd.caps_lock THEN low \in 65 .. 90
                   ELSE low \in 97 .. 122

TablesApart ==
  \A code \in 0 .. 127 :
    LET inv == Mapped(invariant_keymap, code)
        uns == Mapped(unshifted_keymap, code)
        mod == code = CAPS \/ \E k \in DOMAIN shift_keys : shift_keys[k] = code IN
      /\ uns = Mapped(shifted_keymap, code)
      /\ ~(inv /\ uns) /\ ~(inv /\ mod) /\ ~(uns /\ mod)

(* No two tables claim one scancode, so the order in which the interrupt   *)
(* asks them does not matter; a key has a shifted character exactly when   *)
(* it has an unshifted one.                                                *)
KeymapsApart == down = {} => TablesApart

(* Whatever order keys are pressed and released in, a key types the         *)
(* character its modifiers call for.                                        *)
KeysTypeRight == ShiftStateFollowsKeys /\ LettersHaveTheirCase /\ KeymapsApart
=============================================================================
