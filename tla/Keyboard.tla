------------------------------ MODULE Keyboard ------------------------------
(***************************************************************************)
(* The keyboard (kernel/kbd.c, the tables of kernel/kbd.h): keys are       *)
(* pressed, repeat while they are held, and are released; each sends one   *)
(* or two bytes, which kbdgetc turns one at a time into the modifiers in   *)
(* force and a character for consoleintr.  Of the tables the model keeps   *)
(* the keys that change the modifiers and one letter, u.                   *)
(***************************************************************************)
EXTENDS Naturals, Sequences

VARIABLES shift,    \* kbdgetc's modifiers
          wire,     \* bytes sent and not yet read
          held,     \* per key: "up", "down", or "old" when another key with
                    \* the same modifier was released since it last sent
          caps,     \* whether caps lock is on
          char      \* the last key's character, "" if it has none

kbdvars == <<shift, wire, held, caps, char>>

(***************************************************************************)
(* The keys: the byte of each, and whether 0xE0 announces it.              *)
(***************************************************************************)
Keys == {"lctl", "rctl", "lshift", "rshift", "caps", "u"}
Code == [lctl |-> "1D", rctl |-> "1D", lshift |-> "2A", rshift |-> "36",
         caps |-> "3A", u |-> "u"]
Escaped == {"rctl"}
Modifier == [lctl |-> "CTL", rctl |-> "CTL", lshift |-> "SHIFT", rshift |-> "SHIFT",
             caps |-> "none", u |-> "none"]
E0 == [code |-> "E0", up |-> FALSE]

KbdInit == /\ shift = {} /\ wire = <<>> /\ caps = FALSE /\ char = ""
           /\ held = [k \in Keys |-> "up"]

\* The person at the keyboard presses a key, holds it, or lets it go.
strike(k, up) ==
    /\ wire = <<>>
    /\ up => held[k] # "up"
    /\ wire' = (IF k \in Escaped THEN <<E0>> ELSE <<>>) \o <<[code |-> Code[k], up |-> up]>>
    /\ held' = [j \in Keys |->
          IF j = k THEN (IF up THEN "up" ELSE "down")
          ELSE IF up /\ Modifier[j] = Modifier[k] /\ held[j] = "down" THEN "old"
          ELSE held[j]]
    /\ caps' = (caps # (k = "caps" /\ ~up))
    /\ UNCHANGED <<shift, char>>

(***************************************************************************)
(* The tables, of a code that was or was not announced.                    *)
(***************************************************************************)
shiftcode(code, e0) == IF code = "1D" THEN {"CTL"}
                       ELSE IF ~e0 /\ code \in {"2A", "36"} THEN {"SHIFT"} ELSE {}

togglecode(code, e0) == IF ~e0 /\ code = "3A" THEN {"CAPSLOCK"} ELSE {}

\* normalmap, shiftmap and ctlmap.
charcode(sh, code, e0) == IF e0 \/ code # "u" THEN ""
                          ELSE IF "CTL" \in sh THEN "^U"
                          ELSE IF "SHIFT" \in sh THEN "U" ELSE "u"

(***************************************************************************)
(* kbdgetc on one byte: the new modifiers, and the character.              *)
(***************************************************************************)
Xor(S, T) == (S \ T) \cup (T \ S)

\* Mutant: the escape of a released key is left for the next key.
kbdshift_KeepsE0(sh, data) ==
    LET e0 == "E0ESC" \in sh
    IN  IF data = E0 THEN sh \cup {"E0ESC"}
        ELSE IF data.up THEN sh \ shiftcode(data.code, e0)
        ELSE Xor((sh \ {"E0ESC"}) \cup shiftcode(data.code, e0), togglecode(data.code, e0))

kbdshift(sh, data) ==
    LET e0 == "E0ESC" \in sh
    IN  IF data = E0 THEN sh \cup {"E0ESC"}
        ELSE IF data.up THEN sh \ (shiftcode(data.code, e0) \cup {"E0ESC"})
        ELSE Xor((sh \ {"E0ESC"}) \cup shiftcode(data.code, e0), togglecode(data.code, e0))

Swapped == [c \in {"", "u", "U", "^U"} |->
               CASE c = "u" -> "U" [] c = "U" -> "u" [] OTHER -> c]

kbdgetc(sh, data) ==
    LET new == kbdshift(sh, data)
        c == charcode(new, data.code, "E0ESC" \in sh)
    IN  IF data = E0 \/ data.up THEN ""
        ELSE IF "CAPSLOCK" \in new THEN Swapped[c] ELSE c

kbdintr == /\ wire # <<>>
           /\ wire' = Tail(wire)
           /\ shift' = kbdshift(shift, Head(wire))
           /\ char' = kbdgetc(shift, Head(wire))
           /\ UNCHANGED <<held, caps>>

KbdNext == kbdintr \/ \E k \in Keys, up \in BOOLEAN : strike(k, up)

KbdSpec == KbdInit /\ [][KbdNext]_kbdvars

Held(m) == \E k \in Keys : Modifier[k] = m /\ held[k] = "down"

(***************************************************************************)
(* Once its bytes are read, a modifier is in force exactly when one of its *)
(* keys is held that has sent since the other was released, no escape is   *)
(* left over for the next key, and the letter came out as those keys say.  *)
(***************************************************************************)
KeysRight ==
    wire = <<>> =>
        /\ shift = {m \in {"CTL", "SHIFT"} : Held(m)} \cup (IF caps THEN {"CAPSLOCK"} ELSE {})
        /\ char \in {"", IF Held("CTL") THEN "^U" ELSE IF Held("SHIFT") # caps THEN "U" ELSE "u"}

=============================================================================
