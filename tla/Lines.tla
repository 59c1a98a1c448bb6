------------------------------- MODULE Lines --------------------------------
(* What the console promises to those who type and those who read: a line    *)
(* can be edited until it ends; then its characters are delivered in order,  *)
(* each once, and a read gets at most one line.                              *)
EXTENDS Naturals, Sequences, SequencesExt

CONSTANTS Reader, Char, NL, EOF, Room

VARIABLES edit,    \* the line being typed
          avail,   \* what has been typed for good and not yet read
          got      \* per reader: what its call has so far

lines_vars == <<edit, avail, got>>

LinesInit == edit = <<>> /\ avail = <<>> /\ got = [p \in Reader |-> <<>>]

\* A character, when there is room; NL, EOF and the last character that fits
\* end the line.
Type(c) ==
  LET line == Append(edit, c) IN
  /\ Len(avail) + Len(edit) < Room
  /\ IF c \in {NL, EOF} \/ Len(avail) + Len(line) = Room
     THEN avail' = avail \o line /\ edit' = <<>>
     ELSE edit' = line /\ UNCHANGED avail
  /\ UNCHANGED got

Erase == edit # <<>> /\ edit' = Front(edit) /\ UNCHANGED <<avail, got>>
EraseLine == edit' = <<>> /\ UNCHANGED <<avail, got>>

\* One more character for a read that has not had its line.
Take(p) ==
  /\ avail # <<>> /\ Head(avail) # EOF /\ ~Contains(got[p], NL)
  /\ got' = [got EXCEPT ![p] = Append(@, Head(avail))] /\ avail' = Tail(avail)
  /\ UNCHANGED edit

\* EOF ends a read that has nothing, and waits for the next if it has.
TakeEOF(p) ==
  /\ avail # <<>> /\ Head(avail) = EOF /\ got[p] = <<>> /\ avail' = Tail(avail)
  /\ UNCHANGED <<edit, got>>

Return(p) == got' = [got EXCEPT ![p] = <<>>] /\ UNCHANGED <<edit, avail>>

LinesNext ==
  \/ \E c \in Char : Type(c)
  \/ Erase \/ EraseLine
  \/ \E p \in Reader : Take(p) \/ TakeEOF(p) \/ Return(p)
LinesSpec == LinesInit /\ [][LinesNext]_lines_vars
=============================================================================
