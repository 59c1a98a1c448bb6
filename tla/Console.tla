------------------------------ MODULE Console -------------------------------
(* The console: the line discipline and its readers and writers              *)
(* (kernel/console.c, kernel/file.c).  The characters come from the keyboard *)
(* (module Keyboard) and from the serial port (kernel/uart.c), which are     *)
(* never held up by what becomes of them: any character may come next.       *)
(*                                                                           *)
(* input.lock is lock.  An interrupt handler takes it for one character, a   *)
(* reader until it sleeps or returns.  busy is I_BUSY of the console's       *)
(* inode, which readers and writers let go of while they work.  What is      *)
(* printed is left out.                                                      *)
EXTENDS Integers, Sequences, FiniteSets

CONSTANTS
  Proc, NoProc,   \* processes; nobody
  INPUT_BUF,      \* size of the ring
  UintMod,        \* number of values of a uint
  MAXREAD,        \* bound on the count of a read
  Kills           \* whether processes are killed

ASSUME ConsoleAssumption ==
  /\ {INPUT_BUF, UintMod, MAXREAD} \subseteq Nat \ {0} /\ Kills \in BOOLEAN
  /\ UintMod % INPUT_BUF = 0 /\ UintMod > INPUT_BUF /\ NoProc \notin Proc

VARIABLES
  buf, r, w, e,   \* struct input
  lock, busy,     \* who has input.lock; who has the inode
  pc, loc,        \* where each process is in its call, and its locals
  killed

ring == <<buf, r, w, e>>
vars == <<ring, lock, busy, pc, loc, killed>>

Char == {"x", "\n", "^D"}     \* "x": whatever has no meaning to the console
NoLocals == [target |-> 0, got |-> <<>>]

Init ==
  /\ buf = [i \in 0..(INPUT_BUF - 1) |-> "x"] /\ r = 0 /\ w = 0 /\ e = 0
  /\ lock = NoProc /\ busy = NoProc
  /\ pc = [p \in Proc |-> "idle"] /\ loc = [p \in Proc |-> NoLocals]
  /\ killed = [p \in Proc |-> FALSE]

-----------------------------------------------------------------------------
(* The line discipline.                                                      *)

Minus(a, b) == (a - b) % UintMod
At(i) == buf[i % INPUT_BUF]

\* wakeup(&input.r)
Wakeup == pc' = [p \in Proc |-> IF pc[p] = "asleep" THEN "acquire" ELSE pc[p]]

\* How far ^U goes back: to w, or to a newline.
LineStart == CHOOSE n \in 0..Minus(e, w) :
  /\ n = Minus(e, w) \/ At(Minus(e, n + 1)) = "\n"
  /\ \A m \in 0..(n - 1) : At(Minus(e, m + 1)) # "\n"

\* The default of the switch.
Insert(c) ==
  /\ c # "" /\ Minus(e, r) < INPUT_BUF
  /\ buf' = [buf EXCEPT ![e % INPUT_BUF] = c] /\ e' = (e + 1) % UintMod
  /\ IF c \in {"\n", "^D"} \/ e' = (r + INPUT_BUF) % UintMod THEN w' = e' /\ Wakeup
     ELSE UNCHANGED <<w, pc>>
  /\ UNCHANGED r

\* Mutant: backspace reaches into what has been handed over.
Backspace_Any == IF e # r THEN Minus(e, 1) ELSE e
Backspace == IF e # w THEN Minus(e, 1) ELSE e

\* One round of consoleintr.
consoleintr(c) ==
  \/ c = "^U" /\ e' = Minus(e, LineStart) /\ UNCHANGED <<buf, r, w, pc>>
  \/ c = "^H" /\ e' = Backspace /\ UNCHANGED <<buf, r, w, pc>>
  \/ c \in Char /\ Insert(c)
  \/ c = "\r" /\ Insert("\n")
  \/ (c = "" \/ (c \in Char \cup {"\r"} /\ Minus(e, r) >= INPUT_BUF)) /\ UNCHANGED <<ring, pc>>

\* kbdintr and uartintr.
intr(c) ==
  /\ lock = NoProc /\ consoleintr(c)
  /\ UNCHANGED <<lock, busy, loc, killed>>

-----------------------------------------------------------------------------
(* Readers and writers.                                                      *)

Goto(p, where) == pc' = [pc EXCEPT ![p] = where]

\* fileread and filewrite lock the inode ...
fileread(p) ==
  /\ pc[p] = "idle" /\ ~killed[p] /\ busy = NoProc /\ busy' = p
  /\ \/ Goto(p, "write") /\ UNCHANGED loc
     \/ Goto(p, "read") /\ \E n \in 1..MAXREAD : loc' = [loc EXCEPT ![p].target = n]
  /\ UNCHANGED <<ring, lock, killed>>

\* ... consoleread and consolewrite unlock it ...
consolewrite(p) ==
  /\ pc[p] = "write" /\ busy' = NoProc /\ Goto(p, "relock")
  /\ UNCHANGED <<ring, lock, loc, killed>>

\* Mutant: the inode stays locked.
consoleread_KeepsInode(p) ==
  /\ pc[p] = "read" /\ Goto(p, "acquire")
  /\ UNCHANGED <<ring, lock, busy, loc, killed>>

consoleread(p) ==
  /\ pc[p] = "read" /\ busy' = NoProc /\ Goto(p, "acquire")
  /\ UNCHANGED <<ring, lock, loc, killed>>

\* ... and work without it; sleep also comes back by this way.
Acquire(p) ==
  /\ pc[p] = "acquire" /\ lock = NoProc /\ lock' = p /\ Goto(p, "loop")
  /\ UNCHANGED <<ring, busy, loc, killed>>

Leave(p) == lock' = NoProc /\ Goto(p, "relock")

\* The next character of a read, a stop at the end of the line, at the count
\* or at ^D, which is put back if the read has got something; or nothing to
\* read.
Loop(p) ==
  LET l == loc[p]  c == At(r) IN
  /\ pc[p] = "loop"
  /\ \/ /\ Len(l.got) < l.target /\ r = w
        /\ IF killed[p] THEN Leave(p) ELSE Goto(p, "sleep") /\ UNCHANGED lock
        /\ UNCHANGED <<r, loc>>
     \/ /\ Len(l.got) < l.target /\ r # w /\ c = "^D" /\ Leave(p)
        /\ r' = IF l.got = <<>> THEN (r + 1) % UintMod ELSE r
        /\ UNCHANGED loc
     \/ /\ Len(l.got) < l.target /\ r # w /\ c # "^D"
        /\ r' = (r + 1) % UintMod /\ loc' = [loc EXCEPT ![p].got = Append(@, c)]
        /\ IF c = "\n" \/ Len(l.got) + 1 = l.target THEN Leave(p) ELSE UNCHANGED <<lock, pc>>
  /\ UNCHANGED <<buf, w, e, busy, killed>>

\* sleep: input.lock is released once ptable.lock is held.
Sleep(p) ==
  /\ pc[p] = "sleep" /\ lock' = NoProc /\ Goto(p, "asleep")
  /\ UNCHANGED <<ring, busy, loc, killed>>

\* The inode is locked again, and unlocked by the caller.
Relock(p) ==
  /\ pc[p] = "relock" /\ busy = NoProc /\ busy' = p /\ Goto(p, "return")
  /\ UNCHANGED <<ring, lock, loc, killed>>
Return(p) ==
  /\ pc[p] = "return" /\ busy' = NoProc /\ Goto(p, "idle") /\ loc' = [loc EXCEPT ![p] = NoLocals]
  /\ UNCHANGED <<ring, lock, killed>>

\* kill, and the exit of the killed process in trap (another takes its place).
kill(p) ==
  /\ Kills /\ ~killed[p] /\ killed' = [killed EXCEPT ![p] = TRUE]
  /\ IF pc[p] = "asleep" THEN Goto(p, "acquire") ELSE UNCHANGED pc
  /\ UNCHANGED <<ring, lock, busy, loc>>
trapExit(p) ==
  /\ pc[p] = "idle" /\ killed[p] /\ killed' = [killed EXCEPT ![p] = FALSE]
  /\ UNCHANGED <<ring, lock, busy, pc, loc>>

-----------------------------------------------------------------------------
Working(p) ==
  consolewrite(p) \/ consoleread(p) \/ Loop(p) \/ Sleep(p) \/ Return(p)
Step(p) == fileread(p) \/ Working(p) \/ Acquire(p) \/ Relock(p) \/ kill(p) \/ trapExit(p)

Next ==
  \/ \E c \in Char \cup {"^U", "^H", "\r", ""} : intr(c)
  \/ \E p \in Proc : Step(p)
Spec == Init /\ [][Next]_vars

-----------------------------------------------------------------------------
Slice(from, to) == [i \in 1..Minus(to, from) |-> At((from + i - 1) % UintMod)]

\* The type invariant.
TypeOK ==
  /\ buf \in [0..(INPUT_BUF - 1) -> Char] /\ {r, w, e} \subseteq 0..(UintMod - 1)
  /\ {lock, busy} \subseteq Proc \cup {NoProc}
  /\ killed \in [Proc -> BOOLEAN]
  /\ \A p \in Proc : Len(loc[p].got) <= loc[p].target

\* The indices keep their order modulo the width of uint; what is being
\* edited has no end of line in it; a full ring is all handed over, so that
\* the console is never wedged.
Ring ==
  /\ Minus(w, r) + Minus(e, w) = Minus(e, r) /\ Minus(e, r) <= INPUT_BUF
  /\ \A i \in DOMAIN Slice(w, e) : Slice(w, e)[i] = "x"
  /\ Minus(e, r) = INPUT_BUF => w = e

\* No reader sleeps while there is something to read, however consoleintr,
\* readers and kill interleave.
NoLostWakeup == \A p \in Proc : pc[p] = "asleep" => r = w

\* Who waits for a line lets others write to the console meanwhile.
NoHoldAndWait == \A p \in Proc : pc[p] = "asleep" => busy # p

\* What the handlers and readers may rely on.
InputSafe == TypeOK /\ Ring /\ NoLostWakeup /\ NoHoldAndWait

Discipline == INSTANCE Lines WITH
  Reader <- Proc, NL <- "\n", EOF <- "^D", Room <- INPUT_BUF,
  edit <- Slice(w, e), avail <- Slice(r, w), got <- [p \in Proc |-> loc[p].got]

\* The console keeps the promise of Lines: what is typed is delivered in
\* order and once, what is erased never is, a read gets at most a line, and
\* ^D waits for a read that has nothing.
RefinesLines == Discipline!LinesSpec
=============================================================================
