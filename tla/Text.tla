-------------------------------- MODULE Text --------------------------------
(***************************************************************************)
(* The routines on characters and bytes that the kernel and the programs   *)
(* are built from, each as the loop the code runs and each beside a        *)
(* definition of its result that is not a loop: grep's matcher, wc, the    *)
(* kernel's memmove and skipelem, printint, and the screen of cgaputc.     *)
(* A string is a sequence of one-character strings without its NUL.        *)
(***************************************************************************)
EXTENDS Integers, Sequences, FiniteSets, FiniteSetsExt, SequencesExt

CONSTANTS DIRSIZ,       \* bytes of a name in a directory
          ROWS, COLS,   \* the text screen: 24 and 80
          WIDTH         \* bits of an int

Chars == {"a", "/", ".", "*", "^", "$", "nl", "bs"}

From(s, i) == SubSeq(s, i, Len(s))

(***************************************************************************)
(* grep's matcher.                                                         *)
(***************************************************************************)
RECURSIVE matchhere(_, _), matchstar(_, _, _)

matchhere(re, text) ==
    IF re = <<>> THEN TRUE
    ELSE IF Len(re) > 1 /\ re[2] = "*" THEN matchstar(re[1], From(re, 3), text)
    ELSE IF re = <<"$">> THEN text = <<>>
    ELSE /\ text # <<>>
         /\ re[1] = "." \/ re[1] = text[1]
         /\ matchhere(Tail(re), Tail(text))

matchstar(c, re, text) ==
    \/ matchhere(re, text)
    \/ text # <<>> /\ (text[1] = c \/ c = ".") /\ matchstar(c, re, Tail(text))

match(re, text) ==
    IF re # <<>> /\ re[1] = "^" THEN matchhere(Tail(re), text)
    ELSE \E i \in 1..(Len(text) + 1) : matchhere(re, From(text, i))

\* A pattern as a sequence of items, each one character or a run of them.
RECURSIVE Items(_)
Items(re) ==
    IF re = <<>> \/ re = <<"$">> THEN <<>>
    ELSE IF Len(re) > 1 /\ re[2] = "*"
         THEN <<[c |-> re[1], run |-> TRUE]>> \o Items(From(re, 3))
         ELSE <<[c |-> re[1], run |-> FALSE]>> \o Items(Tail(re))

\* A "$" is an anchor when it ends the pattern.
Anchored(re) == re # <<>> /\ Last(re) = "$"

Spans(item, text, i, j) ==
    /\ i <= j /\ (item.run \/ j = i + 1)
    /\ \A k \in (i + 1)..j : item.c = "." \/ item.c = text[k]

\* Some way to cut the text gives each item a piece that it spans.
Matches(re, text) ==
    LET body == IF re # <<>> /\ re[1] = "^" THEN Tail(re) ELSE re
        items == Items(body)
        n == Len(text)
    IN  \E cut \in [0..Len(items) -> 0..n] :
            /\ body # re => cut[0] = 0
            /\ Anchored(body) => cut[Len(items)] = n
            /\ \A i \in 1..Len(items) : Spans(items[i], text, cut[i - 1], cut[i])

Texts == UNION {[1..n -> {"a", "/"}] : n \in 0..2}

(***************************************************************************)
(* wc, reading its input in two pieces, and what it counts.                *)
(***************************************************************************)
Blank == {"nl", "bs"}           \* "bs" stands for the other blanks here

wcchar(r, ch) ==
    [l |-> r.l + (IF ch = "nl" THEN 1 ELSE 0), c |-> r.c + 1,
     w |-> IF ch \in Blank \/ r.inword THEN r.w ELSE r.w + 1,
     inword |-> ch \notin Blank]

wc(chunks) == FoldLeft(LAMBDA r, chunk : FoldLeft(wcchar, r, chunk),
                       [l |-> 0, w |-> 0, c |-> 0, inword |-> FALSE], chunks)

CountsRight(t) ==
    \A cut \in 0..Len(t) :
        LET r == wc(<<SubSeq(t, 1, cut), From(t, cut + 1)>>)
        IN  /\ r.c = Len(t)
            /\ r.l = Cardinality({i \in 1..Len(t) : t[i] = "nl"})
            /\ r.w = Cardinality({i \in 1..Len(t) :
                         t[i] \notin Blank /\ (i = 1 \/ t[i - 1] \in Blank)})

(***************************************************************************)
(* memmove on a memory m: a copy from the top when the end of the source   *)
(* overlaps the destination, else from the bottom.                         *)
(***************************************************************************)
memmove(m, d, s, n) ==
    LET up == [i \in 1..n |-> i - 1]
        order == IF s < d /\ s + n > d THEN Reverse(up) ELSE up
    IN  FoldLeft(LAMBDA mem, i : [mem EXCEPT ![d + i] = mem[s + i]], m, order)

MovesRight(m) ==
    \A d, s \in 1..Len(m) : \A n \in 0..(Len(m) + 1 - Max({d, s})) :
        memmove(m, d, s, n) =
            [i \in 1..Len(m) |-> IF i \in d..(d + n - 1) THEN m[s + i - d] ELSE m[i]]

(***************************************************************************)
(* skipelem, called until it returns 0, and the elements of a path.        *)
(***************************************************************************)
RECURSIVE skipslash(_), upto(_)
skipslash(path) == IF path # <<>> /\ path[1] = "/" THEN skipslash(Tail(path)) ELSE path

\* The length of the element at the start of path.
upto(path) == IF path = <<>> \/ path[1] = "/" THEN 0 ELSE 1 + upto(Tail(path))

skipelem(path) ==
    LET s == skipslash(path)
        len == upto(s)
    IN  IF s = <<>> THEN [path |-> <<>>, name |-> <<>>]
        ELSE [path |-> skipslash(From(s, len + 1)),
              name |-> SubSeq(s, 1, IF len >= DIRSIZ THEN DIRSIZ ELSE len)]

RECURSIVE Walk(_)
Walk(path) == LET r == skipelem(path)
              IN  IF r.name = <<>> THEN <<>> ELSE <<r.name>> \o Walk(r.path)

Starts(t) == {i \in 1..Len(t) : t[i] # "/" /\ (i = 1 \/ t[i - 1] = "/")}

ElementAt(t, i) ==
    LET end == Max({j \in i..Len(t) : \A k \in i..j : t[k] # "/"})
    IN  SubSeq(t, i, Min({end, i + DIRSIZ - 1}))

Elements(t) == LET at == SetToSortSeq(Starts(t), <)
               IN  [n \in 1..Len(at) |-> ElementAt(t, at[n])]

(***************************************************************************)
(* printint: the digits and the sign, the last first in buf; the value of  *)
(* what is printed.                                                        *)
(***************************************************************************)
RECURSIVE digits(_, _)
digits(x, b) == IF x \div b = 0 THEN <<x % b>> ELSE <<x % b>> \o digits(x \div b, b)

printint(xx, b, sign) ==
    LET neg == sign /\ xx < 0
        x == (IF neg THEN -xx ELSE xx) % 2^WIDTH
    IN  [neg |-> neg, digits |-> Reverse(digits(x, b))]

Value(r, b) == LET n == Len(r.digits)
                   v == MapThenSumSet(LAMBDA i : r.digits[i] * b^(n - i), 1..n)
               IN  IF r.neg THEN -v ELSE v

PrintsRight ==
    \A xx \in (-(2^(WIDTH - 1)))..(2^(WIDTH - 1) - 1), b \in {2, 3} :
        /\ Value(printint(xx, b, TRUE), b) = xx
        /\ Value(printint(xx, b, FALSE), b) = xx % 2^WIDTH
        /\ \A r \in {printint(xx, b, TRUE)} : Len(r.digits) = 1 \/ r.digits[1] # 0

(***************************************************************************)
(* cgaputc on a screen of one row more than it scrolls, and the tape of    *)
(* cells the screen is a window on: a character goes to the cell of the    *)
(* cursor, the window moves down by a row when the cursor leaves it.       *)
(***************************************************************************)
Cells == 0..((ROWS + 1) * COLS - 1)

Scroll(s) ==
    IF s.pos \div COLS < ROWS THEN s
    ELSE LET pos == s.pos - COLS
         IN  [pos |-> pos,
              crt |-> [i \in Cells |-> IF i \in pos..(ROWS * COLS - 1) THEN " "
                                       ELSE IF i < (ROWS - 1) * COLS THEN s.crt[i + COLS]
                                       ELSE s.crt[i]]]

cgaputc(s, ch) ==
    LET moved == CASE ch = "nl" -> [s EXCEPT !.pos = @ + COLS - (@ % COLS)]
                   [] ch = "bs" -> [s EXCEPT !.pos = IF @ > 0 THEN @ - 1 ELSE @]
                   [] OTHER -> [s EXCEPT !.crt[s.pos] = ch, !.pos = @ + 1]
        scrolled == Scroll(moved)
    IN  [scrolled EXCEPT !.crt[scrolled.pos] = " "]

Screen(t) == FoldLeft(cgaputc, [pos |-> 0, crt |-> [i \in Cells |-> " "]], t)

Tape == 0..((ROWS + 8) * COLS)

tapeputc(s, ch) ==
    LET p == CASE ch = "nl" -> (s.p \div COLS + 1) * COLS
               [] ch = "bs" -> IF s.p > s.top * COLS THEN s.p - 1 ELSE s.p
               [] OTHER -> s.p + 1
    IN  [p |-> p, top |-> Max({s.top, p \div COLS - (ROWS - 1)}),
         tape |-> [i \in Tape |-> IF i = p THEN " "
                                  ELSE IF i = s.p /\ p > s.p /\ ch # "nl" THEN ch
                                  ELSE s.tape[i]]]

ScreenRight(t) ==
    LET s == Screen(t)
        r == FoldLeft(tapeputc, [p |-> 0, top |-> 0, tape |-> [i \in Tape |-> " "]], t)
    IN  /\ s.pos = r.p - r.top * COLS /\ s.pos < ROWS * COLS
        /\ \A i \in 0..(ROWS * COLS - 1) : s.crt[i] = r.tape[i + r.top * COLS]

(***************************************************************************)
(* Every routine gives, for the string t, what its definition says: the    *)
(* pattern t matches the texts that can be cut to fit it, wc counts the    *)
(* same wherever a read ends, an overlapping move reads every byte before  *)
(* it is overwritten, a path is walked element by element, a number is     *)
(* printed as its digits to the most negative one, and the screen shows    *)
(* the end of what was written.                                            *)
(***************************************************************************)
TextRight(t) ==
    /\ \A text \in Texts : match(t, text) = Matches(t, text)
    /\ CountsRight(t)
    /\ MovesRight([i \in 1..Len(t) |-> i])
    /\ Walk(t) = Elements(t)
    /\ ScreenRight(t)
    /\ t = <<>> => PrintsRight

=============================================================================
