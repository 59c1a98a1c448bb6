------------------------------- MODULE Parse -------------------------------
(***************************************************************************)
(* The shell's parser (user/sh.c): a recursive descent over the tokens of  *)
(* one line that builds a command tree or panics, and the grammar it is    *)
(* meant to recognise, given independently of it: for a token string t,    *)
(* LineT(t) is the set of the trees of t.                                  *)
(*                                                                         *)
(* A line is a sequence of tokens as gettoken returns them: "a" is a word, *)
(* "<" and ">" are redirections (">" stands for ">>" too, which the code   *)
(* treats alike), the rest are themselves.  A word is known by its place   *)
(* in the line, as the code knows it by the address of its first           *)
(* character.                                                              *)
(***************************************************************************)
EXTENDS Naturals, Sequences, SequencesExt

CONSTANT MAXARGS        \* words a simple command may not reach

Tokens == {"a", "|", ";", "&", "(", ")", "<", ">"}

(***************************************************************************)
(* The constructors of the tree.                                           *)
(***************************************************************************)
execcmd == [type |-> "EXEC", argv |-> <<>>]

redircmd(cmd, file, tok) ==
    [type |-> "REDIR", cmd |-> cmd, file |-> file,
     fd |-> IF tok = "<" THEN 0 ELSE 1]

pipecmd(left, right) == [type |-> "PIPE", left |-> left, right |-> right]

listcmd(left, right) == [type |-> "LIST", left |-> left, right |-> right]

backcmd(cmd) == [type |-> "BACK", cmd |-> cmd]

(***************************************************************************)
(* The parser.  Each function takes the line t and the place i it has      *)
(* reached, and returns the tree and the place after it, or Panic.         *)
(***************************************************************************)
Parsed(cmd, i) == [ok |-> TRUE, cmd |-> cmd, at |-> i]

Panic == [ok |-> FALSE]

peek(t, i, toks) == i <= Len(t) /\ t[i] \in toks

RECURSIVE parseredirs(_, _, _)
parseredirs(cmd, t, i) ==
    IF ~peek(t, i, {"<", ">"}) THEN Parsed(cmd, i)
    ELSE IF ~peek(t, i + 1, {"a"}) THEN Panic
    ELSE parseredirs(redircmd(cmd, i + 1, t[i]), t, i + 2)

\* cmd->argv[argc++] = q, where cmd is the simple command inside the
\* redirections that already surround it.
RECURSIVE addarg(_, _)
addarg(ret, q) == IF ret.type = "REDIR" THEN [ret EXCEPT !.cmd = addarg(@, q)]
                                        ELSE [ret EXCEPT !.argv = Append(@, q)]

\* Mutant: the limit is tested before the word is counted.
parseargs_Late(argc) == argc > MAXARGS

TooMany(argc) == argc >= MAXARGS

\* The loop of parseexec: argc words read so far, r what parseredirs returned.
RECURSIVE parseargs(_, _, _)
parseargs(r, argc, t) ==
    IF ~r.ok \/ peek(t, r.at, {"|", ")", "&", ";"}) \/ r.at > Len(t) THEN r
    ELSE IF t[r.at] # "a" \/ TooMany(argc + 1) THEN Panic
    ELSE parseargs(parseredirs(addarg(r.cmd, r.at), t, r.at + 1), argc + 1, t)

RECURSIVE parseline(_, _), parseblock(_, _), parsepipe(_, _), parsebacks(_, _)

parseexec(t, i) == IF peek(t, i, {"("}) THEN parseblock(t, i)
                   ELSE parseargs(parseredirs(execcmd, t, i), 0, t)

parseblock(t, i) ==
    LET r == parseline(t, i + 1)
    IN  IF ~r.ok \/ ~peek(t, r.at, {")"}) THEN Panic
        ELSE parseredirs(r.cmd, t, r.at + 1)

parsepipe(t, i) ==
    LET l == parseexec(t, i)
    IN  IF ~l.ok \/ ~peek(t, l.at, {"|"}) THEN l
        ELSE LET r == parsepipe(t, l.at + 1)
             IN  IF r.ok THEN Parsed(pipecmd(l.cmd, r.cmd), r.at) ELSE Panic

\* The loop of parseline over "&".
parsebacks(r, t) == IF ~r.ok \/ ~peek(t, r.at, {"&"}) THEN r
                    ELSE parsebacks(Parsed(backcmd(r.cmd), r.at + 1), t)

parseline(t, i) ==
    LET l == parsebacks(parsepipe(t, i), t)
    IN  IF ~l.ok \/ ~peek(t, l.at, {";"}) THEN l
        ELSE LET r == parseline(t, l.at + 1)
             IN  IF r.ok THEN Parsed(listcmd(l.cmd, r.cmd), r.at) ELSE Panic

parsecmd(t) == LET r == parseline(t, 1)
               IN  IF r.ok /\ r.at = Len(t) + 1 THEN r ELSE Panic

(***************************************************************************)
(* The grammar.                                                            *)
(*   line   ::= back | back ";" line        back  ::= pipe | back "&"      *)
(*   pipe   ::= exec | exec "|" pipe        exec  ::= simple | block       *)
(*   block  ::= "(" line ")" | block redir  redir ::= ("<" | ">") word     *)
(*   simple ::= words and redirs in any order, fewer than MAXARGS words    *)
(* A token is carried with its place in the line.                          *)
(***************************************************************************)
Placed(t) == [i \in 1..Len(t) |-> [tok |-> t[i], at |-> i]]

Before(p, i) == SubSeq(p, 1, i - 1)
After(p, i) == SubSeq(p, i + 1, Len(p))

IsRedir(p, i) == /\ i \in 1..(Len(p) - 1)
                 /\ p[i].tok \in {"<", ">"}
                 /\ p[i + 1] = [tok |-> "a", at |-> p[i].at + 1]

AllWords(p) == \A i \in 1..Len(p) : p[i].tok = "a"

\* The last redirection is the outermost one.
RECURSIVE SimpleT(_)
SimpleT(p) ==
    (IF AllWords(p) /\ Len(p) < MAXARGS
     THEN {[type |-> "EXEC", argv |-> [i \in 1..Len(p) |-> p[i].at]]} ELSE {})
    \cup UNION {{redircmd(c, p[i + 1].at, p[i].tok) :
                    c \in SimpleT(Before(p, i) \o After(p, i + 1))} :
                i \in {i \in 1..Len(p) : IsRedir(p, i) /\ AllWords(After(p, i))}}

RECURSIVE LineT(_), BlockT(_), PipeT(_), BackT(_)

BlockT(p) ==
    LET n == Len(p)
    IN  (IF n >= 2 /\ p[1].tok = "(" /\ p[n].tok = ")"
         THEN LineT(SubSeq(p, 2, n - 1)) ELSE {})
        \cup (IF n >= 2 /\ IsRedir(p, n - 1)
              THEN {redircmd(c, p[n].at, p[n - 1].tok) : c \in BlockT(SubSeq(p, 1, n - 2))}
              ELSE {})

ExecT(p) == SimpleT(p) \cup BlockT(p)

Splits(p, tok) == {i \in 1..Len(p) : p[i].tok = tok}

PipeT(p) == ExecT(p) \cup
    UNION {{pipecmd(l, r) : l \in ExecT(Before(p, i)), r \in PipeT(After(p, i))} :
           i \in Splits(p, "|")}

BackT(p) == PipeT(p) \cup
    (IF p # <<>> /\ Last(p).tok = "&" THEN {backcmd(c) : c \in BackT(Front(p))} ELSE {})

LineT(p) == BackT(p) \cup
    UNION {{listcmd(l, r) : l \in BackT(Before(p, i)), r \in LineT(After(p, i))} :
           i \in Splits(p, ";")}

(***************************************************************************)
(* The parser accepts exactly the lines of the grammar, and what it builds *)
(* is the line's only tree: precedence, nesting, the order of the words    *)
(* and which redirection is the outer one are all as the grammar has them. *)
(***************************************************************************)
ParsesGrammar(t) ==
    LET r == parsecmd(t)
    IN  LineT(Placed(t)) = IF r.ok THEN {r.cmd} ELSE {}

=============================================================================
