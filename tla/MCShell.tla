------------------------------ MODULE MCShell ------------------------------
(* Instances of the user space for TLC: the shell runs lines, or its parser *)
(* and the other text routines are given every text up to a length, or      *)
(* malloc and free are called in every order.                               *)
EXTENDS Shell, Text, Heap

CONSTANTS MAXTOKENS, MAXCHARS   \* how long the texts get

VARIABLES unit, text

MCInit == /\ unit \in {"shell", "parse", "text", "heap"} /\ text = <<>>
          /\ ShellInit /\ HeapInit

MCNext ==
  /\ UNCHANGED unit
  /\ \/ unit = "shell" /\ ShellNext /\ UNCHANGED <<text, heapvars>>
     \/ /\ unit = "parse" /\ Len(text) < MAXTOKENS
        /\ \E x \in Tokens : text' = Append(text, x)
        /\ UNCHANGED <<shvars, heapvars>>
     \/ /\ unit = "text" /\ Len(text) < MAXCHARS
        /\ \E x \in Chars : text' = Append(text, x)
        /\ UNCHANGED <<shvars, heapvars>>
     \/ unit = "heap" /\ HeapNext /\ UNCHANGED <<text, shvars>>

\* The shell's processes are run; see ShellFairness.
MCSpec == MCInit /\ [][MCNext]_<<unit, text, shvars, heapvars>> /\ ShellFairness

\* The lines that are typed: pipes in and beside lists and blocks, with
\* redirections, in the background, and two that do not parse.
MCLines == {
  <<"a", "|", "a">>, <<"a", "<", "a", "|", "a", ">", "a">>,
  <<"(", "a", ";", "a", ")", "|", "a">>, <<"a", "|", "a", "|", "a">>,
  <<"a", "|", "(", "a", "&", ";", "a", ")">>, <<"a", "&", ";", "a">>,
  <<"a", "|", "|", "a">>, <<"(", "a">> }

\* parsecmd builds the tree that the shell's grammar gives a line, for every
\* line; match, wc, memmove, skipelem, printint and cgaputc compute what their
\* definitions say, for every text (see Parse and Text).
TextsRight == /\ unit = "parse" => ParsesGrammar(text)
              /\ unit = "text" => TextRight(text)
=============================================================================
