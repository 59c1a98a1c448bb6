------------------------------- MODULE Shell -------------------------------
(***************************************************************************)
(* The shell at work (user/sh.c): main forks a process for each line, and  *)
(* runcmd walks the line's tree, forking, waiting and moving descriptors   *)
(* so that every program starts with the right files as its standard input *)
(* and output; init (user/init.c) adopts what is left behind and starts    *)
(* the shell again when it exits.                                          *)
(*                                                                         *)
(* What the kernel's calls do is taken from the modules Proc, Pipe and     *)
(* Files: fork copies the descriptors into the first free slot or fails,   *)
(* dup, open and pipe take the lowest free descriptors, exit closes them   *)
(* all and hands children to init.  A step is one call that another        *)
(* process can notice; the closes and dups by which a child of a pipe      *)
(* prepares its own table are one step.                                    *)
(*                                                                         *)
(* A program is external: the hardest one to serve, which reads its input  *)
(* to the end and writes more than a pipe holds.  So it exits only when no *)
(* writer of its input pipe is left, and while its output pipe has a       *)
(* reader, only if some program is there to read it.                       *)
(***************************************************************************)
EXTENDS Parse, FiniteSets, FiniteSetsExt

CONSTANTS MAXPROC,      \* slots for the shell and what it starts
          NFD,          \* descriptors of a process
          Lines,        \* lines that may be typed
          MAXLINES      \* how many lines are typed

VARIABLES proc,         \* the processes; slot 1 is the shell
          typed         \* the lines typed so far

shvars == <<proc, typed>>

Slots == 1..MAXPROC
Shell == 1
init == 0                                   \* the parent of orphans
Fds == 0..(NFD - 1)

\* Open files: the console, a file named by a word, the ends of pipe k.
closed == <<"closed", 0>>
console == <<"console", 0>>
file(f) == <<"file", f>>
readend(k) == <<"r", k>>
writeend(k) == <<"w", k>>

Unused == [pc |-> "unused"]

\* main opens "console" until three descriptors are open.
Started == [pc |-> "prompt", parent |-> init, cmd |-> execcmd, job |-> 0,
            p |-> <<0, 0>>,
            fds |-> [d \in Fds |-> IF d < 3 THEN console ELSE closed]]

Alive(q) == proc[q].pc \notin {"unused", "zombie"}

Open(f) == \E q \in Slots : Alive(q) /\ f \in {proc[q].fds[d] : d \in Fds}

Freefd(fds) == Min({d \in Fds : fds[d] = closed})

ShellInit == /\ proc = [q \in Slots |-> IF q = Shell THEN Started ELSE Unused]
        /\ typed = <<>>

(***************************************************************************)
(* The system calls.                                                       *)
(***************************************************************************)
close(fds, d) == [fds EXCEPT ![d] = closed]

dup(fds, d) == [fds EXCEPT ![Freefd(fds)] = fds[d]]

\* The process table after q has exited.
Exited(t, q) == [s \in Slots |->
    IF s = q THEN [pc |-> "zombie", parent |-> t[q].parent]
    ELSE IF t[s].pc # "unused" /\ t[s].parent = q THEN [t[s] EXCEPT !.parent = init]
    ELSE t[s]]

exit(q) == proc' = Exited(proc, q)

\* fork1: the child starts at childpc with childcmd and the parent goes on
\* at nextpc; without a free slot the caller panics, which is exit.
fork1(q, childpc, childcmd, job, nextpc) ==
    LET free == {s \in Slots \ {Shell} : proc[s].pc = "unused"}
    IN  IF free = {} THEN exit(q)
        ELSE LET child == [proc[q] EXCEPT !.pc = childpc, !.cmd = childcmd,
                                          !.parent = q, !.job = job]
             IN  proc' = [proc EXCEPT ![Min(free)] = child, ![q].pc = nextpc]

\* wait: reaps a zombie child, or returns at once if there is no child.
Children(q) == {s \in Slots : proc[s].pc # "unused" /\ proc[s].parent = q}

wait(q, nextpc, nextcmd) ==
    LET go(t) == [t EXCEPT ![q].pc = nextpc, ![q].cmd = nextcmd]
    IN  \/ Children(q) = {} /\ proc' = go(proc)
        \/ \E s \in Children(q) : /\ proc[s].pc = "zombie"
                                  /\ proc' = go([proc EXCEPT ![s] = Unused])

(***************************************************************************)
(* main and runcmd.                                                        *)
(***************************************************************************)
At(q, pc) == proc[q].pc = pc

getcmd == /\ At(Shell, "prompt") /\ Len(typed) < MAXLINES
          /\ \E l \in Lines : typed' = Append(typed, l)
          /\ proc' = [proc EXCEPT ![Shell].pc = "fork"]

mainFork == /\ At(Shell, "fork")
            /\ fork1(Shell, "parse", execcmd, Len(typed), "wait")
            /\ UNCHANGED typed

mainWait == At(Shell, "wait") /\ wait(Shell, "prompt", execcmd) /\ UNCHANGED typed

\* runcmd(parsecmd(buf)): a line that does not parse panics.
Tree == [l \in Lines |-> parsecmd(l)]

parse(q) == LET r == Tree[typed[proc[q].job]]
            IN  /\ At(q, "parse")
                /\ IF r.ok THEN proc' = [proc EXCEPT ![q].pc = "run", ![q].cmd = r.cmd]
                           ELSE exit(q)
                /\ UNCHANGED typed

Runs(q, type) == At(q, "run") /\ proc[q].cmd.type = type /\ UNCHANGED typed

\* exec of the program, or no program named, or exec failed.
runExec(q) == /\ Runs(q, "EXEC")
              /\ \/ /\ proc[q].cmd.argv # <<>>
                    /\ proc' = [proc EXCEPT ![q].pc = "program"]
                 \/ exit(q)

\* close, open (which may fail), then the command inside.
runRedir(q) ==
    LET c == proc[q].cmd
        fds == close(proc[q].fds, c.fd)
    IN  /\ Runs(q, "REDIR")
        /\ \/ proc' = [proc EXCEPT ![q].cmd = c.cmd,
                                   ![q].fds = [fds EXCEPT ![Freefd(fds)] = file(c.file)]]
           \/ exit(q)

runList(q) == Runs(q, "LIST") /\ fork1(q, "run", proc[q].cmd.left, proc[q].job, "listwait")

listWait(q) == /\ At(q, "listwait") /\ wait(q, "run", proc[q].cmd.right)
               /\ UNCHANGED typed

\* pipe(p) < 0 when two descriptors are not to be had: a panic.
runPipe(q) ==
    LET free == {d \in Fds : proc[q].fds[d] = closed}
        r == Min(free)
        w == Min(free \ {r})
        k == Min({n \in 1..(2 * MAXPROC) : ~Open(readend(n)) /\ ~Open(writeend(n))})
    IN  /\ Runs(q, "PIPE")
        /\ IF Cardinality(free) < 2 THEN exit(q)
           ELSE proc' = [proc EXCEPT ![q].pc = "forkleft", ![q].p = <<r, w>>,
                             ![q].fds = [@ EXCEPT ![r] = readend(k), ![w] = writeend(k)]]

forkLeft(q) == /\ At(q, "forkleft") /\ UNCHANGED typed
               /\ fork1(q, "left", proc[q].cmd, proc[q].job, "forkright")

forkRight(q) == /\ At(q, "forkright") /\ UNCHANGED typed
                /\ fork1(q, "right", proc[q].cmd, proc[q].job, "close")

\* Mutant: the end that is not used stays open.
Wired_Keeps(q, d, n) == LET p == proc[q].p
                            fds == dup(close(proc[q].fds, d), p[n])
                        IN  close(fds, p[n])

\* Descriptor d becomes end n of the pipe; both ends' own descriptors go.
Wired(q, d, n) == LET p == proc[q].p
                      fds == dup(close(proc[q].fds, d), p[n])
                  IN  close(close(fds, p[1]), p[2])

left(q) == /\ At(q, "left") /\ UNCHANGED typed
           /\ proc' = [proc EXCEPT ![q].pc = "run", ![q].cmd = @.left,
                                   ![q].fds = Wired(q, 1, 2)]

right(q) == /\ At(q, "right") /\ UNCHANGED typed
            /\ proc' = [proc EXCEPT ![q].pc = "run", ![q].cmd = @.right,
                                    ![q].fds = Wired(q, 0, 1)]

\* Mutant: the parent keeps the write end.
pipeClose_Forgets(q) ==
    /\ At(q, "close") /\ UNCHANGED typed
    /\ proc' = [proc EXCEPT ![q].pc = "wait1", ![q].fds = close(@, proc[q].p[1])]

pipeClose(q) ==
    /\ At(q, "close") /\ UNCHANGED typed
    /\ proc' = [proc EXCEPT ![q].pc = "wait1",
                            ![q].fds = close(close(@, proc[q].p[1]), proc[q].p[2])]

pipeWait(q) == /\ UNCHANGED typed
               /\ \/ At(q, "wait1") /\ wait(q, "wait2", proc[q].cmd)
                  \/ At(q, "wait2") /\ wait(q, "exit", proc[q].cmd)

runBack(q) == Runs(q, "BACK") /\ fork1(q, "run", proc[q].cmd.cmd, proc[q].job, "exit")

leave(q) == At(q, "exit") /\ exit(q) /\ UNCHANGED typed

(***************************************************************************)
(* Programs, and init.                                                     *)
(***************************************************************************)
Feeds(f) == f[1] = "r" /\ Open(writeend(f[2]))

Read(k) == \E s \in Slots : At(s, "program") /\ proc[s].fds[0] = readend(k)

Stuck(f) == f[1] = "w" /\ Open(readend(f[2])) /\ ~Read(f[2])

program(q) == /\ At(q, "program") /\ UNCHANGED typed
              /\ ~Feeds(proc[q].fds[0]) /\ ~Stuck(proc[q].fds[1])
              /\ exit(q)

\* init's loop: reap an orphan; when it is the shell, start it again.
initWait == /\ \E q \in Children(init) :
                  /\ At(q, "zombie")
                  /\ proc' = [proc EXCEPT ![q] = IF q = Shell THEN Started ELSE Unused]
            /\ UNCHANGED typed

runcmd(q) == \/ parse(q) \/ runExec(q) \/ runRedir(q) \/ runList(q) \/ listWait(q)
             \/ runPipe(q) \/ forkLeft(q) \/ forkRight(q) \/ left(q) \/ right(q)
             \/ pipeClose(q) \/ pipeWait(q) \/ runBack(q) \/ leave(q)

main == getcmd \/ mainFork \/ mainWait

ShellNext == main \/ initWait \/ \E q \in Slots \ {Shell} : runcmd(q) \/ program(q)

ShellSpec == ShellInit /\ [][ShellNext]_shvars

\* Every process is run (Proc's RunnableRuns), so one that can take its next
\* step takes it; typing a line is left to the user.
ShellFairness == /\ WF_shvars(mainFork) /\ WF_shvars(mainWait) /\ WF_shvars(initWait)
            /\ \A q \in Slots \ {Shell} : WF_shvars(runcmd(q)) /\ WF_shvars(program(q))

ShellFairSpec == ShellSpec /\ ShellFairness

(***************************************************************************)
(* What each program of a tree is to read and write, by the structure of   *)
(* the tree; a pipe is known by its node.                                  *)
(***************************************************************************)
RECURSIVE Ends(_, _, _)
Ends(c, in, out) ==
    CASE c.type = "EXEC"  -> IF c.argv = <<>> THEN {}
                             ELSE {[leaf |-> c.argv[1], in |-> in, out |-> out]}
      [] c.type = "REDIR" -> IF c.fd = 0 THEN Ends(c.cmd, [file |-> c.file], out)
                                         ELSE Ends(c.cmd, in, [file |-> c.file])
      [] c.type = "PIPE"  -> Ends(c.left, in, [pipe |-> c]) \cup
                             Ends(c.right, [pipe |-> c], out)
      [] c.type = "LIST"  -> Ends(c.left, in, out) \cup Ends(c.right, in, out)
      [] c.type = "BACK"  -> Ends(c.cmd, in, out)

Wanted(q) == CHOOSE e \in Ends(Tree[typed[proc[q].job]].cmd,
                               [tty |-> 0], [tty |-> 0]) :
                 e.leaf = proc[q].cmd.argv[1]

Like(f, want) == CASE "tty" \in DOMAIN want -> f = console
                   [] "file" \in DOMAIN want -> f = file(want.file)
                   [] "pipe" \in DOMAIN want -> f[1] \in {"r", "w"}

(***************************************************************************)
(* A running program has exactly three descriptors, and its input and      *)
(* output are the console, the file or the pipe that its place in the      *)
(* line gives it; the programs on the two sides of a "|" share one pipe,   *)
(* and with no others.                                                     *)
(***************************************************************************)
Wiring ==
    \A q \in Slots : At(q, "program") =>
        LET fds == proc[q].fds
            e == Wanted(q)
        IN  /\ \A d \in Fds : (fds[d] = closed) = (d > 2)
            /\ fds[2] = console /\ Like(fds[0], e.in) /\ Like(fds[1], e.out)
            /\ \A s \in Slots :
                   At(s, "program") /\ fds[0][1] = "r" /\ proc[s].fds[1][1] = "w" =>
                       (fds[0][2] = proc[s].fds[1][2]) =
                           (proc[s].job = proc[q].job /\ Wanted(s).out = e.in)

(***************************************************************************)
(* The prompt comes back after every line, however its programs wait for   *)
(* each other: no process keeps an end of a pipe open that a program is    *)
(* waiting on, and every wait has its child.                               *)
(***************************************************************************)
PromptReturns == (At(Shell, "fork")) ~> At(Shell, "prompt")

=============================================================================
