-------------------------------- MODULE Files --------------------------------
(* Open files: the file table (kernel/file.c), descriptors, the system calls *)
(* on them (kernel/sysfile.c), and fork and exit (kernel/proc.c).            *)
(*                                                                           *)
(* One action is one critical section of ftable.lock or icache.lock, or one  *)
(* section under ilock.  A process's own descriptors are seen by nobody      *)
(* else, so what it does to them goes with the section next to it.           *)
EXTENDS Naturals, FiniteSets, FiniteSetsExt

CONSTANTS
  Proc, NoProc,
  NFILE, NOFILE,   \* files of the table, descriptors of a process
  NINODE,          \* slots of the inode cache
  Inum, ROOTINO,   \* inodes of the disk, the root directory among them
  NoInum,          \* no inode
  MAXSIZE          \* largest file, in words

ASSUME FilesAssumption ==
  /\ {NFILE, NOFILE, NINODE, MAXSIZE} \subseteq Nat \ {0}
  /\ NoProc \notin Proc /\ NINODE > 1 /\ ROOTINO \in Inum /\ NoInum \notin Inum

VARIABLES
  ftable,   \* the file table
  ofile,    \* descriptors of each process: 0 or a file
  icache,   \* slots of the inode cache
  size,     \* inodes: words in the file
  linked,   \* inodes that have a name in the root directory
  ends,     \* the pipe: which of its ends are open
  pc, loc,  \* where each process is ("none": it does not exist), and its locals
  stopped   \* "" or the panic that stopped the machine

table == <<ftable, ofile>>
inodes == <<icache, size, linked>>
vars == <<ftable, ofile, icache, size, linked, ends, pc, loc, stopped>>

File == 1..NFILE
Fd == 0..(NOFILE - 1)
Slot == 1..NINODE

NoFile == [ref |-> 0, type |-> "none", ip |-> 0, off |-> 0, r |-> FALSE, w |-> FALSE]
NoLocals == [s |-> 0, f |-> 0, g |-> 0, fd |-> 0, child |-> NoProc,
             ff |-> NoFile, ret |-> "idle"]

\* One process, and init, which only waits; the root directory is the cwd of
\* both, and of every process to come.
Init ==
  /\ ftable = [f \in File |-> NoFile] /\ ofile = [p \in Proc |-> [fd \in Fd |-> 0]]
  /\ icache = [s \in Slot |-> IF s = 1 THEN [inum |-> ROOTINO, ref |-> 2] ELSE [inum |-> NoInum, ref |-> 0]]
  /\ size = [i \in Inum |-> 0] /\ linked = Inum /\ ends = {}
  /\ \E first \in Proc : pc = [p \in Proc |-> IF p = first THEN "idle" ELSE "none"]
  /\ loc = [p \in Proc |-> NoLocals] /\ stopped = ""

-----------------------------------------------------------------------------
At(p, where) == stopped = "" /\ pc[p] = where
Goto(p, where, l) == pc' = [pc EXCEPT ![p] = where] /\ loc' = [loc EXCEPT ![p] = l]
Done(p) == Goto(p, "idle", NoLocals)
Panic(why) ==
  /\ stopped' = why
  /\ UNCHANGED <<ftable, ofile, icache, size, linked, ends, pc, loc>>

\* iget: the slot of inode i, or the first free one.
SlotFor(i) ==
  LET hit == {s \in Slot : icache[s].ref > 0 /\ icache[s].inum = i}
      empty == {s \in Slot : icache[s].ref = 0}
  IN  IF hit # {} THEN hit ELSE IF empty # {} THEN {Min(empty)} ELSE {}
Ref(s, i) == icache' = [icache EXCEPT ![s] = [inum |-> i, ref |-> @.ref + 1]]

\* Mutant: any reference to an inode without a name frees its contents.
iput_Any(s) ==
  /\ icache' = [icache EXCEPT ![s] = IF @.ref = 1 THEN [inum |-> NoInum, ref |-> 0] ELSE [@ EXCEPT !.ref = @ - 1]]
  /\ size' = IF icache[s].inum \notin linked THEN [size EXCEPT ![icache[s].inum] = 0] ELSE size
  /\ UNCHANGED linked

\* iput: the last reference to an inode without a name frees its contents.
iput(s) ==
  /\ icache' = [icache EXCEPT ![s] = IF @.ref = 1 THEN [inum |-> NoInum, ref |-> 0] ELSE [@ EXCEPT !.ref = @ - 1]]
  /\ size' = IF icache[s].ref = 1 /\ icache[s].inum \notin linked
             THEN [size EXCEPT ![icache[s].inum] = 0] ELSE size
  /\ UNCHANGED linked

\* The inode's lock is held by an open, from its ilock to its iunlock.
Locked(s) == \E p \in Proc : loc[p].s = s /\ pc[p] # "open"

FreeFiles == {f \in File : ftable[f].ref = 0}
FreeFds(p) == {fd \in Fd : ofile[p][fd] = 0}

\* The critical section of fileclose; the last close copies the file and
\* frees its slot, and does the rest without the lock.  (What filealloc
\* leaves of a slot's last file is overwritten before anybody reads it.)
Fileclose(p, f, l, fds) ==
  IF ftable[f].ref < 1
  THEN stopped' = "fileclose" /\ UNCHANGED <<ftable, ofile, pc, loc>>
  ELSE /\ ofile' = fds /\ UNCHANGED stopped
       /\ IF ftable[f].ref > 1
          THEN /\ ftable' = [ftable EXCEPT ![f].ref = @ - 1]
               /\ Goto(p, l.ret, IF l.ret = "idle" THEN NoLocals ELSE l)
          ELSE /\ ftable' = [ftable EXCEPT ![f] = NoFile]
               /\ Goto(p, "closing", [l EXCEPT !.ff = ftable[f]])

\* The rest of the last close.
Closing(p) ==
  LET l == loc[p] IN
  /\ At(p, "closing")
  /\ CASE l.ff.type = "inode" -> iput(l.ff.ip) /\ UNCHANGED ends
       [] l.ff.type = "pipe" -> ends' = ends \ {IF l.ff.w THEN "w" ELSE "r"} /\ UNCHANGED inodes
       [] OTHER -> UNCHANGED <<inodes, ends>>
  /\ Goto(p, l.ret, IF l.ret = "idle" THEN NoLocals ELSE [l EXCEPT !.ff = NoFile])
  /\ UNCHANGED <<table, stopped>>

-----------------------------------------------------------------------------
\* open a file for reading and writing (a directory differs in nothing but
\* the mode): namei, or create, if the file has no name, has the inode ...
sys_open(p) ==
  /\ At(p, "idle")
  /\ \E i \in Inum \ {ROOTINO} :
     /\ \/ SlotFor(i) = {} /\ Panic("iget: no inodes")
        \/ /\ i \in linked \/ \A s \in Slot : icache[s].inum # i
           /\ \E s \in SlotFor(i) :
                /\ Ref(s, i) /\ linked' = linked \cup {i}
                /\ Goto(p, "open", [NoLocals EXCEPT !.s = s])
           /\ UNCHANGED <<table, size, ends, stopped>>

\* ... takes a file ...
OpenFile(p) ==
  LET l == loc[p] IN
  /\ At(p, "open") /\ ~Locked(l.s)
  /\ \/ /\ FreeFiles = {} /\ iput(l.s) /\ Done(p)
        /\ UNCHANGED <<table, ends, stopped>>
     \/ /\ FreeFiles # {}
        /\ ftable' = [ftable EXCEPT ![Min(FreeFiles)].ref = 1]
        /\ Goto(p, "openfd", [l EXCEPT !.f = Min(FreeFiles)])
        /\ UNCHANGED <<ofile, inodes, ends, stopped>>

\* ... and a descriptor, or gives the file back and then the inode.
OpenFd(p) ==
  LET l == loc[p]  fd == Min(FreeFds(p)) IN
  /\ At(p, "openfd")
  /\ \/ /\ FreeFds(p) = {}
        /\ Fileclose(p, l.f, [NoLocals EXCEPT !.s = l.s, !.ret = "openbad"], ofile)
        /\ UNCHANGED <<inodes, ends>>
     \/ /\ FreeFds(p) # {}
        /\ ofile' = [ofile EXCEPT ![p][fd] = l.f]
        /\ ftable' = [ftable EXCEPT ![l.f] = [@ EXCEPT !.type = "inode", !.ip = l.s, !.off = 0,
                                                       !.r = TRUE, !.w = TRUE]]
        /\ Done(p) /\ UNCHANGED <<inodes, ends, stopped>>

OpenBad(p) ==
  /\ At(p, "openbad") /\ iput(loc[p].s) /\ Done(p)
  /\ UNCHANGED <<table, ends, stopped>>

\* unlink: the name goes; an inode that nobody holds is freed.
sys_unlink(p) ==
  /\ At(p, "idle")
  /\ \E i \in linked \ {ROOTINO} :
       \/ SlotFor(i) = {} /\ Panic("iget: no inodes")
       \/ /\ SlotFor(i) # {} /\ \A s \in SlotFor(i) : ~Locked(s)
          /\ linked' = linked \ {i}
          /\ size' = IF \E s \in Slot : icache[s].inum = i THEN size ELSE [size EXCEPT ![i] = 0]
          /\ UNCHANGED <<table, icache, ends, pc, loc, stopped>>

filedup(f) == ftable' = [ftable EXCEPT ![f].ref = @ + 1]

\* Mutant: fdalloc takes the descriptor and the file is not counted.
sys_dup_NoCount(p) ==
  /\ At(p, "idle") /\ FreeFds(p) # {}
  /\ \E fd \in Fd \ FreeFds(p) : ofile' = [ofile EXCEPT ![p][Min(FreeFds(p))] = ofile[p][fd]]
  /\ UNCHANGED <<ftable, inodes, ends, pc, loc, stopped>>

sys_dup(p) ==
  /\ At(p, "idle") /\ FreeFds(p) # {}
  /\ \E fd \in Fd \ FreeFds(p) :
       /\ ofile' = [ofile EXCEPT ![p][Min(FreeFds(p))] = ofile[p][fd]]
       /\ filedup(ofile[p][fd])
  /\ UNCHANGED <<inodes, ends, pc, loc, stopped>>

sys_close(p) ==
  /\ At(p, "idle")
  /\ \E fd \in Fd \ FreeFds(p) :
       Fileclose(p, ofile[p][fd], NoLocals, [ofile EXCEPT ![p][fd] = 0])
  /\ UNCHANGED <<inodes, ends>>

\* read and write move one word and the offset, under the inode's lock.
\* A pipe end moves no offset (module Pipe).
Inode(p, fd) == LET f == ofile[p][fd] IN f # 0 /\ ftable[f].type = "inode"
InumOf(p, fd) == icache[ftable[ofile[p][fd]].ip].inum

fileread(p) ==
  /\ At(p, "idle")
  /\ \E fd \in Fd : LET f == ofile[p][fd] IN
       /\ f # 0 /\ ftable[f].r
       /\ \/ ftable[f].type = "none" /\ Panic("fileread")
          \/ /\ Inode(p, fd) /\ ~Locked(ftable[f].ip) /\ ftable[f].off < size[InumOf(p, fd)]
             /\ ftable' = [ftable EXCEPT ![f].off = @ + 1]
             /\ UNCHANGED <<ofile, inodes, ends, pc, loc, stopped>>

filewrite(p) ==
  /\ At(p, "idle")
  /\ \E fd \in Fd : LET f == ofile[p][fd]  off == ftable[f].off IN
       /\ f # 0 /\ ftable[f].w
       /\ \/ ftable[f].type = "none" /\ Panic("filewrite")
          \/ /\ Inode(p, fd) /\ ~Locked(ftable[f].ip) /\ off < MAXSIZE /\ off <= size[InumOf(p, fd)]
             /\ size' = [size EXCEPT ![InumOf(p, fd)] = Max({@, off + 1})]
             /\ ftable' = [ftable EXCEPT ![f].off = off + 1]
             /\ UNCHANGED <<ofile, icache, linked, ends, pc, loc, stopped>>

-----------------------------------------------------------------------------
\* pipe: two files, a page, two descriptors; loc.f and loc.g are rf and wf.
sys_pipe(p) ==
  /\ At(p, "idle") /\ FreeFiles # {}
  /\ ftable' = [ftable EXCEPT ![Min(FreeFiles)].ref = 1]
  /\ Goto(p, "pipe", [NoLocals EXCEPT !.f = Min(FreeFiles)])
  /\ UNCHANGED <<ofile, inodes, ends, stopped>>

\* pipealloc, the second file; then kalloc, which may fail too.
Pipealloc(p) ==
  LET l == loc[p]  f == Min(FreeFiles) IN
  /\ At(p, "pipe")
  /\ \/ /\ FreeFiles = {} /\ Fileclose(p, l.f, NoLocals, ofile)
        /\ UNCHANGED <<inodes, ends>>
     \/ /\ FreeFiles # {} /\ ftable' = [ftable EXCEPT ![f].ref = 1]
        /\ Goto(p, "pipepage", [l EXCEPT !.g = f])
        /\ UNCHANGED <<ofile, inodes, ends, stopped>>

PipeEnd(r) == [NoFile EXCEPT !.ref = 1, !.type = "pipe", !.r = r, !.w = ~r]

PipePage(p) ==
  LET l == loc[p] IN
  /\ At(p, "pipepage")
  /\ \/ Goto(p, "pipebad", l) /\ UNCHANGED <<ftable, ends>>
     \/ /\ ends = {} /\ ends' = {"r", "w"}
        /\ ftable' = [ftable EXCEPT ![l.f] = PipeEnd(TRUE), ![l.g] = PipeEnd(FALSE)]
        /\ Goto(p, "pipefd", l)
  /\ UNCHANGED <<ofile, inodes, stopped>>

\* fdalloc twice; if one fails neither descriptor stays.
PipeFd(p) ==
  LET l == loc[p]  fd0 == Min(FreeFds(p))  fd1 == Min(FreeFds(p) \ {fd0}) IN
  /\ At(p, "pipefd")
  /\ IF Cardinality(FreeFds(p)) < 2 THEN Goto(p, "pipebad", l) /\ UNCHANGED ofile
     ELSE ofile' = [ofile EXCEPT ![p][fd0] = l.f, ![p][fd1] = l.g] /\ Done(p)
  /\ UNCHANGED <<ftable, inodes, ends, stopped>>

\* Close rf and then wf.
PipeBad(p) ==
  LET l == loc[p] IN
  /\ \/ At(p, "pipebad") /\ Fileclose(p, l.f, [l EXCEPT !.f = 0, !.ret = "pipebad2"], ofile)
     \/ At(p, "pipebad2") /\ Fileclose(p, l.g, NoLocals, ofile)
  /\ UNCHANGED <<inodes, ends>>

-----------------------------------------------------------------------------
\* fork: the child gets every file, one filedup after the other.
fork(p) ==
  /\ At(p, "idle")
  /\ \E c \in Proc :
       /\ pc[c] = "none"
       /\ pc' = [pc EXCEPT ![p] = "fork", ![c] = "embryo"]
       /\ loc' = [loc EXCEPT ![p] = [NoLocals EXCEPT !.child = c]]
  /\ UNCHANGED <<table, inodes, ends, stopped>>

ForkDup(p) ==
  LET l == loc[p]  f == ofile[p][l.fd] IN
  /\ At(p, "fork") /\ l.fd < NOFILE
  /\ \/ f # 0 /\ ftable[f].ref < 1 /\ Panic("filedup")
     \/ /\ f # 0 => ftable[f].ref >= 1
        /\ IF f = 0 THEN UNCHANGED table
           ELSE filedup(f) /\ ofile' = [ofile EXCEPT ![l.child][l.fd] = f]
        /\ Goto(p, "fork", [l EXCEPT !.fd = @ + 1])
        /\ UNCHANGED <<inodes, ends, stopped>>

\* idup of the cwd.
ForkDone(p) ==
  /\ At(p, "fork") /\ loc[p].fd = NOFILE /\ Ref(1, ROOTINO)
  /\ pc' = [pc EXCEPT ![p] = "idle", ![loc[p].child] = "idle"]
  /\ loc' = [loc EXCEPT ![p] = NoLocals]
  /\ UNCHANGED <<table, size, linked, ends, stopped>>

\* exit closes the descriptors in order and puts the cwd.
exit(p) ==
  /\ At(p, "idle") /\ Goto(p, "exit", [NoLocals EXCEPT !.ret = "exit"])
  /\ UNCHANGED <<table, inodes, ends, stopped>>

ExitClose(p) ==
  LET open == Fd \ FreeFds(p)  fd == Min(open) IN
  /\ At(p, "exit")
  /\ \/ open = {} /\ Goto(p, "none", NoLocals) /\ iput(1) /\ UNCHANGED <<table, stopped>>
     \/ /\ open # {} /\ Fileclose(p, ofile[p][fd], loc[p], [ofile EXCEPT ![p][fd] = 0])
        /\ UNCHANGED inodes
  /\ UNCHANGED <<ends>>

-----------------------------------------------------------------------------
Opening(p) == sys_open(p) \/ OpenFile(p) \/ OpenFd(p) \/ OpenBad(p) \/ sys_unlink(p)
Using(p) == sys_dup(p) \/ sys_close(p) \/ Closing(p) \/ fileread(p) \/ filewrite(p)
Piping(p) == sys_pipe(p) \/ Pipealloc(p) \/ PipePage(p) \/ PipeFd(p) \/ PipeBad(p)
Forking(p) == fork(p) \/ ForkDup(p) \/ ForkDone(p) \/ exit(p) \/ ExitClose(p)

Next == \E p \in Proc : Opening(p) \/ Using(p) \/ Piping(p) \/ Forking(p)
Spec == Init /\ [][Next]_vars

-----------------------------------------------------------------------------
Count(S) == Cardinality(S)

\* The type invariant.
TypeOK ==
  /\ \A f \in File : ftable[f].ref \in Nat /\ ftable[f].off \in 0..MAXSIZE /\ ftable[f].ip \in 0..NINODE
  /\ ofile \in [Proc -> [Fd -> 0..NFILE]] /\ size \in [Inum -> 0..MAXSIZE] /\ linked \subseteq Inum
  /\ icache \in [Slot -> [inum : Inum \cup {NoInum}, ref : Nat]]

\* The reference count of a file is the number of descriptors, of every
\* process, that hold it, and of calls that are about to install or close it.
Pending(p, f) ==
  Count({pc[p]} \cap {"openfd", "pipe", "pipepage", "pipefd", "pipebad"}) * (IF loc[p].f = f THEN 1 ELSE 0)
  + (IF loc[p].g = f THEN 1 ELSE 0)
FileRefs ==
  stopped = "" => \A f \in File :
    ftable[f].ref = Count({d \in Proc \X Fd : ofile[d[1]][d[2]] = f})
                    + MapThenSumSet(LAMBDA p : Pending(p, f), Proc)

\* The reference count of a cached inode is the number of open files, of
\* calls under way and of current directories that hold it.
InodeRefs ==
  \A s \in Slot :
    icache[s].ref = Count({f \in File : ftable[f].type = "inode" /\ ftable[f].ip = s})
                    + Count({p \in Proc : pc[p] \in {"open", "openfd", "openbad"} /\ loc[p].s = s})
                    + Count({p \in Proc : loc[p].ff.type = "inode" /\ loc[p].ff.ip = s})
                    + Count({p \in Proc : pc[p] = "closing" /\ loc[p].ret = "openbad" /\ loc[p].s = s})
                    + (IF s = 1 THEN 1 + Count({p \in Proc : pc[p] \notin {"none", "embryo"}}) ELSE 0)

\* Each end of the pipe is open exactly while some file is that end, or its
\* last close is under way.
PipeEnds ==
  \A w \in BOOLEAN : (IF w THEN "w" ELSE "r") \in ends <=>
    \/ \E f \in File : ftable[f].type = "pipe" /\ ftable[f].w = w
    \/ \E p \in Proc : loc[p].ff.type = "pipe" /\ loc[p].ff.w = w

\* The panics of file.c are unreachable: no descriptor leads to a file that
\* is closed or not set up.
NoPanic == stopped \in {"", "iget: no inodes"}

\* Every count and flag of the tables is exact at every moment, whatever
\* open, dup, pipe, fork, close and exit do half-way through each other, and
\* no descriptor leads to a file that is closed.
CountsExact == TypeOK /\ NoPanic /\ FileRefs /\ InodeRefs /\ PipeEnds

\* Offsets stay inside the file, although the inode's slot, its number and
\* the file's slot are all used again by others.
OffInFile ==
  \A f \in File : ftable[f].type = "inode" =>
    /\ icache[ftable[f].ip].ref > 0
    /\ ftable[f].off <= size[icache[ftable[f].ip].inum]

\* A descriptor keeps its inode: no step makes an open file another file.
FdStable ==
  [][\A p \in Proc, fd \in Fd :
       ofile[p][fd] # 0 /\ ofile'[p][fd] = ofile[p][fd] /\ Inode(p, fd) =>
         /\ ftable'[ofile[p][fd]].ip = ftable[ofile[p][fd]].ip
         /\ icache'[ftable[ofile[p][fd]].ip].inum = InumOf(p, fd)]_vars
=============================================================================
