-------------------------------- MODULE Dirs --------------------------------
(* Directories and path names (the upper half of kernel/fs.c) and the       *)
(* system calls on them (kernel/sysfile.c).                                 *)
(*                                                                          *)
(* Inode contents and the cache are module Inode's: here an inode update is *)
(* one write, iput frees at once, and a section of code that holds one lock *)
(* and writes nothing is one action.  Every other action writes the disk    *)
(* once, so power may fail between any two writes.                          *)
EXTENDS Naturals, Sequences, FiniteSets, FiniteSetsExt

CONSTANTS
  Proc, NoProc,
  NINODES,    \* inodes are 1..NINODES
  Name,       \* names other than "." and ".."
  MAXELEMS,   \* bound on the elements of a path
  MAXCALLS,   \* bound on the system calls of a behaviour
  CRASHCOST,  \* calls that a power failure counts for
  Crashes     \* whether power may fail

ASSUME DirsAssumption ==
  /\ NoProc \notin Proc /\ NINODES \in Nat \ {0} /\ {".", ".."} \cap Name = {}
  /\ MAXELEMS \in Nat /\ {MAXCALLS, CRASHCOST} \subseteq Nat /\ Crashes \in BOOLEAN

VARIABLES
  fs,       \* inodes: type, links and entries (disk), references (memory)
  locked,   \* who has locked each inode
  cwd,      \* each process's current directory
  file,     \* each process's open file, 0 if none
  pc, loc,  \* where each process is, and its locals
  calls,    \* system calls made so far
  stopped,  \* "" or the panic that stopped the machine
  strays,   \* history: inodes entered into a directory that was removed
  crashed   \* history: power has failed

vars == <<fs, locked, cwd, file, pc, loc, calls, stopped, strays, crashed>>

ROOTINO == 1
Inum == 1..NINODES
Elem == Name \cup {".", ".."}
NoEntries == [n \in Elem |-> 0]

\* call: the system call; left: path elements namex has still to take (a
\* process picks each element when namex takes it); ip, dp, name, old: the
\* C locals; stale: history, ".." was followed out of a removed directory.
NoLocals == [call |-> "", left |-> 0, ip |-> 0, dp |-> 0, old |-> 0, name |-> "", stale |-> FALSE]

\* The disk as mkfs makes it, and init's references.
Init ==
  /\ fs = [typ |-> [i \in Inum |-> IF i = ROOTINO THEN "dir" ELSE "none"],
           nlink |-> [i \in Inum |-> IF i = ROOTINO THEN 1 ELSE 0],
           ents |-> [i \in Inum |-> IF i = ROOTINO
                                    THEN [NoEntries EXCEPT !["."] = ROOTINO, ![".."] = ROOTINO]
                                    ELSE NoEntries],
           ref |-> [i \in Inum |-> IF i = ROOTINO THEN Cardinality(Proc) ELSE 0]]
  /\ locked = [i \in Inum |-> NoProc]
  /\ cwd = [p \in Proc |-> ROOTINO] /\ file = [p \in Proc |-> 0]
  /\ pc = [p \in Proc |-> "idle"] /\ loc = [p \in Proc |-> NoLocals]
  /\ calls = 0 /\ stopped = "" /\ strays = {} /\ crashed = FALSE

-----------------------------------------------------------------------------
Idup(f, i) == [f EXCEPT !.ref[i] = @ + 1]

\* Mutant: an inode without links is freed at the first iput.
Iput_Eager(f, i) ==
  IF f.nlink[i] = 0 /\ f.typ[i] # "none"
  THEN [f EXCEPT !.ref[i] = @ - 1, !.typ[i] = "none", !.ents[i] = NoEntries]
  ELSE [f EXCEPT !.ref[i] = @ - 1]

\* The last reference to an inode without links frees it.
Iput(f, i) ==
  IF f.ref[i] = 1 /\ f.nlink[i] = 0 /\ f.typ[i] # "none"
  THEN [f EXCEPT !.ref[i] = 0, !.typ[i] = "none", !.ents[i] = NoEntries]
  ELSE [f EXCEPT !.ref[i] = @ - 1]

\* The directories a path from the root reaches, without "..".
RECURSIVE ReachFrom(_)
ReachFrom(S) ==
  LET T == S \cup {i \in Inum : fs.typ[i] = "dir" /\ \E d \in S, n \in Name : fs.ents[d][n] = i}
  IN IF T = S THEN S ELSE ReachFrom(T)
Reach == ReachFrom({ROOTINO})
Stale(dp, n) == n = ".." /\ fs.nlink[dp] = 0
Stray(dp, i) == IF dp \in Reach THEN {} ELSE {dp, i}
Names(i) == {e \in Reach \X Name : fs.ents[e[1]][e[2]] = i}

\* The inode of a name in a locked directory, or 0; and a new entry.
dirlookup(dp, n) == fs.ents[dp][n]
dirlink(dp, n, i) == [fs EXCEPT !.ents[dp][n] = i]

\* p is at the given place, waits for the lock of loc.ip and can have it.
LockPlaces == {"walk", "create", "existing", "unlink", "unlinkIp", "link", "linkTo", "linkBad",
               "chdir", "open"}
Wants(p) == pc[p] \in LockPlaces
At(p, where) == stopped = "" /\ pc[p] = where /\ (Wants(p) => locked[loc[p].ip] = NoProc)

Goto(p, where) == pc' = [pc EXCEPT ![p] = where]
Done(p) == Goto(p, "idle") /\ loc' = [loc EXCEPT ![p] = NoLocals]
Finish(p, where, i) ==
  Goto(p, where) /\ loc' = [loc EXCEPT ![p] = [NoLocals EXCEPT !.call = "end", !.ip = i]]
Quiet == UNCHANGED <<stopped, strays, crashed>>

\* ilock finds a free inode.
NoType(p) == fs.typ[loc[p].ip] = "none"
Panic(why) == stopped' = why /\ UNCHANGED <<fs, locked, cwd, file, pc, loc, strays, crashed>>

\* Whether the call wants the parent, and where it goes on.
nameiparent(l) == l.call \in {"create", "mkdir", "unlink"} \/ l.old # 0
After(l) == CASE l.call = "mkdir" -> "create" [] l.old # 0 -> "linkTo" [] OTHER -> l.call

\* Mutant: namex fails without iput.
WalkFail_Leak(p, f, l) ==
  /\ fs' = f
  /\ IF l.old = 0 THEN Done(p) ELSE Finish(p, "linkBad", l.old)

\* namex gives up on ip: the call fails, or link takes its "bad" exit.
WalkFail(p, f, l) ==
  /\ fs' = Iput(f, l.ip)
  /\ IF l.old = 0 THEN Done(p) ELSE Finish(p, "linkBad", l.old)

\* namex has come to l.ip; the path may end here.
Arrive(p, f, l) ==
  \/ l.left = 0 /\ nameiparent(l) /\ WalkFail(p, f, l)
  \/ /\ ~(l.left = 0 /\ nameiparent(l))
     /\ fs' = f /\ loc' = [loc EXCEPT ![p] = l]
     /\ Goto(p, IF l.left = 0 THEN After(l) ELSE "walk")

\* Start namex: from the root or from the current directory.
Namex(p, f, l) ==
  /\ \E start \in {ROOTINO, cwd[p]}, left \in 0..MAXELEMS :
       Arrive(p, Idup(f, start), [l EXCEPT !.left = left, !.ip = start])
  /\ UNCHANGED <<locked, cwd, file>> /\ Quiet

\* namex takes the next element.
Walk(p) ==
  LET l == loc[p]  i == l.ip IN
  /\ At(p, "walk")
  /\ \/ NoType(p) /\ Panic("ilock: no type")
     \/ /\ \/ fs.typ[i] = "file" /\ WalkFail(p, fs, l)
           \/ /\ l.left = 1 /\ nameiparent(l) /\ fs.typ[i] = "dir"
              /\ \E n \in Elem : loc' = [loc EXCEPT ![p] = [l EXCEPT !.name = n, !.left = 0]]
              /\ Goto(p, After(l)) /\ UNCHANGED fs
           \/ /\ l.left > 1 \/ ~nameiparent(l)
              /\ fs.typ[i] = "dir"
              /\ \E n \in Elem : LET next == dirlookup(i, n) IN
                   \/ next = 0 /\ WalkFail(p, fs, l)
                   \/ /\ next # 0
                      /\ Arrive(p, Iput(Idup(fs, next), i),
                           [l EXCEPT !.ip = next, !.left = @ - 1, !.stale = @ \/ Stale(i, n)])
        /\ UNCHANGED <<locked, cwd, file>> /\ Quiet

\* A call starts: its path is walked to the inode or to its parent.
Call(p, name) == pc[p] = "idle" /\ Namex(p, fs, [NoLocals EXCEPT !.call = name])
sys_open(p) == file[p] = 0 /\ \E call \in {"open", "create"} : Call(p, call)
sys_mkdir(p) == Call(p, "mkdir")
sys_unlink(p) == Call(p, "unlink")
sys_chdir(p) == Call(p, "chdir")
sys_link(p) == Call(p, "link")

\* close: fileclose drops the file's reference.
sys_close(p) ==
  /\ pc[p] = "idle" /\ file[p] # 0
  /\ fs' = Iput(fs, file[p]) /\ file' = [file EXCEPT ![p] = 0]
  /\ UNCHANGED <<locked, cwd, pc, loc>> /\ Quiet

\* The call ends with iput(ip).
Put(p) ==
  /\ stopped = "" /\ pc[p] = "put"
  /\ fs' = Iput(fs, loc[p].ip) /\ Done(p)
  /\ UNCHANGED <<locked, cwd, file>> /\ Quiet

\* open has its inode: the file table or the descriptors may be full.
OpenFile(p, f, i) ==
  \/ file' = [file EXCEPT ![p] = i] /\ fs' = f
  \/ file' = file /\ fs' = Iput(f, i)

Open(p) ==
  /\ At(p, "open")
  /\ \/ NoType(p) /\ Panic("ilock: no type")
     \/ /\ ~NoType(p) /\ OpenFile(p, fs, loc[p].ip) /\ Done(p)
        /\ UNCHANGED <<locked, cwd>> /\ Quiet

Chdir(p) ==
  /\ At(p, "chdir")
  /\ \/ NoType(p) /\ Panic("ilock: no type")
     \/ /\ ~NoType(p) /\ Done(p)
        /\ IF fs.typ[loc[p].ip] = "dir"
           THEN fs' = Iput(fs, cwd[p]) /\ cwd' = [cwd EXCEPT ![p] = loc[p].ip]
           ELSE fs' = Iput(fs, loc[p].ip) /\ UNCHANGED cwd
        /\ UNCHANGED <<locked, file>> /\ Quiet

\* Mutant: dp stays locked while create waits for the existing inode.
Create_KeepsDp(p) ==
  LET l == loc[p]  dp == l.ip  i == dirlookup(dp, l.name) IN
  /\ At(p, "create") /\ ~NoType(p) /\ i # 0
  /\ fs' = Iput(Idup(fs, i), dp) /\ locked' = [locked EXCEPT ![dp] = p]
  /\ loc' = [loc EXCEPT ![p].ip = i, ![p].name = ""] /\ Goto(p, "existing")
  /\ UNCHANGED <<cwd, file>> /\ Quiet

\* create: look the name up in dp; allocate an inode if it is not there.
Create(p) ==
  LET l == loc[p]  dp == l.ip  i == dirlookup(dp, l.name)
      free == {j \in Inum : fs.typ[j] = "none"}
      new == Min(free)
      type == IF l.call = "mkdir" THEN "dir" ELSE "file" IN
  /\ At(p, "create")
  /\ \/ NoType(p) /\ Panic("ilock: no type")
     \/ ~NoType(p) /\ i = 0 /\ free = {} /\ Panic("ialloc: no inodes")
     \/ /\ ~NoType(p) /\ i # 0
        /\ fs' = Iput(Idup(fs, i), dp)
        /\ loc' = [loc EXCEPT ![p].ip = i, ![p].name = "", ![p].stale = @ \/ Stale(dp, l.name)]
        /\ Goto(p, "existing")
        /\ UNCHANGED <<locked, cwd, file>> /\ Quiet
     \/ /\ ~NoType(p) /\ i = 0 /\ free # {}
        /\ fs' = Idup([fs EXCEPT !.typ[new] = type], new)
        /\ locked' = [locked EXCEPT ![dp] = p, ![new] = p]
        /\ loc' = [loc EXCEPT ![p].dp = dp, ![p].ip = new] /\ Goto(p, "link1")
        /\ strays' = strays \ {new} /\ UNCHANGED <<cwd, file, stopped, crashed>>

\* The name exists: only open may have it, and only if it is a file.
Existing(p) ==
  LET i == loc[p].ip IN
  /\ At(p, "existing")
  /\ \/ NoType(p) /\ Panic("ilock: no type")
     \/ /\ ~NoType(p) /\ Done(p)
        /\ IF loc[p].call = "create" /\ fs.typ[i] = "file" THEN OpenFile(p, fs, i)
           ELSE fs' = Iput(fs, i) /\ UNCHANGED file
        /\ UNCHANGED <<locked, cwd>> /\ Quiet

\* A write made while create or unlink holds its locks.
Write(p, from, to, f) ==
  /\ At(p, from) /\ fs' = f /\ Goto(p, to)
  /\ UNCHANGED <<locked, cwd, file, loc>> /\ Quiet

CreateLink(p) == Write(p, "link1", IF loc[p].call = "mkdir" THEN "dplink" ELSE "entry",
                       [fs EXCEPT !.nlink[loc[p].ip] = 1])
\* Mutant: the new directory gets no "." and "..".
CreateParent_NoDots(p) == Write(p, "dplink", "entry", [fs EXCEPT !.nlink[loc[p].dp] = @ + 1])

CreateParent(p) == Write(p, "dplink", "dot", [fs EXCEPT !.nlink[loc[p].dp] = @ + 1])
CreateDot(p) == Write(p, "dot", "dotdot", dirlink(loc[p].ip, ".", loc[p].ip))
CreateDotDot(p) == Write(p, "dotdot", "entry", dirlink(loc[p].ip, "..", loc[p].dp))

\* The last write, the name itself; then dp and, unless open keeps it, ip
\* are unlocked and put.
CreateEntry(p) ==
  LET l == loc[p]  f == Iput(dirlink(l.dp, l.name, l.ip), l.dp) IN
  /\ At(p, "entry")
  /\ IF l.call = "create" THEN OpenFile(p, f, l.ip) ELSE fs' = Iput(f, l.ip) /\ UNCHANGED file
  /\ locked' = [locked EXCEPT ![l.dp] = NoProc, ![l.ip] = NoProc]
  /\ strays' = strays \cup Stray(l.dp, l.ip)
  /\ Done(p) /\ UNCHANGED <<cwd, stopped, crashed>>

\* unlink: look the name up in dp, which stays locked.
Unlink(p) ==
  LET l == loc[p]  dp == l.ip  i == dirlookup(dp, l.name) IN
  /\ At(p, "unlink")
  /\ \/ NoType(p) /\ Panic("ilock: no type")
     \/ /\ ~NoType(p) /\ (l.name \in {".", ".."} \/ i = 0)
        /\ fs' = Iput(fs, dp) /\ Done(p) /\ UNCHANGED <<locked, cwd, file>> /\ Quiet
     \/ /\ ~NoType(p) /\ l.name \in Name /\ i # 0
        /\ fs' = Idup(fs, i) /\ locked' = [locked EXCEPT ![dp] = p]
        /\ loc' = [loc EXCEPT ![p].dp = dp, ![p].ip = i] /\ Goto(p, "unlinkIp")
        /\ UNCHANGED <<cwd, file>> /\ Quiet

isdirempty(i) == \A n \in Name : fs.ents[i][n] = 0

\* Lock ip, refuse a directory in use, erase the entry.
UnlinkEntry(p) ==
  LET l == loc[p] IN
  /\ At(p, "unlinkIp")
  /\ \/ NoType(p) /\ Panic("ilock: no type")
     \/ ~NoType(p) /\ fs.nlink[l.ip] < 1 /\ Panic("unlink: nlink < 1")
     \/ /\ ~NoType(p) /\ fs.nlink[l.ip] > 0 /\ fs.typ[l.ip] = "dir" /\ ~isdirempty(l.ip)
        /\ fs' = Iput(Iput(fs, l.ip), l.dp)
        /\ locked' = [locked EXCEPT ![l.dp] = NoProc]
        /\ Done(p) /\ UNCHANGED <<cwd, file>> /\ Quiet
     \/ /\ ~NoType(p) /\ fs.nlink[l.ip] > 0 /\ (fs.typ[l.ip] = "dir" => isdirempty(l.ip))
        /\ fs' = [fs EXCEPT !.ents[l.dp][l.name] = 0]
        /\ locked' = [locked EXCEPT ![l.ip] = p]
        /\ Goto(p, IF fs.typ[l.ip] = "dir" THEN "dpdrop" ELSE "dpput")
        /\ UNCHANGED <<cwd, file, loc>> /\ Quiet

\* Mutant: the parent keeps the link of the removed "..".
UnlinkParent_Keeps(p) == Write(p, "dpdrop", "dpput", fs)

UnlinkParent(p) == Write(p, "dpdrop", "dpput", [fs EXCEPT !.nlink[loc[p].dp] = @ - 1])

UnlinkPut(p) ==
  /\ At(p, "dpput")
  /\ fs' = Iput(fs, loc[p].dp) /\ locked' = [locked EXCEPT ![loc[p].dp] = NoProc]
  /\ Goto(p, "ipdrop") /\ UNCHANGED <<cwd, file, loc>> /\ Quiet

UnlinkDrop(p) ==
  /\ At(p, "ipdrop")
  /\ fs' = [fs EXCEPT !.nlink[loc[p].ip] = @ - 1]
  /\ locked' = [locked EXCEPT ![loc[p].ip] = NoProc]
  /\ Finish(p, "put", loc[p].ip) /\ UNCHANGED <<cwd, file>> /\ Quiet

\* link: count the new link first, then walk to the new name's parent.
Link(p) ==
  LET l == loc[p] IN
  /\ At(p, "link")
  /\ \/ NoType(p) /\ Panic("ilock: no type")
     \/ /\ ~NoType(p) /\ fs.typ[l.ip] = "dir"
        /\ fs' = Iput(fs, l.ip) /\ Done(p) /\ UNCHANGED <<locked, cwd, file>> /\ Quiet
     \/ /\ ~NoType(p) /\ fs.typ[l.ip] # "dir"
        /\ Namex(p, [fs EXCEPT !.nlink[l.ip] = @ + 1], [l EXCEPT !.old = l.ip])

\* dirlink(dp, name, old): fails if the name exists.
LinkTo(p) ==
  LET l == loc[p]  dp == l.ip  i == dirlookup(dp, l.name) IN
  /\ At(p, "linkTo")
  /\ \/ NoType(p) /\ Panic("ilock: no type")
     \/ /\ ~NoType(p)
        /\ IF i = 0
           THEN /\ fs' = Iput(dirlink(dp, l.name, l.old), dp) /\ Finish(p, "put", l.old)
                /\ strays' = strays \cup Stray(dp, l.old)
           ELSE fs' = Iput(Iput(Idup(fs, i), i), dp) /\ Finish(p, "linkBad", l.old) /\ UNCHANGED strays
        /\ UNCHANGED <<locked, cwd, file, stopped, crashed>>

LinkBad(p) ==
  /\ At(p, "linkBad")
  /\ \/ NoType(p) /\ Panic("ilock: no type")
     \/ /\ ~NoType(p) /\ fs' = [fs EXCEPT !.nlink[loc[p].ip] = @ - 1]
        /\ Finish(p, "put", loc[p].ip) /\ UNCHANGED <<locked, cwd, file>> /\ Quiet

\* Power fails: the disk is what has been written, memory is init's.
Crash ==
  /\ Crashes /\ stopped = "" /\ ~crashed
  /\ fs' = [fs EXCEPT !.ref = [i \in Inum |-> IF i = ROOTINO THEN Cardinality(Proc) ELSE 0]]
  /\ locked' = [i \in Inum |-> NoProc]
  /\ cwd' = [p \in Proc |-> ROOTINO] /\ file' = [p \in Proc |-> 0]
  /\ pc' = [p \in Proc |-> "idle"] /\ loc' = [p \in Proc |-> NoLocals]
  /\ crashed' = TRUE /\ calls + CRASHCOST <= MAXCALLS /\ calls' = calls + CRASHCOST
  /\ UNCHANGED <<stopped, strays>>

\* panic spins for ever.
Halted == stopped # "" /\ UNCHANGED vars

Calls(p) ==
  /\ calls < MAXCALLS /\ calls' = calls + 1 /\ stopped = ""
  /\ \/ sys_open(p) \/ sys_mkdir(p) \/ sys_unlink(p) \/ sys_chdir(p) \/ sys_link(p) \/ sys_close(p)

Steps(p) ==
  /\ UNCHANGED calls
  /\ \/ Walk(p) \/ Put(p) \/ Open(p) \/ Chdir(p)
     \/ Create(p) \/ Existing(p) \/ CreateLink(p) \/ CreateParent(p) \/ CreateDot(p)
     \/ CreateDotDot(p) \/ CreateEntry(p)
     \/ Unlink(p) \/ UnlinkEntry(p) \/ UnlinkParent(p) \/ UnlinkPut(p) \/ UnlinkDrop(p)
     \/ Link(p) \/ LinkTo(p) \/ LinkBad(p)

Next == (\E p \in Proc : Calls(p) \/ Steps(p)) \/ Crash \/ Halted

Spec == Init /\ [][Next]_vars

-----------------------------------------------------------------------------
\* The type invariant.
TypeOK ==
  /\ fs.typ \in [Inum -> {"none", "file", "dir"}] /\ fs.nlink \in [Inum -> Nat]
  /\ fs.ents \in [Inum -> [Elem -> 0..NINODES]] /\ fs.ref \in [Inum -> Nat]
  /\ locked \in [Inum -> Proc \cup {NoProc}]
  /\ cwd \in [Proc -> Inum] /\ file \in [Proc -> 0..NINODES] /\ strays \subseteq Inum
  /\ \A p \in Proc : loc[p].ip \in 0..NINODES /\ loc[p].name \in Elem \cup {""}

\* Every name a path can reach leads to an allocated inode whose link count
\* covers all its names and, for a directory, the ".." of its children.
LinksCovered ==
  \A i \in Inum : (Names(i) # {} \/ i = ROOTINO) =>
    /\ fs.typ[i] # "none"
    /\ fs.nlink[i] >= Cardinality(Names(i))
                      + Cardinality({d \in Reach \ {ROOTINO} : fs.ents[d][".."] = i})

\* The directories form a tree: one name for each, held by the directory
\* its ".." names, and "." is itself.
Tree ==
  \A d \in Reach \ {ROOTINO} :
    /\ fs.ents[d]["."] = d
    /\ \E e \in Names(d) : Names(d) = {e} /\ fs.ents[d][".."] = e[1]

\* The order of the writes in create, link and unlink keeps the tree and the
\* cover of its links at every moment, so also after a crash between any two.
TreeSafe == LinksCovered /\ Tree

\* References to i that process p holds.
Held(p, i) ==
  LET l == loc[p] IN
  (IF cwd[p] = i THEN 1 ELSE 0) + (IF file[p] = i THEN 1 ELSE 0)
  + (IF pc[p] # "idle" /\ l.ip = i THEN 1 ELSE 0)
  + (IF pc[p] \in {"link1", "dplink", "dot", "dotdot", "entry", "unlinkIp", "dpdrop", "dpput"}
        /\ l.dp = i THEN 1 ELSE 0)
  + (IF l.old = i THEN 1 ELSE 0)

\* References in memory are exactly those held by current directories, open
\* files and calls under way: no exit of any call leaks or drops one.
RefCount == TypeOK /\ \A i \in Inum : fs.ref[i] = MapThenSumSet(LAMBDA p : Held(p, i), Proc)

\* Without a crash, between calls, link counts are exact and no inode is
\* lost; the exceptions are inodes entered into a directory that had been
\* removed while a process was in it.
LinksExact ==
  (~crashed /\ \A p \in Proc : pc[p] = "idle") =>
    \A i \in Inum \ strays : fs.typ[i] # "none" =>
      /\ fs.nlink[i] = Cardinality(Names(i)) + (IF i = ROOTINO THEN 1 ELSE 0)
                       + Cardinality({d \in Reach \ {ROOTINO} : fs.ents[d][".."] = i})
      /\ fs.nlink[i] = 0 => fs.ref[i] > 0

\* The calls stop the machine only when inodes run out, or when a process
\* follows ".." out of a removed directory whose parent is gone too: no
\* other walk meets a free inode, and no entry an inode without links.
PanicFree ==
  \/ stopped \in {"", "ialloc: no inodes"}
  \/ stopped = "ilock: no type" /\ \E p \in Proc : loc[p].stale

\* No set of processes wait for inodes locked by each other, although
\* unlink waits for one inode while it holds another.
NoWaitCycle ==
  \A S \in SUBSET Proc \ {{}} :
    \E p \in S : ~(Wants(p) /\ loc[p].ip # 0 /\ locked[loc[p].ip] \in S)
=============================================================================
