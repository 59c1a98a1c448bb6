------------------------------- MODULE Inode --------------------------------
(* Blocks, inodes and file contents: the lower half of kernel/fs.c.         *)
(*                                                                          *)
(* One action is one critical section of icache.lock, or one bread ...      *)
(* bwrite ... brelse of a disk block: a buffer is exclusive and a write     *)
(* reaches the disk whole (module Bio).  Power may fail between any two.    *)
(* The directory is one locked set of inode numbers; module Dirs has the    *)
(* real ones.                                                               *)
EXTENDS Integers, Sequences, FiniteSets, FiniteSetsExt

CONSTANTS
  Proc,
  NoProc,
  NINODES,    \* disk inodes are 1..NINODES
  NINODE,     \* slots of the inode cache
  FSSIZE,     \* data blocks of the disk are 1..FSSIZE (sb.size)
  BPB,        \* bits of the bitmap block, at least FSSIZE
  NDIRECT,
  NINDIRECT,  \* addresses in a block, and so also its size in words
  Crashes     \* whether power may fail

ASSUME InodeAssumption ==
  /\ NoProc \notin Proc
  /\ {NINODES, NINODE, FSSIZE, NINDIRECT} \subseteq Nat \ {0}
  /\ BPB \in Nat /\ BPB >= FSSIZE /\ NDIRECT \in Nat /\ Crashes \in BOOLEAN

VARIABLES
  bitmap,    \* disk: blocks marked in use
  data,      \* disk: the words of every block
  dinode,    \* disk: the inodes
  entry,     \* disk: inode numbers the directory names
  icache,    \* the inode cache
  dlock,     \* process that holds the directory's lock
  pc, loc,   \* what each process is doing, and its locals
  stopped,   \* "" or why the machine stopped
  crashed    \* history: power has failed

disk == <<bitmap, data, dinode, entry>>
vars == <<bitmap, data, dinode, entry, icache, dlock, pc, loc, stopped, crashed>>

Inum == 1..NINODES
Slot == 1..NINODE
Block == 1..FSSIZE
BSIZE == NINDIRECT
MAXFILE == NDIRECT + NINDIRECT

Zeroes == [k \in 0..BSIZE-1 |-> 0]

\* A struct dinode; T_FILE is the only type here.
FreeInode == [type |-> 0, nlink |-> 0, size |-> 0, addrs |-> [k \in 0..NDIRECT |-> 0]]

\* A struct inode.  The fields of a slot with ref = 0 are dead: iget sets
\* inum, ref and the flags, and ilock the rest before anyone reads them.
EmptySlot == [inum |-> 0, ref |-> 0, busy |-> FALSE, valid |-> FALSE, d |-> FreeInode]

\* op: the system call; s, i: slot and number of its inode; off, end: the
\* part of the file still to write; b: the block in hand.
NoLocals == [op |-> "", s |-> 0, i |-> 0, off |-> 0, end |-> 0, b |-> 0]

Init ==
  /\ bitmap = {} /\ data = [b \in Block |-> Zeroes]
  /\ dinode = [i \in Inum |-> FreeInode] /\ entry = {}
  /\ icache = [s \in Slot |-> EmptySlot] /\ dlock = NoProc
  /\ pc = [p \in Proc |-> "idle"] /\ loc = [p \in Proc |-> NoLocals]
  /\ stopped = "" /\ crashed = FALSE

-----------------------------------------------------------------------------
At(p, where) == stopped = "" /\ pc[p] = where
Goto(p, where) == pc' = [pc EXCEPT ![p] = where]
Ip(p) == icache[loc[p].s]
D(p) == Ip(p).d
SetD(p, d) == icache' = [icache EXCEPT ![loc[p].s].d = d]
Local(p, f, v) == loc' = [loc EXCEPT ![p][f] = v]
Done(p) == Goto(p, "idle") /\ loc' = [loc EXCEPT ![p] = NoLocals]

Panic(why) ==
  /\ stopped' = why
  /\ UNCHANGED <<disk, icache, dlock, pc, loc, crashed>>

\* Copy the cached inode to the disk; d is the copy iupdate writes.
iupdate(p, d) == dinode' = [dinode EXCEPT ![Ip(p).inum] = d] /\ SetD(p, d)

\* The scan stops at the end of the bitmap block, not at sb.size.
Unmarked == (1..BPB) \ bitmap
\* Mutant: the bitmap is not written.
balloc_NoWrite(b) == b = Min(Unmarked) /\ b \in Block /\ UNCHANGED bitmap

balloc(b) == b = Min(Unmarked) /\ b \in Block /\ bitmap' = bitmap \cup {b}
OffDisk == IF Unmarked = {} THEN "balloc: out of blocks" ELSE "block past the end"

\* The slot that caches i, or the first free one; 0 if there is neither.
SlotFor(i) ==
  LET hit == {s \in Slot : icache[s].ref > 0 /\ icache[s].inum = i}
      empty == {s \in Slot : icache[s].ref = 0}
  IN  IF hit # {} THEN Min(hit) ELSE IF empty # {} THEN Min(empty) ELSE 0

iget(p, i, op, locker) ==
  LET s == SlotFor(i) IN
  \/ /\ s = 0
     /\ Panic("iget: no inodes")
  \/ /\ s # 0
     /\ icache' = [icache EXCEPT ![s] = IF @.ref > 0 THEN [@ EXCEPT !.ref = @ + 1]
                                        ELSE [EmptySlot EXCEPT !.inum = i, !.ref = 1]]
     /\ loc' = [loc EXCEPT ![p] = [NoLocals EXCEPT !.op = op, !.s = s, !.i = i]]
     /\ Goto(p, "ilock") /\ dlock' = locker
     /\ UNCHANGED <<disk, stopped, crashed>>

-----------------------------------------------------------------------------
(* The system calls, as far as they use this half of the file system.       *)

\* create: the directory is locked and has no such name; ialloc marks the
\* first free inode on the disk.
Ialloc(p) ==
  LET free == {i \in Inum : dinode[i].type = 0} IN
  /\ At(p, "idle") /\ dlock = NoProc
  /\ \/ free = {} /\ Panic("ialloc: no inodes")
     \/ /\ free # {}
        /\ dinode' = [dinode EXCEPT ![Min(free)] = [FreeInode EXCEPT !.type = 1]]
        /\ loc' = [loc EXCEPT ![p] = [NoLocals EXCEPT !.op = "create", !.i = Min(free)]]
        /\ Goto(p, "iget") /\ dlock' = p
        /\ UNCHANGED <<bitmap, data, entry, icache, stopped, crashed>>

IallocGet(p) == At(p, "iget") /\ iget(p, loc[p].i, "create", p)

\* open and unlink: dirlookup takes the reference while the directory is locked.
OpenGet(p) == At(p, "idle") /\ dlock = NoProc /\ \E i \in entry : iget(p, i, "open", NoProc)
UnlinkGet(p) == At(p, "idle") /\ dlock = NoProc /\ \E i \in entry : iget(p, i, "unlink", p)

\* create, after ilock: nlink = 1 and iupdate, then the directory entry.
CreateLink(p) ==
  /\ At(p, "locked") /\ loc[p].op = "create"
  /\ iupdate(p, [D(p) EXCEPT !.nlink = 1])
  /\ Goto(p, "dirlink")
  /\ UNCHANGED <<bitmap, data, entry, dlock, loc, stopped, crashed>>

CreateEntry(p) ==
  /\ At(p, "dirlink")
  /\ entry' = entry \cup {loc[p].i} /\ dlock' = NoProc
  /\ Local(p, "op", "open") /\ Goto(p, "locked")
  /\ UNCHANGED <<bitmap, data, dinode, icache, stopped, crashed>>

\* unlink: the entry is erased first, and then the link is dropped.
UnlinkEntry(p) ==
  /\ At(p, "locked") /\ loc[p].op = "unlink"
  /\ \/ D(p).nlink < 1 /\ Panic("unlink: nlink < 1")
     \/ /\ D(p).nlink >= 1
        /\ entry' = entry \ {loc[p].i} /\ dlock' = NoProc
        /\ Goto(p, "unlinked")
        /\ UNCHANGED <<bitmap, data, dinode, icache, loc, stopped, crashed>>

UnlinkDrop(p) ==
  /\ At(p, "unlinked")
  /\ iupdate(p, [D(p) EXCEPT !.nlink = @ - 1])
  /\ Goto(p, "iunlock")
  /\ UNCHANGED <<bitmap, data, entry, dlock, loc, stopped, crashed>>

-----------------------------------------------------------------------------
(* Inode locks and references.                                              *)

ilock(p) ==
  /\ At(p, "ilock") /\ ~Ip(p).busy
  /\ \/ Ip(p).ref < 1 /\ Panic("ilock")
     \/ /\ Ip(p).ref >= 1
        /\ icache' = [icache EXCEPT ![loc[p].s].busy = TRUE]
        /\ Goto(p, IF Ip(p).valid THEN "locked" ELSE "load")
        /\ UNCHANGED <<disk, dlock, loc, stopped, crashed>>

ilockLoad(p) ==
  LET d == dinode[Ip(p).inum] IN
  /\ At(p, "load")
  /\ \/ d.type = 0 /\ Panic("ilock: no type")
     \/ /\ d.type # 0
        /\ icache' = [icache EXCEPT ![loc[p].s] = [@ EXCEPT !.valid = TRUE, !.d = d]]
        /\ Goto(p, "locked")
        /\ UNCHANGED <<disk, dlock, loc, stopped, crashed>>

iunlock(p) ==
  /\ At(p, "iunlock") \/ (At(p, "locked") /\ loc[p].op = "open")
  /\ \/ (~Ip(p).busy \/ Ip(p).ref < 1) /\ Panic("iunlock")
     \/ /\ Ip(p).busy /\ Ip(p).ref >= 1
        /\ icache' = [icache EXCEPT ![loc[p].s].busy = FALSE]
        /\ Goto(p, "held")
        /\ UNCHANGED <<disk, dlock, loc, stopped, crashed>>

\* An open file is locked again for its next read or write.
Relock(p) ==
  /\ At(p, "held") /\ loc[p].op = "open"
  /\ Goto(p, "ilock")
  /\ UNCHANGED <<disk, icache, dlock, loc, stopped, crashed>>

\* Drop one reference to the slot; with it goes what iput leaves in flags.
Unref(s, slot) == icache' = [icache EXCEPT ![s] = IF slot.ref = 1 THEN EmptySlot
                                                  ELSE [slot EXCEPT !.ref = @ - 1]]

\* The last reference to an inode without links takes it busy and frees it.
iput(p) ==
  LET last == Ip(p).ref = 1 /\ Ip(p).valid /\ D(p).nlink = 0 IN
  /\ At(p, "held")
  /\ \/ last /\ Ip(p).busy /\ Panic("iput busy")
     \/ /\ last /\ ~Ip(p).busy
        /\ icache' = [icache EXCEPT ![loc[p].s].busy = TRUE]
        /\ Goto(p, "itrunc") /\ Local(p, "off", 0)
        /\ UNCHANGED <<disk, dlock, stopped, crashed>>
     \/ /\ ~last
        /\ Unref(loc[p].s, Ip(p)) /\ Done(p)
        /\ UNCHANGED <<disk, dlock, stopped, crashed>>

\* type = 0 goes to the disk; the slot is still busy.
iputFree(p) ==
  /\ At(p, "ifree")
  /\ iupdate(p, [D(p) EXCEPT !.type = 0])
  /\ Goto(p, "iput")
  /\ UNCHANGED <<bitmap, data, entry, dlock, loc, stopped, crashed>>

\* Mutant: the slot keeps its valid flag.
iputDone_KeepsValid(p) ==
  /\ At(p, "iput")
  /\ Unref(loc[p].s, [Ip(p) EXCEPT !.busy = FALSE]) /\ Done(p)
  /\ UNCHANGED <<disk, dlock, stopped, crashed>>

\* flags = 0, so that whoever has the slot next reads the inode again.
iputDone(p) ==
  /\ At(p, "iput")
  /\ Unref(loc[p].s, [Ip(p) EXCEPT !.busy = FALSE, !.valid = FALSE]) /\ Done(p)
  /\ UNCHANGED <<disk, dlock, stopped, crashed>>

-----------------------------------------------------------------------------
(* File contents.                                                           *)

\* The block that holds block bn of file d, or 0.
Mapped(d, bn) ==
  IF bn < NDIRECT THEN d.addrs[bn]
  ELSE IF d.addrs[NDIRECT] = 0 THEN 0
  ELSE data[d.addrs[NDIRECT]][bn - NDIRECT]

Bn(p) == loc[p].off \div BSIZE

\* Start to write words off..end-1; the code cuts end to the largest file.
writei(p) ==
  /\ At(p, "locked") /\ loc[p].op = "open"
  /\ \E off \in 0..D(p).size, end \in 1..(MAXFILE * BSIZE) :
       off < end /\ loc' = [loc EXCEPT ![p] = [@ EXCEPT !.off = off, !.end = end]]
  /\ Goto(p, "write")
  /\ UNCHANGED <<disk, icache, dlock, stopped, crashed>>

\* bmap allocates the direct or the indirect block: the bitmap goes to the
\* disk, the address only to the cached inode.
bmap(p) ==
  LET k == Min({Bn(p), NDIRECT}) IN
  /\ At(p, "write") /\ loc[p].off < loc[p].end
  /\ D(p).addrs[k] = 0
  /\ \/ Unmarked \cap Block = {} /\ Panic(OffDisk)
     \/ \E b \in Block :
          /\ balloc(b) /\ SetD(p, [D(p) EXCEPT !.addrs[k] = b])
          /\ UNCHANGED <<data, dinode, entry, dlock, pc, loc, stopped, crashed>>

\* bmap allocates a block for an entry of the indirect block ...
bmapEntry(p) ==
  /\ At(p, "write") /\ loc[p].off < loc[p].end
  /\ Bn(p) >= NDIRECT /\ D(p).addrs[NDIRECT] # 0 /\ Mapped(D(p), Bn(p)) = 0
  /\ \/ Unmarked \cap Block = {} /\ Panic(OffDisk)
     \/ \E b \in Block :
          /\ balloc(b) /\ Local(p, "b", b) /\ Goto(p, "indirect")
          /\ UNCHANGED <<data, dinode, entry, icache, dlock, stopped, crashed>>

\* ... and writes the indirect block.
bmapIndirect(p) ==
  /\ At(p, "indirect")
  /\ data' = [data EXCEPT ![D(p).addrs[NDIRECT]][Bn(p) - NDIRECT] = loc[p].b]
  /\ Local(p, "b", 0) /\ Goto(p, "write")
  /\ UNCHANGED <<bitmap, dinode, entry, icache, dlock, stopped, crashed>>

\* One turn of writei's loop: the words of one block.  A word of file i is i.
writeiBlock(p) ==
  LET b == Mapped(D(p), Bn(p))
      stop == Min({loc[p].end, (Bn(p) + 1) * BSIZE})
  IN
  /\ At(p, "write") /\ loc[p].off < loc[p].end /\ b # 0
  /\ data' = [data EXCEPT ![b] = [k \in 0..BSIZE-1 |->
                IF loc[p].off <= Bn(p) * BSIZE + k /\ Bn(p) * BSIZE + k < stop
                THEN loc[p].i ELSE @[k]]]
  /\ Local(p, "off", stop)
  /\ UNCHANGED <<bitmap, dinode, entry, icache, dlock, pc, stopped, crashed>>

\* The size, and with it the new addresses, go to the disk last.
writeiSize(p) ==
  /\ At(p, "write") /\ loc[p].off = loc[p].end
  /\ IF loc[p].off > D(p).size THEN iupdate(p, [D(p) EXCEPT !.size = loc[p].off])
     ELSE UNCHANGED <<dinode, icache>>
  /\ loc' = [loc EXCEPT ![p] = [@ EXCEPT !.off = 0, !.end = 0]] /\ Goto(p, "locked")
  /\ UNCHANGED <<bitmap, data, entry, dlock, stopped, crashed>>

\* Mutant: the entries of the indirect block are forgotten.
NextFree_NoInner(p) ==
  LET direct == {k \in 0..NDIRECT-1 : D(p).addrs[k] # 0}
  IN  IF direct # {} THEN Min(direct) ELSE NDIRECT

\* The next address itrunc frees: direct blocks, the entries of the indirect
\* block from loc.off on (numbered after NDIRECT), the indirect block.
NextFree(p) ==
  LET d == D(p)
      direct == {k \in 0..NDIRECT-1 : d.addrs[k] # 0}
      inner == IF d.addrs[NDIRECT] = 0 THEN {}
               ELSE {k \in loc[p].off..NINDIRECT-1 : data[d.addrs[NDIRECT]][k] # 0}
  IN  IF direct # {} THEN Min(direct)
      ELSE IF inner # {} THEN NDIRECT + 1 + Min(inner) ELSE NDIRECT

\* bfree zeroes the block first ...
bzero(p) ==
  LET k == NextFree(p)
      b == IF k > NDIRECT THEN data[D(p).addrs[NDIRECT]][k - NDIRECT - 1] ELSE D(p).addrs[k]
  IN
  /\ At(p, "itrunc") /\ b # 0
  /\ data' = [data EXCEPT ![b] = Zeroes]
  /\ loc' = [loc EXCEPT ![p] = [@ EXCEPT !.b = b, !.end = k,
                                  !.off = IF k > NDIRECT THEN k - NDIRECT ELSE @]]
  /\ Goto(p, "bfree")
  /\ UNCHANGED <<bitmap, dinode, entry, icache, dlock, stopped, crashed>>

\* Mutant: the address stays in the inode.
bfree_KeepsAddr(p) ==
  /\ At(p, "bfree")
  /\ \/ loc[p].b \notin bitmap /\ Panic("freeing free block")
     \/ /\ loc[p].b \in bitmap
        /\ bitmap' = bitmap \ {loc[p].b}
        /\ loc' = [loc EXCEPT ![p] = [@ EXCEPT !.b = 0, !.end = 0]] /\ Goto(p, "itrunc")
        /\ UNCHANGED <<data, dinode, entry, icache, dlock, stopped, crashed>>

\* ... and then clears its bit; the address is cleared in the cached inode only.
bfree(p) ==
  /\ At(p, "bfree")
  /\ \/ loc[p].b \notin bitmap /\ Panic("freeing free block")
     \/ /\ loc[p].b \in bitmap
        /\ bitmap' = bitmap \ {loc[p].b}
        /\ SetD(p, IF loc[p].end > NDIRECT THEN D(p) ELSE [D(p) EXCEPT !.addrs[loc[p].end] = 0])
        /\ loc' = [loc EXCEPT ![p] = [@ EXCEPT !.b = 0, !.end = 0]] /\ Goto(p, "itrunc")
        /\ UNCHANGED <<data, dinode, entry, dlock, stopped, crashed>>

\* No block left: size = 0 and iupdate.
itruncDone(p) ==
  /\ At(p, "itrunc") /\ \A k \in 0..NDIRECT : D(p).addrs[k] = 0
  /\ iupdate(p, [D(p) EXCEPT !.size = 0])
  /\ Goto(p, "ifree") /\ Local(p, "off", 0)
  /\ UNCHANGED <<bitmap, data, entry, dlock, stopped, crashed>>

-----------------------------------------------------------------------------
\* Power fails: the disk stays, memory and every process are gone.
Crash ==
  /\ Crashes
  /\ icache' = [s \in Slot |-> EmptySlot] /\ dlock' = NoProc
  /\ pc' = [p \in Proc |-> "idle"] /\ loc' = [p \in Proc |-> NoLocals]
  /\ stopped' = "" /\ crashed' = TRUE
  /\ UNCHANGED disk

SysCreate(p) == Ialloc(p) \/ IallocGet(p) \/ CreateLink(p) \/ CreateEntry(p)
SysUnlink(p) == UnlinkGet(p) \/ UnlinkEntry(p) \/ UnlinkDrop(p)
Locking(p) == OpenGet(p) \/ ilock(p) \/ ilockLoad(p) \/ iunlock(p) \/ Relock(p)
Putting(p) == iput(p) \/ iputFree(p) \/ iputDone(p)
Writing(p) == writei(p) \/ bmap(p) \/ bmapEntry(p) \/ bmapIndirect(p) \/ writeiBlock(p) \/ writeiSize(p)
Truncating(p) == bzero(p) \/ bfree(p) \/ itruncDone(p)

Step(p) == SysCreate(p) \/ SysUnlink(p) \/ Locking(p) \/ Putting(p) \/ Writing(p) \/ Truncating(p)
Next == Crash \/ \E p \in Proc : Step(p)
Spec == Init /\ [][Next]_vars

-----------------------------------------------------------------------------
Dinode == [type : 0..1, nlink : 0..1, size : 0..(MAXFILE * BSIZE), addrs : [0..NDIRECT -> 0..FSSIZE]]

\* Every variable has its type.
TypeOK ==
  /\ bitmap \subseteq Block /\ entry \subseteq Inum /\ dinode \in [Inum -> Dinode]
  /\ data \in [Block -> [0..BSIZE-1 -> 0..Max({FSSIZE, NINODES})]]
  /\ icache \in [Slot -> [inum : 0..NINODES, ref : 0..Cardinality(Proc), busy : BOOLEAN,
                          valid : BOOLEAN, d : Dinode]]
  /\ dlock \in Proc \cup {NoProc} /\ crashed \in BOOLEAN

\* The machine stops only when a resource is exhausted: no other panic of
\* fs.c is reached, whatever processes create, unlink, write and drop, and
\* whenever power fails.
OnlyExhaustion == stopped \in {"", "ialloc: no inodes", "iget: no inodes",
                               "balloc: out of blocks", "block past the end"}

\* At most one slot caches an inode, and its reference count is the number
\* of processes that hold it.  A cached inode that nobody has locked is the
\* disk inode: what was freed and allocated anew is never seen through an
\* old copy (iget, iput, ilock).
Coherent ==
  /\ TypeOK
  /\ \A s, t \in Slot : icache[s].ref > 0 /\ icache[t].ref > 0 /\ icache[s].inum = icache[t].inum
                        => s = t
  /\ stopped = "" => \A s \in Slot :
       icache[s].ref = Cardinality({p \in Proc : pc[p] \notin {"idle", "iget"} /\ loc[p].s = s})
  /\ \A s \in Slot : icache[s].ref > 0 /\ icache[s].valid /\ ~icache[s].busy
                     => icache[s].d = dinode[icache[s].inum]

\* The blocks of a file, the indirect block first; 0 where there is none.
BlocksOf(d) == [bn \in -1..(MAXFILE - 1) |-> IF bn = -1 THEN d.addrs[NDIRECT] ELSE Mapped(d, bn)]

\* A file that a name leads to is allocated, has a link, and its blocks are
\* marked in use and are nobody else's.
NamesSafe ==
  \A i \in entry :
    LET own == BlocksOf(dinode[i]) IN
    /\ dinode[i].type # 0 /\ dinode[i].nlink >= 1
    /\ \A m, n \in DOMAIN own : own[m] # 0 => own[m] \in bitmap /\ (own[m] = own[n] => m = n)
    /\ \A j \in entry \ {i} : \A m, n \in DOMAIN own :
         own[m] # 0 => own[m] # BlocksOf(dinode[j])[n]

\* A block whose bit is clear is all zeroes, so balloc need not clear it
\* (bfree zeroes before it frees).
FreeZeroed == \A b \in Block \ bitmap : data[b] = Zeroes

\* Every word below the size of a named file was written to that file: no
\* hole, no stale word, no other file's word.
OwnWords ==
  \A i \in entry : \A w \in 0..(dinode[i].size - 1) :
    LET b == Mapped(dinode[i], w \div BSIZE) IN b # 0 /\ data[b][w % BSIZE] = i

\* All this holds at every instant, and so after power fails: the order of
\* the writes in create, unlink, bmap, writei, itrunc and bfree keeps the
\* named files whole without a log.
DiskSafe == NamesSafe /\ FreeZeroed /\ OwnWords

\* Without a power failure nothing is lost: when no call is in progress the
\* marked blocks are those of the named files, and the allocated inodes are
\* the named ones.
NothingLost ==
  (~crashed /\ stopped = "" /\ \A p \in Proc : pc[p] = "idle") =>
    /\ bitmap = UNION {{BlocksOf(dinode[i])[n] : n \in -1..(MAXFILE - 1)} \ {0} : i \in entry}
    /\ {i \in Inum : dinode[i].type # 0} = entry
=============================================================================
