-------------------------------- MODULE Bio ---------------------------------
(***************************************************************************)
(* The buffer cache of xv6 (kernel/bio.c) on top of its disk driver.       *)
(*                                                                         *)
(* Processes of the file system call bread, change the data and bwrite it, *)
(* and brelse.  A process holds at most two buffers at a time: an Outer    *)
(* one (an indirect block, in bmap and itrunc, or a block of the root      *)
(* directory, in getFilesByTag) and inside it one that is not Outer.       *)
(* Each action is one critical section of bcache.lock, or what the owner   *)
(* of a busy buffer does to it.                                            *)
(***************************************************************************)
EXTENDS Ide

CONSTANTS Outer,       \* the sectors that are held while others are read
          Crashes      \* whether the machine may lose power

ASSUME BioAssumption == Outer \subseteq Sector /\ Crashes \in BOOLEAN

VARIABLES
  lru,      \* per buffer: its place in the list, 1 = most recently used
  want,     \* per process: the sector it looks for in bget
  outer     \* per process: the Outer buffer it holds around bp, or 0

ide_vars == <<idequeue, disk, cmd, ctl>>
vars == <<sector, flags, data, idequeue, disk_vars, pc, bp, chan,
          lru, want, outer>>

\* "run": outside bio.c; "iderw": about to queue bp; "io": in iderw's loop;
\* "panic": bget found no buffer and keeps bcache.lock for ever.
PC == {"run", "bget", "iderw", "io", "panic"}
Panicked == \E p \in Proc : pc[p] = "panic"

Busy(b) == "B_BUSY" \in flags[b]

\* binit; the disk holds a file system, the processes are outside bio.c.
InitCache ==
  /\ sector = [b \in Buf |-> NoSector]
  /\ flags = [b \in Buf |-> {}]
  /\ data = [b \in Buf |-> Zero]
  /\ idequeue = <<>>
  /\ cmd = NoCmd
  /\ ctl = "idle"
  /\ pc = [p \in Proc |-> "run"]
  /\ bp = [p \in Proc |-> 0]
  /\ chan = [p \in Proc |-> 0]
  /\ lru = [b \in Buf |-> NBUF + 1 - b]
  /\ want = [p \in Proc |-> NoSector]
  /\ outer = [p \in Proc |-> 0]

Init == InitCache /\ disk \in [Sector -> Data]

-----------------------------------------------------------------------------
\* bmap, itrunc and getFilesByTag read a block while they hold an Outer one.
Nests(p, s) ==
  /\ bp[p] # 0 /\ outer[p] = 0
  /\ sector[bp[p]] \in Outer /\ s \notin Outer
  /\ outer' = [outer EXCEPT ![p] = bp[p]]

\* The file system calls bread(s).
Bread(p, s) ==
  /\ pc[p] = "run"
  /\ (bp[p] = 0 /\ UNCHANGED outer) \/ Nests(p, s)
  /\ bp' = [bp EXCEPT ![p] = 0]
  /\ want' = [want EXCEPT ![p] = s]
  /\ pc' = [pc EXCEPT ![p] = "bget"]
  /\ UNCHANGED <<sector, flags, data, ide_vars, chan, lru>>

\* bget finds the sector cached and not busy; bread reads it if not valid.
BgetHit(p) ==
  /\ \E b \in Buf :
       /\ sector[b] = want[p] /\ ~Busy(b)
       /\ flags' = [flags EXCEPT ![b] = @ \cup {"B_BUSY"}]
       /\ bp' = [bp EXCEPT ![p] = b]
       /\ pc' = [pc EXCEPT ![p] = IF "B_VALID" \in flags[b] THEN "run" ELSE "iderw"]
  /\ want' = [want EXCEPT ![p] = NoSector]
  /\ UNCHANGED <<sector, chan>>

\* The sector is cached and busy: sleep, then look again from the start.
BgetWait(p) ==
  /\ \E b \in Buf : sector[b] = want[p] /\ Busy(b) /\ Sleep(p, b)
  /\ UNCHANGED <<sector, flags, bp, pc, want>>

\* Not cached: take the least recently used buffer that is not busy.
BgetFresh(p) ==
  /\ \A b \in Buf : sector[b] # want[p]
  /\ \E b \in Buf :
       /\ ~Busy(b) /\ \A o \in Buf : ~Busy(o) => lru[o] <= lru[b]
       /\ sector' = [sector EXCEPT ![b] = want[p]]
       /\ flags' = [flags EXCEPT ![b] = {"B_BUSY"}]
       /\ bp' = [bp EXCEPT ![p] = b]
  /\ pc' = [pc EXCEPT ![p] = "iderw"]
  /\ want' = [want EXCEPT ![p] = NoSector]
  /\ UNCHANGED chan

\* panic("bget: no buffers")
BgetPanic(p) ==
  /\ \A b \in Buf : sector[b] # want[p] /\ Busy(b)
  /\ pc' = [pc EXCEPT ![p] = "panic"]
  /\ UNCHANGED <<sector, flags, bp, chan, want>>

Bget(p) ==
  /\ pc[p] = "bget" /\ chan[p] = 0 /\ ~Panicked
  /\ BgetHit(p) \/ BgetWait(p) \/ BgetFresh(p) \/ BgetPanic(p)
  /\ UNCHANGED <<data, ide_vars, lru, outer>>

\* Mutant: bwrite only marks the buffer and leaves the writing for later.
Bwrite_Later(p, v) ==
  /\ pc[p] = "run" /\ bp[p] # 0
  /\ data' = [data EXCEPT ![bp[p]] = v]
  /\ flags' = [flags EXCEPT ![bp[p]] = @ \cup {"B_DIRTY"}]
  /\ UNCHANGED <<sector, ide_vars, bp, pc, chan, lru, want, outer>>

\* The file system changes the data of its buffer and calls bwrite.
Bwrite(p, v) ==
  /\ pc[p] = "run" /\ bp[p] # 0
  /\ data' = [data EXCEPT ![bp[p]] = v]
  /\ flags' = [flags EXCEPT ![bp[p]] = @ \cup {"B_DIRTY"}]
  /\ pc' = [pc EXCEPT ![p] = "iderw"]
  /\ UNCHANGED <<sector, ide_vars, bp, chan, lru, want, outer>>

\* Mutant: brelse forgets to clear B_BUSY.
Brelse_KeepsBusy(p) ==
  /\ pc[p] = "run" /\ bp[p] # 0
  /\ Wakeup(bp[p])
  /\ bp' = [bp EXCEPT ![p] = outer[p]]
  /\ outer' = [outer EXCEPT ![p] = 0]
  /\ UNCHANGED <<sector, flags, data, ide_vars, pc, want, lru>>

\* brelse of the inner buffer: to the front of the list, wake its waiters.
Brelse(p) ==
  /\ pc[p] = "run" /\ bp[p] # 0 /\ ~Panicked
  /\ lru' = [b \in Buf |-> IF b = bp[p] THEN 1
                           ELSE IF lru[b] < lru[bp[p]] THEN lru[b] + 1 ELSE lru[b]]
  /\ flags' = [flags EXCEPT ![bp[p]] = @ \ {"B_BUSY"}]
  /\ Wakeup(bp[p])
  /\ bp' = [bp EXCEPT ![p] = outer[p]]
  /\ outer' = [outer EXCEPT ![p] = 0]
  /\ UNCHANGED <<sector, data, ide_vars, pc, want>>

\* kill() makes a sleeping process runnable, whatever it waits for.
Kill(p) ==
  /\ chan[p] # 0
  /\ chan' = [chan EXCEPT ![p] = 0]
  /\ UNCHANGED <<sector, flags, data, ide_vars, pc, bp, lru, want, outer>>

\* Power is lost and the machine restarts: only the disk survives.
Crash ==
  /\ Crashes
  /\ sector' = [b \in Buf |-> NoSector] /\ flags' = [b \in Buf |-> {}]
  /\ data' = [b \in Buf |-> Zero] /\ idequeue' = <<>> /\ ctl' = "idle"
  /\ cmd' = NoCmd
  /\ pc' = [p \in Proc |-> "run"] /\ bp' = [p \in Proc |-> 0]
  /\ chan' = [p \in Proc |-> 0]
  /\ lru' = [b \in Buf |-> NBUF + 1 - b] /\ want' = [p \in Proc |-> NoSector]
  /\ outer' = [p \in Proc |-> 0]
  /\ UNCHANGED disk

-----------------------------------------------------------------------------
IdeStep ==
  /\ DiskDone \/ DiskFails \/ Ideintr \/ \E p \in Proc : IderwQueue(p) \/ IderwReturn(p)
  /\ UNCHANGED <<lru, want, outer>>

Next ==
  \/ IdeStep
  \/ \E p \in Proc : \/ Bget(p) \/ Brelse(p) \/ Kill(p)
                     \/ \E s \in Sector : Bread(p, s)
                     \/ \E v \in Data : Bwrite(p, v)
  \/ Crash

Spec == Init /\ [][Next]_vars

-----------------------------------------------------------------------------
(* Properties                                                              *)

TypeOK ==
  /\ sector \in [Buf -> Sector \cup {NoSector}]
  /\ flags \in [Buf -> SUBSET Flag]
  /\ data \in [Buf -> Data]
  /\ idequeue \in Seq(Buf)
  /\ disk \in [Sector -> Data]
  /\ cmd \in Cmd
  /\ ctl \in {"idle", "busy", "done", "error"}
  /\ pc \in [Proc -> PC]
  /\ bp \in [Proc -> Buf \cup {0}]
  /\ chan \in [Proc -> Buf \cup {0}]
  /\ lru \in [Buf -> Nat]
  /\ want \in [Proc -> Sector \cup {NoSector}]
  /\ outer \in [Proc -> Buf \cup {0}]

\* The buffers that process p has and has not passed back to brelse.
Holds(p) == {bp[p], outer[p]} \ {0}

\* The buffers in the disk queue.
Queued == {idequeue[i] : i \in DOMAIN idequeue}

\* No two buffers cache the same sector, however lookups, sleeps and the
\* recycling of buffers interleave: the cache is one copy of each block.
OneBuffer ==
  \A a, b \in Buf : sector[a] = sector[b] /\ sector[a] # NoSector => a = b

\* A buffer is busy exactly while one process has it, and only one: "Only one
\* process at a time can use a buffer".
Exclusive ==
  /\ \A b \in Buf : Busy(b) <=> \E p \in Proc : b \in Holds(p)
  /\ \A p, q \in Proc : p # q => Holds(p) \cap Holds(q) = {}

\* A valid buffer without a pending write holds what is on the disk.
Coherent ==
  \A b \in Buf : Synced(b) => data[b] = disk[sector[b]]

\* The panics of iderw, bwrite and brelse are unreachable, and a process uses
\* a buffer only once its contents are there and its write is complete.
Usable ==
  \A p \in Proc :
    /\ pc[p] = "iderw" => bp[p] # 0 /\ ~Synced(bp[p])
    /\ pc[p] = "run" /\ bp[p] # 0 => Synced(bp[p])
    /\ \A b \in Holds(p) : Busy(b) /\ sector[b] \in Sector

\* No wakeup is lost: who sleeps in bget sleeps on a buffer that is still busy
\* with the wanted sector, who sleeps in iderw has its buffer in the queue,
\* and the controller is at work or has answered while the queue is not empty.
NoLostWakeup ==
  /\ \A p \in Proc : chan[p] # 0 =>
       /\ pc[p] = "bget" => Busy(chan[p]) /\ sector[chan[p]] = want[p]
       /\ pc[p] = "io" => bp[p] \in Queued
  /\ ctl = "idle" <=> idequeue = <<>>

\* bget does not run out of buffers while the other processes hold fewer than
\* there are.
NoPanic == ~Panicked

\* The strengthening that makes the invariants above inductive.
\* Where a process is, and what it has there.
Position ==
  \A p \in Proc :
    /\ pc[p] = "bget" => bp[p] = 0 /\ want[p] \in Sector
    /\ pc[p] = "panic" => bp[p] = 0
    /\ pc[p] = "io" => bp[p] # 0
    /\ outer[p] # 0 => /\ outer[p] # bp[p] /\ Synced(outer[p])
                       /\ bp[p] = 0 => pc[p] \in {"bget", "panic"}
    /\ chan[p] # 0 => pc[p] = "bget" \/ (pc[p] = "io" /\ chan[p] = bp[p])

\* The queue: requests of different processes that wait in iderw, the first of
\* them given to the controller.
QueueInv ==
  /\ \A i, j \in DOMAIN idequeue : idequeue[i] = idequeue[j] => i = j
  /\ \A b \in Queued : ~Synced(b) /\ \E p \in Proc : pc[p] = "io" /\ bp[p] = b
  /\ \A p \in Proc : pc[p] = "io" /\ ~Synced(bp[p]) => bp[p] \in Queued
  /\ idequeue # <<>> => cmd = Request(Head(idequeue))
  /\ ctl = "done" /\ cmd.op = "write" => disk[cmd.sector] = cmd.data

\* Only a valid buffer in the hands of a process has a write to do.
FlagsInv ==
  \A b \in Buf : /\ "B_VALID" \in flags[b] => sector[b] \in Sector
                 /\ "B_DIRTY" \in flags[b] => Busy(b) /\ "B_VALID" \in flags[b]

IInv == /\ TypeOK /\ OneBuffer /\ Exclusive /\ Usable /\ NoLostWakeup
        /\ Position /\ QueueInv /\ FlagsInv

-----------------------------------------------------------------------------
(***************************************************************************)
(* The buffer cache implements a store of atomic blocks.                   *)
(***************************************************************************)
Phase(b) == IF "B_DIRTY" \notin flags[b] THEN "held"
            ELSE IF ctl = "done" /\ idequeue # <<>> /\ Head(idequeue) = b
            THEN "written" ELSE "writing"

SessionOf(p, b) == [proc |-> p, sector |-> sector[b], view |-> data[b], phase |-> Phase(b)]
Sessions == UNION {{SessionOf(p, b) : b \in {h \in Holds(p) : "B_VALID" \in flags[h]}} :
                     p \in Proc}

Store == INSTANCE BlockStore WITH content <- disk, sessions <- Sessions

\* Every step of the cache and its driver is a step of the block store, or
\* invisible: a read returns the last write, a write is durable when bwrite
\* returns, also across a crash.
RefinesStore == Store!StoreSpec

-----------------------------------------------------------------------------
(***************************************************************************)
(* Liveness: the disk answers, its interrupt is delivered, and a process   *)
(* that is runnable in iderw gets the CPU.                                 *)
(***************************************************************************)
Fairness ==
  /\ WF_vars(IdeStep /\ DiskDone) /\ WF_vars(IdeStep /\ Ideintr)
  /\ \A p \in Proc : WF_vars(IdeStep /\ (IderwQueue(p) \/ IderwReturn(p)))
FairSpec == Spec /\ Fairness

\* Every request for the disk is served and its caller goes on, whoever else
\* queues requests and however often kill() wakes it too early, unless the
\* machine stops because bget panics.
IoCompletes == \A p \in Proc : pc[p] = "iderw" ~> pc[p] = "run" \/ Panicked
=============================================================================
