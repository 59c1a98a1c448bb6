-------------------------------- MODULE Pipe --------------------------------
(***************************************************************************)
(* A pipe of xv6 (kernel/pipe.c), the descriptors that keep it open, and   *)
(* the processes that read, write and close it.                            *)
(*                                                                         *)
(* lock is p->lock.  A read or write runs under it byte by byte; another   *)
(* process meets it only where the code releases it, but kill() may strike *)
(* at any point.  sleep() takes ptable.lock before it releases p->lock, so *)
(* going to sleep is one step; the check of proc->killed comes before it.  *)
(***************************************************************************)
EXTENDS Integers, Sequences

CONSTANTS Proc,       \* processes
          NoProc,     \* nobody: the lock is free
          PIPESIZE,   \* size of the ring
          UintMod,    \* number of values of a uint
          MaxCount,   \* the largest n that read and write are called with
          Byte,       \* the bytes
          Kills       \* whether processes are killed

ASSUME PipeAssumption ==
  /\ PIPESIZE \in Nat \ {0} /\ UintMod \in Nat /\ MaxCount \in Nat
  /\ UintMod % PIPESIZE = 0 /\ UintMod > PIPESIZE
  /\ NoProc \notin Proc /\ Kills \in BOOLEAN

VARIABLES
  allocated,            \* the page of struct pipe belongs to the pipe
  lock, data, nread, nwrite, readopen, writeopen,   \* struct pipe
  fds,                  \* per process: the ends it has descriptors for
  pc,                   \* per process: where it is in pipe.c
  count,                \* per process: the bytes still to transfer, n - i
  out,                  \* the byte that piperead copied out last
  chan,                 \* per process: what it sleeps on, "" when awake
  killed                \* per process

End == {"r", "w"}
PC == {"user", "read", "readsleep", "readcopy", "write", "writesleep", "writecopy",
       "closer", "closew"}

ring == <<data, nread, nwrite, out>>
ends == <<allocated, readopen, writeopen, fds>>
vars == <<ring, ends, lock, pc, count, chan, killed>>

Init ==
  /\ allocated = FALSE /\ lock = NoProc
  /\ data \in [0..PIPESIZE - 1 -> Byte] /\ nread = 0 /\ nwrite = 0
  /\ readopen = FALSE /\ writeopen = FALSE
  /\ fds = [p \in Proc |-> {}] /\ pc = [p \in Proc |-> "user"]
  /\ count = [p \in Proc |-> 0] /\ out \in Byte
  /\ chan = [p \in Proc |-> ""] /\ killed = [p \in Proc |-> FALSE]

Empty == nread = nwrite
Full == nwrite = (nread + PIPESIZE) % UintMod

Goto(p, l) == pc' = [pc EXCEPT ![p] = l]
Wakeup(c) == chan' = [q \in Proc |-> IF chan[q] = c THEN "" ELSE chan[q]]

-----------------------------------------------------------------------------
(* Processes and their descriptors                                         *)

\* A killed process makes no more system calls: trap() makes it exit.
Runs(p) == pc[p] = "user" /\ ~killed[p]

\* sys_pipe: pipealloc takes a page for a fresh pipe with both ends open.
Pipealloc(p) ==
  /\ Runs(p) /\ ~allocated
  /\ allocated' = TRUE /\ readopen' = TRUE /\ writeopen' = TRUE
  /\ nread' = 0 /\ nwrite' = 0
  /\ fds' = [fds EXCEPT ![p] = End]
  /\ UNCHANGED <<data, out, lock, pc, count, chan, killed>>

\* fork: the child in slot q inherits the descriptors.
Fork(p, q) ==
  /\ Runs(p) /\ pc[q] = "user" /\ fds[q] = {} /\ p # q
  /\ fds' = [fds EXCEPT ![q] = fds[p]]
  /\ killed' = [killed EXCEPT ![q] = FALSE]
  /\ UNCHANGED <<ring, allocated, readopen, writeopen, lock, pc, count, chan>>

\* kill(): wakes the process if it sleeps.
Kill(p) ==
  /\ Kills /\ ~killed[p]
  /\ killed' = [killed EXCEPT ![p] = TRUE]
  /\ chan' = [chan EXCEPT ![p] = ""]
  /\ UNCHANGED <<ring, ends, lock, pc, count>>

\* close, or exit closing its files: fileclose calls pipeclose when the
\* reference count of the file reaches 0.
Close(p, e) ==
  /\ pc[p] = "user" /\ e \in fds[p]
  /\ fds' = [fds EXCEPT ![p] = @ \ {e}]
  /\ IF \E q \in Proc \ {p} : e \in fds[q] THEN UNCHANGED pc
     ELSE Goto(p, IF e = "r" THEN "closer" ELSE "closew")
  /\ UNCHANGED <<ring, allocated, readopen, writeopen, lock, count, chan, killed>>

\* Mutant: pipeclose forgets to wake the writers.
PipecloseRead_NoWakeup(p) ==
  /\ pc[p] = "closer" /\ lock = NoProc
  /\ readopen' = FALSE /\ allocated' = writeopen
  /\ Goto(p, "user")
  /\ UNCHANGED <<ring, fds, writeopen, lock, count, chan, killed>>

\* pipeclose: the second one to close frees the page.
PipecloseRead(p) ==
  /\ pc[p] = "closer" /\ lock = NoProc
  /\ readopen' = FALSE /\ Wakeup("nwrite")
  /\ allocated' = writeopen
  /\ Goto(p, "user")
  /\ UNCHANGED <<ring, fds, writeopen, lock, count, killed>>

\* Mutant: each end frees the page.
PipecloseWrite_AlwaysFrees(p) ==
  /\ pc[p] = "closew" /\ lock = NoProc
  /\ writeopen' = FALSE /\ Wakeup("nread")
  /\ allocated' = FALSE
  /\ Goto(p, "user")
  /\ UNCHANGED <<ring, fds, readopen, lock, count, killed>>

PipecloseWrite(p) ==
  /\ pc[p] = "closew" /\ lock = NoProc
  /\ writeopen' = FALSE /\ Wakeup("nread")
  /\ allocated' = readopen
  /\ Goto(p, "user")
  /\ UNCHANGED <<ring, fds, readopen, lock, count, killed>>

-----------------------------------------------------------------------------
(* piperead                                                                *)

Read(p, n) ==
  /\ Runs(p) /\ "r" \in fds[p]
  /\ Goto(p, "read") /\ count' = [count EXCEPT ![p] = n]
  /\ UNCHANGED <<ring, ends, lock, chan, killed>>

\* acquire, the condition of the loop, and the check of proc->killed.
ReadEnter(p) ==
  /\ pc[p] = "read" /\ chan[p] = "" /\ lock = NoProc
  /\ \/ Empty /\ writeopen /\ killed[p] /\ Goto(p, "user") /\ UNCHANGED lock
     \/ Empty /\ writeopen /\ ~killed[p] /\ Goto(p, "readsleep") /\ lock' = p
     \/ ~(Empty /\ writeopen) /\ Goto(p, "readcopy") /\ lock' = p
  /\ UNCHANGED <<ring, ends, count, chan, killed>>

ReadSleep(p) ==
  /\ pc[p] = "readsleep"
  /\ chan' = [chan EXCEPT ![p] = "nread"] /\ lock' = NoProc
  /\ Goto(p, "read")
  /\ UNCHANGED <<ring, ends, count, killed>>

ReadByte(p) ==
  /\ pc[p] = "readcopy" /\ count[p] > 0 /\ ~Empty
  /\ out' = data[nread % PIPESIZE] /\ nread' = (nread + 1) % UintMod
  /\ count' = [count EXCEPT ![p] = @ - 1]
  /\ UNCHANGED <<data, nwrite, ends, lock, pc, chan, killed>>

ReadDone(p) ==
  /\ pc[p] = "readcopy" /\ (count[p] = 0 \/ Empty)
  /\ Wakeup("nwrite") /\ lock' = NoProc
  /\ Goto(p, "user") /\ count' = [count EXCEPT ![p] = 0]
  /\ UNCHANGED <<ring, ends, killed>>

-----------------------------------------------------------------------------
(* pipewrite                                                               *)

Write(p, n) ==
  /\ Runs(p) /\ "w" \in fds[p]
  /\ Goto(p, "write") /\ count' = [count EXCEPT ![p] = n]
  /\ UNCHANGED <<ring, ends, lock, chan, killed>>

\* acquire: on entry, and when sleep returns.
WriteEnter(p) ==
  /\ pc[p] = "write" /\ chan[p] = "" /\ lock = NoProc
  /\ Goto(p, "writecopy") /\ lock' = p
  /\ UNCHANGED <<ring, ends, count, chan, killed>>

\* Mutant: off by one, the ring takes one byte too many.
WriteByte_Past(p, b) ==
  /\ pc[p] = "writecopy" /\ count[p] > 0 /\ nwrite # (nread + PIPESIZE + 1) % UintMod
  /\ data' = [data EXCEPT ![nwrite % PIPESIZE] = b] /\ nwrite' = (nwrite + 1) % UintMod
  /\ count' = [count EXCEPT ![p] = @ - 1]
  /\ UNCHANGED <<nread, out, ends, lock, pc, chan, killed>>

WriteByte(p, b) ==
  /\ pc[p] = "writecopy" /\ count[p] > 0 /\ ~Full
  /\ data' = [data EXCEPT ![nwrite % PIPESIZE] = b] /\ nwrite' = (nwrite + 1) % UintMod
  /\ count' = [count EXCEPT ![p] = @ - 1]
  /\ UNCHANGED <<nread, out, ends, lock, pc, chan, killed>>

\* The ring is full: give up, or wake the readers and go to sleep.
WriteFull(p) ==
  /\ pc[p] = "writecopy" /\ count[p] > 0 /\ Full
  /\ IF ~readopen \/ killed[p]
     THEN Goto(p, "user") /\ lock' = NoProc /\ count' = [count EXCEPT ![p] = 0]
          /\ UNCHANGED chan
     ELSE Goto(p, "writesleep") /\ Wakeup("nread") /\ UNCHANGED <<lock, count>>
  /\ UNCHANGED <<ring, ends, killed>>

WriteSleep(p) ==
  /\ pc[p] = "writesleep"
  /\ chan' = [chan EXCEPT ![p] = "nwrite"] /\ lock' = NoProc
  /\ Goto(p, "write")
  /\ UNCHANGED <<ring, ends, count, killed>>

\* Mutant: pipewrite wakes nobody when it is done.
WriteDone_NoWakeup(p) ==
  /\ pc[p] = "writecopy" /\ count[p] = 0
  /\ lock' = NoProc /\ Goto(p, "user")
  /\ UNCHANGED <<ring, ends, count, chan, killed>>

WriteDone(p) ==
  /\ pc[p] = "writecopy" /\ count[p] = 0
  /\ Wakeup("nread") /\ lock' = NoProc /\ Goto(p, "user")
  /\ UNCHANGED <<ring, ends, count, killed>>

-----------------------------------------------------------------------------
Piperead(p) == ReadEnter(p) \/ ReadSleep(p) \/ ReadByte(p) \/ ReadDone(p)
Pipewrite(p) == \/ WriteEnter(p) \/ WriteFull(p) \/ WriteSleep(p) \/ WriteDone(p)
                \/ \E b \in Byte : WriteByte(p, b)
Pipeclose(p) == PipecloseRead(p) \/ PipecloseWrite(p)

Next ==
  \E p \in Proc :
    \/ Pipealloc(p) \/ Kill(p) \/ \E q \in Proc : Fork(p, q)
    \/ \E e \in End : Close(p, e)
    \/ \E n \in 0..MaxCount : Read(p, n) \/ Write(p, n)
    \/ Piperead(p) \/ Pipewrite(p) \/ Pipeclose(p)

Spec == Init /\ [][Next]_vars

-----------------------------------------------------------------------------
(* Properties                                                              *)

TypeOK ==
  /\ allocated \in BOOLEAN /\ readopen \in BOOLEAN /\ writeopen \in BOOLEAN
  /\ lock \in Proc \cup {NoProc}
  /\ data \in [0..PIPESIZE - 1 -> Byte] /\ out \in Byte
  /\ nread \in 0..UintMod - 1 /\ nwrite \in 0..UintMod - 1
  /\ fds \in [Proc -> SUBSET End] /\ pc \in [Proc -> PC]
  /\ count \in [Proc -> 0..MaxCount]
  /\ chan \in [Proc -> {"", "nread", "nwrite"}]
  /\ killed \in [Proc -> {FALSE, Kills}]

\* The page is the pipe's exactly while somebody has a descriptor or is in
\* pipeclose: no process runs in pipe.c on a freed page, pipeclose frees the
\* page once, and the last close does not leak it.
PageOwned ==
  /\ allocated <=> \E p \in Proc : fds[p] # {} \/ pc[p] \in {"closer", "closew"}
  /\ \A p \in Proc : pc[p] # "user" => allocated

\* An end is open exactly until its last descriptor has been closed.
EndsOpen ==
  /\ readopen <=> \E p \in Proc : "r" \in fds[p] \/ pc[p] = "closer"
  /\ writeopen <=> \E p \in Proc : "w" \in fds[p] \/ pc[p] = "closew"

\* Who sleeps has a reason: a writer sleeps on a full ring that can still be
\* read, a reader on one that can still be written and is empty, or was filled
\* by a writer that gave up because it had been killed.
NoLostWakeup ==
  lock = NoProc =>
    \A p \in Proc :
      /\ chan[p] = "nwrite" => Full /\ readopen
      /\ chan[p] = "nread" => writeopen /\ (Empty \/ Kills)

\* The strengthening that makes the invariants above inductive: who has the
\* lock, what a process in pipe.c has open, and why a sleeper sleeps while
\* another process works on the ring.
Holding == {"readsleep", "readcopy", "writesleep", "writecopy"}

LockInv == \A p \in Proc : pc[p] \in Holding <=> lock = p

Position ==
  \A p \in Proc :
    /\ pc[p] \in {"read", "readsleep", "readcopy"} => "r" \in fds[p]
    /\ pc[p] \in {"write", "writesleep", "writecopy"} => "w" \in fds[p]
    /\ pc[p] = "closer" => \A q \in Proc : "r" \notin fds[q] /\ (pc[q] = "closer" => p = q)
    /\ pc[p] = "closew" => \A q \in Proc : "w" \notin fds[q] /\ (pc[q] = "closew" => p = q)
    /\ chan[p] = "nread" => pc[p] = "read"
    /\ chan[p] = "nwrite" => pc[p] = "write"

SleepInv ==
  \A p \in Proc :
    /\ pc[p] = "readsleep" => Empty /\ writeopen
    /\ pc[p] = "writesleep" => Full /\ readopen
    /\ chan[p] = "nread" =>
         writeopen /\ (Empty \/ Kills \/ \E q \in Proc : pc[q] = "writecopy")
    /\ chan[p] = "nwrite" =>
         readopen /\ (Full \/ \E q \in Proc : pc[q] = "readcopy")

IInv == TypeOK /\ PageOwned /\ EndsOpen /\ LockInv /\ Position /\ SleepInv

\* The bytes in the ring, oldest first.  nread and nwrite wrap around.
Buffered == (nwrite - nread) % UintMod
Contents == [k \in 1..Buffered |-> data[(nread + k - 1) % PIPESIZE]]

Fifo == INSTANCE Channel WITH queue <- Contents, last <- out, Size <- PIPESIZE

\* The pipe is a bounded FIFO queue of bytes: none is lost, duplicated,
\* reordered or overwritten, also when the counters overflow.
RefinesChannel == Fifo!ChannelSpec

-----------------------------------------------------------------------------
(***************************************************************************)
(* Liveness.  A process in pipe.c that can run gets the CPU; one that      *)
(* spins for p->lock gets it if it becomes free again and again.           *)
(***************************************************************************)
Fairness ==
  \A p \in Proc :
    /\ WF_vars(Piperead(p)) /\ WF_vars(Pipewrite(p))
    /\ SF_vars(ReadEnter(p)) /\ SF_vars(WriteEnter(p)) /\ SF_vars(Pipeclose(p))
FairSpec == Spec /\ Fairness

\* End of file: once the last writer is gone, every reader returns.
EndOfFile == \A p \in Proc : pc[p] = "read" /\ ~writeopen ~> pc[p] = "user"

\* A writer whose readers are gone does not block for ever.
BrokenPipe == \A p \in Proc : pc[p] = "write" /\ ~readopen ~> pc[p] = "user"

\* What was written is there for a reader that waits: a reader does not wait
\* for ever while there are bytes in the pipe.
DataArrives == \A p \in Proc : pc[p] = "read" /\ ~Empty ~> pc[p] = "user" \/ Empty
=============================================================================
