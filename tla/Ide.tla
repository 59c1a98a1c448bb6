-------------------------------- MODULE Ide ---------------------------------
(***************************************************************************)
(* The disk driver of xv6 (kernel/ide.c) and the IDE controller it drives. *)
(*                                                                         *)
(* A process in iderw appends its buffer to idequeue and sleeps on the     *)
(* buffer; the head of the queue is the request the controller works on.   *)
(* The interrupt handler takes the head off, wakes the sleepers and starts *)
(* the next request.  Each action is one critical section of idelock.      *)
(* There is one disk, so a sector number stands for the pair (dev, sector).*)
(***************************************************************************)
EXTENDS Naturals, Sequences, FiniteSets

CONSTANTS Proc,        \* the processes that use the disk
          NBUF,        \* size of bcache.buf
          Sector,      \* the sectors of the disk
          NoSector,    \* what an unused buffer caches (dev = -1)
          Data,        \* the contents a sector can have
          Zero,        \* the contents of a buffer nobody has filled yet
          DiskErrors   \* whether the disk may fail a command

Buf == 1..NBUF         \* indices of bcache.buf; 0 is the null pointer
Flag == {"B_BUSY", "B_VALID", "B_DIRTY"}

ASSUME IdeAssumption ==
  /\ NBUF \in Nat \ {0}
  /\ NoSector \notin Sector
  /\ Zero \in Data
  /\ DiskErrors \in BOOLEAN

VARIABLES
  sector, flags, data,  \* struct buf
  idequeue,             \* the queue threaded through qnext
  disk,                 \* the contents of the sectors
  cmd,                  \* the command the controller works on
  ctl,                  \* the controller: "idle", "busy", "done" or "error"
  pc,                   \* per process: where it is in bio.c and ide.c
  bp,                   \* per process: the buffer it works on, or 0
  chan                  \* per process: the buffer it sleeps on, 0 when awake

disk_vars == <<disk, cmd, ctl>>

Cmd == [op : {"read", "write"}, sector : Sector \cup {NoSector}, data : Data]
NoCmd == [op |-> "read", sector |-> NoSector, data |-> Zero]

\* wakeup(b): also wakes the processes that sleep on b in bget.
Wakeup(b) == chan' = [p \in Proc |-> IF chan[p] = b THEN 0 ELSE chan[p]]

\* sleep(b, lk): lk is released only when p can be woken.
Sleep(p, b) == chan' = [chan EXCEPT ![p] = b]

\* (b->flags & (B_VALID|B_DIRTY)) == B_VALID
Synced(b) == "B_VALID" \in flags[b] /\ "B_DIRTY" \notin flags[b]

\* The request for b, as idestart programs it: a write carries the data.
Request(b) == [op |-> IF "B_DIRTY" \in flags[b] THEN "write" ELSE "read",
               sector |-> sector[b], data |-> data[b]]

\* idestart(b): idewait(0) spins until the controller is not busy.
Idestart(b) == ctl # "busy" /\ ctl' = "busy" /\ cmd' = Request(b)

-----------------------------------------------------------------------------
(* The controller                                                          *)

\* A read leaves the data with the controller until the driver fetches it;
\* a write is on the disk when the command completes.
DiskDone ==
  /\ ctl = "busy"
  /\ ctl' = "done"
  /\ disk' = IF cmd.op = "write" THEN [disk EXCEPT ![cmd.sector] = cmd.data] ELSE disk
  /\ UNCHANGED <<sector, flags, data, idequeue, cmd, pc, bp, chan>>

DiskFails ==
  /\ DiskErrors /\ ctl = "busy"
  /\ ctl' = "error"
  /\ UNCHANGED <<sector, flags, data, idequeue, disk, cmd, pc, bp, chan>>

-----------------------------------------------------------------------------
(* The driver                                                              *)

\* iderw up to its first sleep: queue the buffer, start an idle disk.
IderwQueue(p) ==
  /\ pc[p] = "iderw"
  /\ idequeue' = Append(idequeue, bp[p])
  /\ IF idequeue = <<>> THEN Idestart(bp[p]) ELSE UNCHANGED <<ctl, cmd>>
  /\ Sleep(p, bp[p])
  /\ pc' = [pc EXCEPT ![p] = "io"]
  /\ UNCHANGED <<sector, flags, data, disk, bp>>

\* Mutant: the loop of iderw is an if: any wakeup ends it.
IderwReturn_NoRecheck(p) ==
  /\ pc[p] = "io" /\ chan[p] = 0
  /\ pc' = [pc EXCEPT ![p] = "run"]
  /\ UNCHANGED <<sector, flags, data, idequeue, disk_vars, bp, chan>>

\* iderw's loop after a wakeup: return when the request is done, else sleep on.
IderwReturn(p) ==
  /\ pc[p] = "io" /\ chan[p] = 0
  /\ IF Synced(bp[p])
     THEN pc' = [pc EXCEPT ![p] = "run"] /\ UNCHANGED chan
     ELSE Sleep(p, bp[p]) /\ UNCHANGED pc
  /\ UNCHANGED <<sector, flags, data, idequeue, disk_vars, bp>>

\* Mutant: the handler forgets to start the next request.
Ideintr_NoStart ==
  /\ ctl \in {"done", "error"} /\ idequeue # <<>>
  /\ LET b == Head(idequeue) IN
       /\ idequeue' = Tail(idequeue)
       /\ data' = IF "B_DIRTY" \notin flags[b] /\ ctl = "done"
                  THEN [data EXCEPT ![b] = disk[cmd.sector]] ELSE data
       /\ flags' = [flags EXCEPT ![b] = (@ \cup {"B_VALID"}) \ {"B_DIRTY"}]
       /\ Wakeup(b)
  /\ ctl' = "idle" /\ cmd' = NoCmd
  /\ UNCHANGED <<sector, disk, pc, bp>>

\* ideintr: complete the head of the queue and start the next request.
Ideintr ==
  /\ ctl \in {"done", "error"} /\ idequeue # <<>>
  /\ LET b == Head(idequeue) IN
       /\ idequeue' = Tail(idequeue)
       /\ data' = IF "B_DIRTY" \notin flags[b] /\ ctl = "done"
                  THEN [data EXCEPT ![b] = disk[cmd.sector]] ELSE data
       /\ flags' = [flags EXCEPT ![b] = (@ \cup {"B_VALID"}) \ {"B_DIRTY"}]
       /\ Wakeup(b)
       /\ IF Tail(idequeue) = <<>> THEN ctl' = "idle" /\ cmd' = NoCmd
          ELSE Idestart(Head(Tail(idequeue)))
  /\ UNCHANGED <<sector, disk, pc, bp>>
=============================================================================
