------------------------------- MODULE MCLive -------------------------------
(* Liveness of the buffer cache and of the pipe: one of the two runs,      *)
(* under the fairness of its module; the other stays in its initial state, *)
(* where none of its fair actions is enabled.                              *)
EXTENDS Naturals

CONSTANTS Proc, NoProc,
          NBUF, Sector, NoSector, Data, Zero, DiskErrors, Outer, Crashes,
          PIPESIZE, UintMod, MaxCount, Byte

VARIABLES unit,
          sector, flags, data, idequeue, disk, cmd, ctl, bio_pc, bp, chan,
          lru, want, outer,
          allocated, pipe_lock, pipe_data, nread, nwrite, readopen, writeopen,
          fds, pc, count, out, pipe_chan, pipe_killed

cache_vars == <<sector, flags, data, idequeue, disk, cmd, ctl, bio_pc, bp, chan,
                lru, want, outer>>
pipe_vars == <<allocated, pipe_lock, pipe_data, nread, nwrite, readopen, writeopen,
               fds, pc, count, out, pipe_chan, pipe_killed>>
vars == <<unit, cache_vars, pipe_vars>>

Cache == INSTANCE Bio WITH pc <- bio_pc
Pipes == INSTANCE Pipe WITH Kills <- FALSE,
           lock <- pipe_lock, data <- pipe_data,
           chan <- pipe_chan, killed <- pipe_killed

Units == {"cache", "pipe"}
Others(u) ==
  /\ u # "cache" => UNCHANGED cache_vars
  /\ u # "pipe" => UNCHANGED pipe_vars
  /\ UNCHANGED unit

Init == unit \in Units /\ Cache!Init /\ Pipes!Init

Next == \/ unit = "cache" /\ Cache!Next /\ Others("cache")
        \/ unit = "pipe" /\ Pipes!Next /\ Others("pipe")

FairSpec == /\ Init /\ [][Next]_vars
            /\ Cache!Fairness /\ Pipes!Fairness

\* iderw: every request is served and its caller goes on, whoever else queues
\* requests and however often kill() wakes it too early.
IoCompletes == Cache!IoCompletes

\* piperead, pipewrite: a reader does not wait when there are bytes or no
\* writer is left, a writer does not when no reader is left.
PipeReturns == Pipes!EndOfFile /\ Pipes!BrokenPipe /\ Pipes!DataArrives
=============================================================================
