----------------------------- MODULE BlockStore -----------------------------
(***************************************************************************)
(* What the buffer cache promises the file system (kernel/bio.c, lines     *)
(* 3-14): a disk of atomic blocks.  A process opens a session on a block,  *)
(* alone; it sees the block's current contents; a write is on the disk     *)
(* when bwrite returns; a crash ends the sessions and keeps the disk.      *)
(***************************************************************************)
CONSTANTS Proc, Sector, Data

VARIABLES content,   \* per block: what is on the disk
          sessions   \* the sessions: who, on which block, with which view

store_vars == <<content, sessions>>

Session == [proc : Proc, sector : Sector, view : Data,
            phase : {"held", "writing", "written"}]

StoreInit == content \in [Sector -> Data] /\ sessions = {}

\* bread returns: nobody else has the block, the view is its contents.
Acquire(p, s) ==
  /\ \A x \in sessions : x.sector # s
  /\ sessions' = sessions \cup
       {[proc |-> p, sector |-> s, view |-> content[s], phase |-> "held"]}
  /\ UNCHANGED content

BeginWrite(x, v) ==
  /\ x.phase = "held"
  /\ sessions' = (sessions \ {x}) \cup
       {[proc |-> x.proc, sector |-> x.sector, view |-> v, phase |-> "writing"]}
  /\ UNCHANGED content

\* The block reaches the disk as a whole.
Commit(x) ==
  /\ x.phase = "writing"
  /\ content' = [content EXCEPT ![x.sector] = x.view]
  /\ sessions' = (sessions \ {x}) \cup {[x EXCEPT !.phase = "written"]}

EndWrite(x) ==
  /\ x.phase = "written"
  /\ sessions' = (sessions \ {x}) \cup {[x EXCEPT !.phase = "held"]}
  /\ UNCHANGED content

Release(x) ==
  /\ x.phase = "held"
  /\ sessions' = sessions \ {x}
  /\ UNCHANGED content

PowerLoss == sessions' = {} /\ UNCHANGED content

StoreNext ==
  \/ \E p \in Proc, s \in Sector : Acquire(p, s)
  \/ \E x \in sessions : \/ \E v \in Data : BeginWrite(x, v)
                         \/ Commit(x) \/ EndWrite(x) \/ Release(x)
  \/ PowerLoss

StoreSpec == StoreInit /\ [][StoreNext]_store_vars
=============================================================================
