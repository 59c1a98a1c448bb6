----------------------------- MODULE PipeProofs -----------------------------
(***************************************************************************)
(* The invariants of Pipe hold for any number of processes, any ring and   *)
(* any width of the counters: each action preserves IInv.  The ring is a   *)
(* bounded FIFO queue: Pipe implements Channel.                            *)
(***************************************************************************)
EXTENDS Pipe, TLAPS

\* Types, pointwise.
LEMMA Types ==
  ASSUME IInv
  PROVE  /\ fds \in [Proc -> SUBSET End] /\ pc \in [Proc -> PC]
         /\ count \in [Proc -> 0..MaxCount]
         /\ chan \in [Proc -> {"", "nread", "nwrite"}] /\ killed \in [Proc -> {FALSE, Kills}]
         /\ readopen \in BOOLEAN /\ writeopen \in BOOLEAN /\ allocated \in BOOLEAN
  BY Zenon DEF IInv, TypeOK

\* The ends, the bytes of the counters and the assumptions on the constants.
LEMMA Basics ==
  /\ \A x \in Int : x % UintMod \in 0..UintMod - 1
  /\ \A x \in Int : x % PIPESIZE \in 0..PIPESIZE - 1
  /\ UintMod \in Nat /\ PIPESIZE \in Nat /\ MaxCount \in Nat /\ NoProc \notin Proc
  BY PipeAssumption

\* sys_pipe makes a pipe.
LEMMA PipeallocInv ==
  ASSUME IInv, NEW p \in Proc, Pipealloc(p)
  PROVE  IInv'
<1>1. /\ pc[p] = "user" /\ ~allocated /\ allocated' /\ readopen' /\ writeopen'
      /\ fds'[p] = End /\ \A q \in Proc \ {p} : fds'[q] = fds[q]
      /\ UNCHANGED <<lock, pc, chan>>
  BY Types, Zenon DEF Pipealloc, Runs, ring, ends
<1>2. TypeOK'
  <2>1. 0 \in 0..UintMod - 1
    BY PipeAssumption
  <2>. QED  BY <2>1, Zenon DEF IInv, TypeOK, End, Pipealloc
<1>3. PageOwned'
  BY <1>1, Types, Zenon DEF IInv, PageOwned, EndsOpen, Position, PC, End
<1>4. EndsOpen'
  BY <1>1, Types, Zenon DEF IInv, EndsOpen, PageOwned, Position, End
<1>5. LockInv'
  BY <1>1, PipeAssumption, Zenon DEF IInv, LockInv, Holding
<1>6. Position'
  BY <1>1, Zenon DEF IInv, Position, EndsOpen, PageOwned, LockInv, Holding, End
<1>7. SleepInv'
  <2>1. \A q \in Proc : pc[q] = "user" /\ chan[q] \notin {"nread", "nwrite"}
    BY <1>1, Zenon DEF IInv, PageOwned, Position
  <2>. QED  BY <1>1, <2>1, Zenon DEF SleepInv
<1>. QED  BY <1>2, <1>3, <1>4, <1>5, <1>6, <1>7, Zenon DEF IInv

\* fork copies the descriptors.
LEMMA ForkInv ==
  ASSUME IInv, NEW p \in Proc, NEW q \in Proc, Fork(p, q)
  PROVE  IInv'
<1>1. /\ pc[q] = "user" /\ fds[q] = {} /\ pc[p] = "user"
      /\ fds'[q] = fds[p] /\ \A x \in Proc \ {q} : fds'[x] = fds[x]
      /\ UNCHANGED <<allocated, readopen, writeopen, lock, pc, chan>> /\ UNCHANGED <<nread, nwrite>>
  BY Types, Zenon DEF Fork, Runs, ring, ends
<1>2. TypeOK'
  BY Basics, Zenon DEF IInv, TypeOK, PC, End, Fork, Runs, ring, ends
<1>3. PageOwned'
  BY <1>1, Types DEF IInv, PageOwned, EndsOpen, Position, PC, End
<1>4. EndsOpen'
  BY <1>1, Zenon DEF IInv, EndsOpen
<1>5. LockInv'
  BY <1>1, PipeAssumption, Zenon DEF IInv, LockInv, Holding
<1>6. Position'
  BY <1>1 DEF IInv, Position, EndsOpen, PageOwned, LockInv, Holding, End
<1>7. SleepInv'
  BY <1>1 DEF IInv, SleepInv, LockInv, Holding, Empty, Full, Position, EndsOpen
<1>. QED  BY <1>2, <1>3, <1>4, <1>5, <1>6, <1>7, Zenon DEF IInv

\* kill wakes the process it marks.
LEMMA KillInv ==
  ASSUME IInv, NEW p \in Proc, Kill(p)
  PROVE  IInv'
<1>1. /\ chan'[p] = "" /\ \A q \in Proc \ {p} : chan'[q] = chan[q]
      /\ UNCHANGED <<allocated, readopen, writeopen, fds>> /\ UNCHANGED <<nread, nwrite>> /\ UNCHANGED <<lock, pc>>
  BY Types, Zenon DEF Kill, ring, ends
<1>2. TypeOK'
  BY Basics, Zenon DEF IInv, TypeOK, PC, End, Kill, ring, ends
<1>3. PageOwned'
  BY <1>1, Zenon DEF IInv, PageOwned
<1>4. EndsOpen'
  BY <1>1, Zenon DEF IInv, EndsOpen
<1>5. LockInv'
  BY <1>1, PipeAssumption, Zenon DEF IInv, LockInv, Holding
<1>6. Position'
  BY <1>1, Zenon DEF IInv, Position
<1>7. SleepInv'
  BY <1>1, Zenon DEF IInv, SleepInv, LockInv, Holding, Empty, Full
<1>. QED  BY <1>2, <1>3, <1>4, <1>5, <1>6, <1>7, Zenon DEF IInv

\* close, which calls pipeclose with the last descriptor of an end.
LEMMA CloseInv ==
  ASSUME IInv, NEW p \in Proc, NEW e \in End, Close(p, e)
  PROVE  IInv'
<1>1. /\ pc[p] = "user" /\ e \in fds[p]
      /\ fds'[p] = fds[p] \ {e} /\ \A q \in Proc \ {p} : fds'[q] = fds[q]
      /\ IF \E q \in Proc \ {p} : e \in fds[q] THEN pc'[p] = "user" ELSE pc'[p] = (IF e = "r" THEN "closer" ELSE "closew")
      /\ \A q \in Proc \ {p} : pc'[q] = pc[q]
      /\ UNCHANGED <<allocated, readopen, writeopen, lock, chan>> /\ UNCHANGED <<nread, nwrite>>
  BY Types, Zenon DEF Close, Goto, ring, ends
<1>2. TypeOK'
  BY Basics, Zenon DEF IInv, TypeOK, PC, End, Close, Goto, ring, ends
<1>3. PageOwned'
  BY <1>1, Types DEF IInv, PageOwned, EndsOpen, Position, PC, End
<1>4. EndsOpen'
  <2>1. CASE e = "r"
    BY <1>1, <2>1, Zenon DEF IInv, EndsOpen
  <2>2. CASE e = "w"
    BY <1>1, <2>2, Zenon DEF IInv, EndsOpen
  <2>. QED  BY <2>1, <2>2, Zenon DEF End
<1>5. LockInv'
  BY <1>1, PipeAssumption, Zenon DEF IInv, LockInv, Holding
<1>6. Position'
  BY <1>1 DEF IInv, Position, EndsOpen, PageOwned, LockInv, Holding, End
<1>7. SleepInv'
  BY <1>1 DEF IInv, SleepInv, LockInv, Holding, Empty, Full, Position, EndsOpen
<1>. QED  BY <1>2, <1>3, <1>4, <1>5, <1>6, <1>7, Zenon DEF IInv

\* pipeclose of the read end.
LEMMA PipecloseReadInv ==
  ASSUME IInv, NEW p \in Proc, PipecloseRead(p)
  PROVE  IInv'
<1>1. /\ pc[p] = "closer" /\ lock = NoProc
      /\ readopen' = FALSE /\ allocated' = writeopen
      /\ pc'[p] = "user"
      /\ \A q \in Proc \ {p} : pc'[q] = pc[q]
      /\ \A q \in Proc : chan'[q] = IF chan[q] = "nwrite" THEN "" ELSE chan[q]
      /\ UNCHANGED <<fds, writeopen, lock>> /\ UNCHANGED <<nread, nwrite>>
  BY Types, Zenon DEF PipecloseRead, Goto, Wakeup, ring, ends
<1>2. TypeOK'
  BY Basics, Zenon DEF IInv, TypeOK, PC, End, PipecloseRead, Goto, Wakeup, ring, ends
<1>0. \A q \in Proc : /\ "r" \notin fds[q] /\ (pc[q] = "closer" => q = p)
                      /\ pc[q] \notin {"read", "readsleep", "readcopy"}
                      /\ chan[q] # "nread" /\ fds[q] \subseteq End
  BY <1>1, Types, Zenon DEF IInv, Position
<1>3. PageOwned'
  <2>0. \A q \in Proc : /\ fds'[q] # {} <=> "w" \in fds[q]
                        /\ pc'[q] \in {"closer", "closew"} <=> pc[q] = "closew"
    BY <1>0, <1>1 DEF End
  <2>1. writeopen <=> \E q \in Proc : fds'[q] # {} \/ pc'[q] \in {"closer", "closew"}
    BY <2>0, Zenon DEF IInv, EndsOpen
  <2>2. ASSUME NEW q \in Proc, pc'[q] # "user" PROVE writeopen
    <3>1. q # p /\ pc[q] \in {"write", "writesleep", "writecopy", "closew"}
      BY <1>0, <1>1, <2>2, Types, Zenon DEF PC
    <3>. QED  BY <3>1, Zenon DEF IInv, EndsOpen, Position
  <2>. QED  BY <1>1, <2>1, <2>2, Zenon DEF PageOwned
<1>4. EndsOpen'
  BY <1>0, <1>1, Zenon DEF IInv, EndsOpen
<1>5. LockInv'
  BY <1>1, PipeAssumption, Zenon DEF IInv, LockInv, Holding
<1>6. Position'
  BY <1>0, <1>1 DEF IInv, Position
<1>7. SleepInv'
  <2>1. \A q \in Proc : pc[q] \notin Holding
    BY <1>1, PipeAssumption, Zenon DEF IInv, LockInv
  <2>. QED  BY <1>0, <1>1, <2>1, Zenon DEF IInv, SleepInv, Empty, Full, Holding
<1>. QED  BY <1>2, <1>3, <1>4, <1>5, <1>6, <1>7, Zenon DEF IInv

\* pipeclose of the write end.
LEMMA PipecloseWriteInv ==
  ASSUME IInv, NEW p \in Proc, PipecloseWrite(p)
  PROVE  IInv'
<1>1. /\ pc[p] = "closew" /\ lock = NoProc
      /\ writeopen' = FALSE /\ allocated' = readopen
      /\ pc'[p] = "user"
      /\ \A q \in Proc \ {p} : pc'[q] = pc[q]
      /\ \A q \in Proc : chan'[q] = IF chan[q] = "nread" THEN "" ELSE chan[q]
      /\ UNCHANGED <<fds, readopen, lock>> /\ UNCHANGED <<nread, nwrite>>
  BY Types, Zenon DEF PipecloseWrite, Goto, Wakeup, ring, ends
<1>2. TypeOK'
  BY Basics, Zenon DEF IInv, TypeOK, PC, End, PipecloseWrite, Goto, Wakeup, ring, ends
<1>0. \A q \in Proc : /\ "w" \notin fds[q] /\ (pc[q] = "closew" => q = p)
                      /\ pc[q] \notin {"write", "writesleep", "writecopy"}
                      /\ chan[q] # "nwrite" /\ fds[q] \subseteq End
  BY <1>1, Types DEF IInv, Position
<1>3. PageOwned'
  <2>0. \A q \in Proc : /\ fds'[q] # {} <=> "r" \in fds[q]
                        /\ pc'[q] \in {"closer", "closew"} <=> pc[q] = "closer"
    BY <1>0, <1>1 DEF End
  <2>1. readopen <=> \E q \in Proc : fds'[q] # {} \/ pc'[q] \in {"closer", "closew"}
    BY <2>0, Zenon DEF IInv, EndsOpen
  <2>2. ASSUME NEW q \in Proc, pc'[q] # "user" PROVE readopen
    <3>1. q # p /\ pc[q] \in {"read", "readsleep", "readcopy", "closer"}
      BY <1>0, <1>1, <2>2, Types DEF PC
    <3>. QED  BY <3>1, Zenon DEF IInv, EndsOpen, Position
  <2>. QED  BY <1>1, <2>1, <2>2, Zenon DEF PageOwned
<1>4. EndsOpen'
  BY <1>0, <1>1, Zenon DEF IInv, EndsOpen
<1>5. LockInv'
  BY <1>1, PipeAssumption, Zenon DEF IInv, LockInv, Holding
<1>6. Position'
  BY <1>0, <1>1 DEF IInv, Position
<1>7. SleepInv'
  <2>1. \A q \in Proc : pc[q] \notin Holding
    BY <1>1, PipeAssumption, Zenon DEF IInv, LockInv
  <2>. QED  BY <1>0, <1>1, <2>1, Zenon DEF IInv, SleepInv, Empty, Full, Holding
<1>. QED  BY <1>2, <1>3, <1>4, <1>5, <1>6, <1>7, Zenon DEF IInv

\* read enters piperead.
LEMMA ReadInv ==
  ASSUME IInv, NEW p \in Proc, NEW n \in 0..MaxCount, Read(p, n)
  PROVE  IInv'
<1>1. /\ pc[p] = "user" /\ "r" \in fds[p]
      /\ pc'[p] = "read"
      /\ \A q \in Proc \ {p} : pc'[q] = pc[q]
      /\ UNCHANGED <<allocated, readopen, writeopen, fds>> /\ UNCHANGED <<nread, nwrite>> /\ UNCHANGED <<lock, chan>>
  BY Types, Zenon DEF Read, Goto, Runs, ring, ends
<1>2. TypeOK'
  BY Basics, Zenon DEF IInv, TypeOK, PC, End, Read, Goto, Runs, ring, ends
<1>3. PageOwned'
  BY <1>1, Zenon DEF IInv, PageOwned
<1>4. EndsOpen'
  BY <1>1, Zenon DEF IInv, EndsOpen
<1>5. LockInv'
  BY <1>1, PipeAssumption, Zenon DEF IInv, LockInv, Holding
<1>6. Position'
  BY <1>1 DEF IInv, Position
<1>7. SleepInv'
  BY <1>1 DEF IInv, SleepInv, LockInv, Holding, Empty, Full, Position
<1>. QED  BY <1>2, <1>3, <1>4, <1>5, <1>6, <1>7, Zenon DEF IInv

\* write enters pipewrite.
LEMMA WriteInv ==
  ASSUME IInv, NEW p \in Proc, NEW n \in 0..MaxCount, Write(p, n)
  PROVE  IInv'
<1>1. /\ pc[p] = "user" /\ "w" \in fds[p]
      /\ pc'[p] = "write"
      /\ \A q \in Proc \ {p} : pc'[q] = pc[q]
      /\ UNCHANGED <<allocated, readopen, writeopen, fds>> /\ UNCHANGED <<nread, nwrite>> /\ UNCHANGED <<lock, chan>>
  BY Types, Zenon DEF Write, Goto, Runs, ring, ends
<1>2. TypeOK'
  BY Basics, Zenon DEF IInv, TypeOK, PC, End, Write, Goto, Runs, ring, ends
<1>3. PageOwned'
  BY <1>1, Zenon DEF IInv, PageOwned
<1>4. EndsOpen'
  BY <1>1, Zenon DEF IInv, EndsOpen
<1>5. LockInv'
  BY <1>1, PipeAssumption, Zenon DEF IInv, LockInv, Holding
<1>6. Position'
  BY <1>1 DEF IInv, Position
<1>7. SleepInv'
  BY <1>1 DEF IInv, SleepInv, LockInv, Holding, Empty, Full, Position
<1>. QED  BY <1>2, <1>3, <1>4, <1>5, <1>6, <1>7, Zenon DEF IInv

\* piperead looks at the ring.
LEMMA ReadEnterInv ==
  ASSUME IInv, NEW p \in Proc, ReadEnter(p)
  PROVE  IInv'
<1>1. /\ pc[p] = "read" /\ chan[p] = "" /\ lock = NoProc
      /\ \A q \in Proc \ {p} : pc'[q] = pc[q]
      /\ UNCHANGED <<allocated, readopen, writeopen, fds, nread, nwrite, chan>>
  BY Types, Zenon DEF ReadEnter, Goto, ring, ends
<1>8. \/ pc'[p] = "user" /\ lock' = lock
      \/ Empty /\ writeopen /\ pc'[p] = "readsleep" /\ lock' = p
      \/ pc'[p] = "readcopy" /\ lock' = p
  BY Types, Zenon DEF ReadEnter, Goto
<1>2. TypeOK'
  BY Basics, Zenon DEF IInv, TypeOK, PC, End, ReadEnter, Goto, ring, ends
<1>3. PageOwned'
  BY <1>1, <1>8, Zenon DEF IInv, PageOwned
<1>4. EndsOpen'
  BY <1>1, <1>8, Zenon DEF IInv, EndsOpen
<1>5. LockInv'
  <2>1. \A q \in Proc : pc[q] \notin Holding /\ lock # q
    BY <1>1, PipeAssumption, Zenon DEF IInv, LockInv
  <2>. QED  BY <1>1, <1>8, <2>1, PipeAssumption, Zenon DEF LockInv, Holding
<1>6. Position'
  BY <1>1, <1>8 DEF IInv, Position
<1>7. SleepInv'
  BY <1>1, <1>8, Zenon DEF IInv, SleepInv, LockInv, Holding, Empty, Full
<1>. QED  BY <1>2, <1>3, <1>4, <1>5, <1>6, <1>7, Zenon DEF IInv

\* piperead goes to sleep.
LEMMA ReadSleepInv ==
  ASSUME IInv, NEW p \in Proc, ReadSleep(p)
  PROVE  IInv'
<1>1. /\ pc[p] = "readsleep"
      /\ pc'[p] = "read"
      /\ \A q \in Proc \ {p} : pc'[q] = pc[q]
      /\ lock' = NoProc
      /\ chan'[p] = "nread" /\ \A q \in Proc \ {p} : chan'[q] = chan[q]
      /\ UNCHANGED <<allocated, readopen, writeopen, fds>> /\ UNCHANGED <<nread, nwrite>>
  BY Types, Zenon DEF ReadSleep, Goto, ring, ends
<1>2. TypeOK'
  BY Basics, Zenon DEF IInv, TypeOK, PC, End, ReadSleep, Goto, ring, ends
<1>3. PageOwned'
  BY <1>1, Zenon DEF IInv, PageOwned
<1>4. EndsOpen'
  BY <1>1, Zenon DEF IInv, EndsOpen
<1>5. LockInv'
  BY <1>1, PipeAssumption, Zenon DEF IInv, LockInv, Holding
<1>6. Position'
  BY <1>1 DEF IInv, Position
<1>7. SleepInv'
  BY <1>1 DEF IInv, SleepInv, LockInv, Holding, Empty, Full, Position
<1>. QED  BY <1>2, <1>3, <1>4, <1>5, <1>6, <1>7, Zenon DEF IInv

\* piperead copies a byte.
LEMMA ReadByteInv ==
  ASSUME IInv, NEW p \in Proc, ReadByte(p)
  PROVE  IInv'
<1>1. /\ pc[p] = "readcopy"
      /\ UNCHANGED <<allocated, readopen, writeopen, fds>> /\ UNCHANGED <<lock, pc, chan, nwrite>>
  BY Types, Zenon DEF ReadByte, ring, ends
<1>2. TypeOK'
  <2>1. nread \in Int /\ nread + 1 \in Int
    <3>1. nread \in 0..UintMod - 1
      BY Zenon DEF IInv, TypeOK
    <3>. QED  BY <3>1, PipeAssumption
  <2>2. nread' \in 0..UintMod - 1
    BY <2>1, Basics, Zenon DEF ReadByte
  <2>3. data[nread % PIPESIZE] \in Byte
    BY <2>1, Basics, Zenon DEF IInv, TypeOK
  <2>4. count' \in [Proc -> 0..MaxCount]
    <3>1. count[p] \in 0..MaxCount /\ count[p] > 0
      BY Types, Zenon DEF ReadByte
    <3>2. count[p] - 1 \in 0..MaxCount
      BY <3>1, PipeAssumption
    <3>. QED  BY <3>2, Types, Zenon DEF ReadByte
  <2>. QED  BY <2>2, <2>3, <2>4, Zenon DEF IInv, TypeOK, ReadByte, ends
<1>3. PageOwned'
  BY <1>1, Zenon DEF IInv, PageOwned
<1>4. EndsOpen'
  BY <1>1, Zenon DEF IInv, EndsOpen
<1>5. LockInv'
  BY <1>1, PipeAssumption, Zenon DEF IInv, LockInv, Holding
<1>6. Position'
  BY <1>1, Zenon DEF IInv, Position
<1>7. SleepInv'
  <2>1. \A q \in Proc : pc[q] \in Holding => q = p
    BY <1>1, Zenon DEF IInv, LockInv, Holding
  <2>2. ~Empty
    BY Zenon DEF ReadByte
  <2>. QED  BY <1>1, <2>1, <2>2, Zenon DEF IInv, SleepInv, Holding
<1>. QED  BY <1>2, <1>3, <1>4, <1>5, <1>6, <1>7, Zenon DEF IInv

\* piperead returns.
LEMMA ReadDoneInv ==
  ASSUME IInv, NEW p \in Proc, ReadDone(p)
  PROVE  IInv'
<1>1. /\ pc[p] = "readcopy"
      /\ pc'[p] = "user"
      /\ \A q \in Proc \ {p} : pc'[q] = pc[q]
      /\ lock' = NoProc
      /\ \A q \in Proc : chan'[q] = IF chan[q] = "nwrite" THEN "" ELSE chan[q]
      /\ UNCHANGED <<allocated, readopen, writeopen, fds>> /\ UNCHANGED <<nread, nwrite>>
  BY Types, Zenon DEF ReadDone, Goto, Wakeup, ring, ends
<1>2. TypeOK'
  <2>1. chan' \in [Proc -> {"", "nread", "nwrite"}]
    BY Types, Zenon DEF ReadDone, Wakeup
  <2>2. pc' \in [Proc -> PC]
    BY Types, Zenon DEF ReadDone, Goto, PC
  <2>3. count' \in [Proc -> 0..MaxCount]
    <3>1. 0 \in 0..MaxCount
      BY PipeAssumption
    <3>. QED  BY <3>1, Types, Zenon DEF ReadDone
  <2>. QED  BY <2>1, <2>2, <2>3, PipeAssumption, Zenon DEF IInv, TypeOK, ReadDone, ring, ends
<1>3. PageOwned'
  BY <1>1, Zenon DEF IInv, PageOwned
<1>4. EndsOpen'
  BY <1>1, Zenon DEF IInv, EndsOpen
<1>5. LockInv'
  BY <1>1, PipeAssumption, Zenon DEF IInv, LockInv, Holding
<1>6. Position'
  BY <1>1 DEF IInv, Position
<1>7. SleepInv'
  BY <1>1, Zenon DEF IInv, SleepInv, LockInv, Holding, Empty, Full
<1>. QED  BY <1>2, <1>3, <1>4, <1>5, <1>6, <1>7, Zenon DEF IInv

\* pipewrite takes the lock.
LEMMA WriteEnterInv ==
  ASSUME IInv, NEW p \in Proc, WriteEnter(p)
  PROVE  IInv'
<1>1. /\ pc[p] = "write" /\ lock = NoProc
      /\ pc'[p] = "writecopy"
      /\ \A q \in Proc \ {p} : pc'[q] = pc[q]
      /\ lock' = p
      /\ UNCHANGED <<allocated, readopen, writeopen, fds>> /\ UNCHANGED <<nread, nwrite>> /\ UNCHANGED chan
  BY Types, Zenon DEF WriteEnter, Goto, ring, ends
<1>2. TypeOK'
  BY Basics, Zenon DEF IInv, TypeOK, PC, End, WriteEnter, Goto, ring, ends
<1>3. PageOwned'
  BY <1>1, Zenon DEF IInv, PageOwned
<1>4. EndsOpen'
  BY <1>1, Zenon DEF IInv, EndsOpen
<1>5. LockInv'
  BY <1>1, PipeAssumption, Zenon DEF IInv, LockInv, Holding
<1>6. Position'
  BY <1>1 DEF IInv, Position, WriteEnter
<1>7. SleepInv'
  BY <1>1, Zenon DEF IInv, SleepInv, LockInv, Holding, Empty, Full
<1>. QED  BY <1>2, <1>3, <1>4, <1>5, <1>6, <1>7, Zenon DEF IInv

\* pipewrite stores a byte.
LEMMA WriteByteInv ==
  ASSUME IInv, NEW p \in Proc, NEW b \in Byte, WriteByte(p, b)
  PROVE  IInv'
<1>1. /\ pc[p] = "writecopy" /\ ~Full
      /\ UNCHANGED <<allocated, readopen, writeopen, fds>> /\ UNCHANGED <<lock, pc, chan, nread>>
  BY Types, Zenon DEF WriteByte, ring, ends
<1>2. TypeOK'
  <2>1. nwrite \in Int /\ nwrite + 1 \in Int
    <3>1. nwrite \in 0..UintMod - 1
      BY Zenon DEF IInv, TypeOK
    <3>. QED  BY <3>1, PipeAssumption
  <2>2. nwrite' \in 0..UintMod - 1
    BY <2>1, Basics, Zenon DEF WriteByte
  <2>3. data' \in [0..PIPESIZE - 1 -> Byte]
    BY <2>1, Basics, Zenon DEF IInv, TypeOK, WriteByte
  <2>4. count' \in [Proc -> 0..MaxCount]
    <3>1. count[p] \in 0..MaxCount /\ count[p] > 0
      BY Types, Zenon DEF WriteByte
    <3>2. count[p] - 1 \in 0..MaxCount
      BY <3>1, PipeAssumption
    <3>. QED  BY <3>2, Types, Zenon DEF WriteByte
  <2>. QED  BY <2>2, <2>3, <2>4, Zenon DEF IInv, TypeOK, WriteByte, ends
<1>3. PageOwned'
  BY <1>1, Zenon DEF IInv, PageOwned
<1>4. EndsOpen'
  BY <1>1, Zenon DEF IInv, EndsOpen
<1>5. LockInv'
  BY <1>1, PipeAssumption, Zenon DEF IInv, LockInv, Holding
<1>6. Position'
  BY <1>1, Zenon DEF IInv, Position
<1>7. SleepInv'
  BY <1>1, Zenon DEF IInv, SleepInv, LockInv, Holding, Empty, Full
<1>. QED  BY <1>2, <1>3, <1>4, <1>5, <1>6, <1>7, Zenon DEF IInv

\* pipewrite finds the ring full.
LEMMA WriteFullInv ==
  ASSUME IInv, NEW p \in Proc, WriteFull(p)
  PROVE  IInv'
<1>1. /\ pc[p] = "writecopy" /\ Full
      /\ \A q \in Proc \ {p} : pc'[q] = pc[q]
      /\ UNCHANGED <<allocated, readopen, writeopen, fds, nread, nwrite>>
  BY Types, Zenon DEF WriteFull, Goto, ring, ends
<1>8. \/ pc'[p] = "user" /\ lock' = NoProc /\ (~readopen \/ killed[p]) /\ chan' = chan
      \/ /\ readopen /\ pc'[p] = "writesleep" /\ lock' = lock
         /\ \A q \in Proc : chan'[q] = IF chan[q] = "nread" THEN "" ELSE chan[q]
  BY Types, Zenon DEF WriteFull, Goto, Wakeup
<1>2. TypeOK'
  <2>1. chan' \in [Proc -> {"", "nread", "nwrite"}]
    BY Types, Zenon DEF WriteFull, Wakeup
  <2>2. pc' \in [Proc -> PC]
    BY Types DEF WriteFull, Goto, PC
  <2>3. count' \in [Proc -> 0..MaxCount]
    <3>1. 0 \in 0..MaxCount
      BY PipeAssumption
    <3>. QED  BY <3>1, Types, Zenon DEF WriteFull
  <2>. QED  BY <2>1, <2>2, <2>3, PipeAssumption, Zenon DEF IInv, TypeOK, WriteFull, ring, ends
<1>3. PageOwned'
  BY <1>1, <1>8, Zenon DEF IInv, PageOwned
<1>4. EndsOpen'
  BY <1>1, <1>8, Zenon DEF IInv, EndsOpen
<1>5. LockInv'
  BY <1>1, <1>8, PipeAssumption, Zenon DEF IInv, LockInv, Holding
<1>6. Position'
  BY <1>1, <1>8 DEF IInv, Position
<1>7. SleepInv'
  <2>1. \A q \in Proc : pc[q] \in Holding => q = p
    BY <1>1, Zenon DEF IInv, LockInv, Holding
  <2>2. CASE pc'[p] = "user"
    <3>1. killed[p] => Kills
      BY Types, Zenon
    <3>2. \A q \in Proc : chan[q] = "nread" => readopen
      BY Zenon DEF IInv, Position, EndsOpen
    <3>. QED  BY <1>1, <1>8, <2>1, <2>2, <3>1, <3>2, Zenon DEF IInv, SleepInv, Holding, Empty, Full
  <2>3. CASE pc'[p] = "writesleep"
    BY <1>1, <1>8, <2>1, <2>3, Zenon DEF IInv, SleepInv, Holding, Empty, Full
  <2>. QED  BY <1>8, <2>2, <2>3, Zenon
<1>. QED  BY <1>2, <1>3, <1>4, <1>5, <1>6, <1>7, Zenon DEF IInv

\* pipewrite goes to sleep.
LEMMA WriteSleepInv ==
  ASSUME IInv, NEW p \in Proc, WriteSleep(p)
  PROVE  IInv'
<1>1. /\ pc[p] = "writesleep"
      /\ pc'[p] = "write"
      /\ \A q \in Proc \ {p} : pc'[q] = pc[q]
      /\ lock' = NoProc
      /\ chan'[p] = "nwrite" /\ \A q \in Proc \ {p} : chan'[q] = chan[q]
      /\ UNCHANGED <<allocated, readopen, writeopen, fds>> /\ UNCHANGED <<nread, nwrite>>
  BY Types, Zenon DEF WriteSleep, Goto, ring, ends
<1>2. TypeOK'
  BY Basics, Zenon DEF IInv, TypeOK, PC, End, WriteSleep, Goto, ring, ends
<1>3. PageOwned'
  BY <1>1, Zenon DEF IInv, PageOwned
<1>4. EndsOpen'
  BY <1>1, Zenon DEF IInv, EndsOpen
<1>5. LockInv'
  BY <1>1, PipeAssumption, Zenon DEF IInv, LockInv, Holding
<1>6. Position'
  BY <1>1 DEF IInv, Position
<1>7. SleepInv'
  BY <1>1 DEF IInv, SleepInv, LockInv, Holding, Empty, Full, Position
<1>. QED  BY <1>2, <1>3, <1>4, <1>5, <1>6, <1>7, Zenon DEF IInv

\* pipewrite returns.
LEMMA WriteDoneInv ==
  ASSUME IInv, NEW p \in Proc, WriteDone(p)
  PROVE  IInv'
<1>1. /\ pc[p] = "writecopy"
      /\ pc'[p] = "user"
      /\ \A q \in Proc \ {p} : pc'[q] = pc[q]
      /\ lock' = NoProc
      /\ \A q \in Proc : chan'[q] = IF chan[q] = "nread" THEN "" ELSE chan[q]
      /\ UNCHANGED <<allocated, readopen, writeopen, fds>> /\ UNCHANGED <<nread, nwrite>>
  BY Types, Zenon DEF WriteDone, Goto, Wakeup, ring, ends
<1>2. TypeOK'
  BY Basics, Zenon DEF IInv, TypeOK, PC, End, WriteDone, Goto, Wakeup, ring, ends
<1>3. PageOwned'
  BY <1>1, Zenon DEF IInv, PageOwned
<1>4. EndsOpen'
  BY <1>1, Zenon DEF IInv, EndsOpen
<1>5. LockInv'
  BY <1>1, PipeAssumption, Zenon DEF IInv, LockInv, Holding
<1>6. Position'
  BY <1>1 DEF IInv, Position
<1>7. SleepInv'
  BY <1>1, Zenon DEF IInv, SleepInv, LockInv, Holding, Empty, Full
<1>. QED  BY <1>2, <1>3, <1>4, <1>5, <1>6, <1>7, Zenon DEF IInv

\* Every step preserves IInv.
LEMMA NextInv == IInv /\ [Next]_vars => IInv'
<1>. SUFFICES ASSUME IInv, [Next]_vars PROVE IInv'
  BY Zenon
<1>1. CASE UNCHANGED vars
  BY <1>1 DEF vars, ring, ends, IInv, TypeOK, PageOwned, EndsOpen, LockInv, Position, SleepInv,
     Empty, Full
<1>2. ASSUME NEW p \in Proc, Pipealloc(p) \/ Kill(p) \/ \E q \in Proc : Fork(p, q)
      PROVE IInv'
  BY <1>2, PipeallocInv, KillInv, ForkInv, Zenon
<1>3. ASSUME NEW p \in Proc, \/ \E e \in End : Close(p, e)
                             \/ \E n \in 0..MaxCount : Read(p, n) \/ Write(p, n)
      PROVE IInv'
  BY <1>3, CloseInv, ReadInv, WriteInv, Zenon
<1>4. ASSUME NEW p \in Proc, Piperead(p) PROVE IInv'
  BY <1>4, ReadEnterInv, ReadSleepInv, ReadByteInv, ReadDoneInv, Zenon DEF Piperead
<1>5. ASSUME NEW p \in Proc, Pipewrite(p) PROVE IInv'
  BY <1>5, WriteEnterInv, WriteByteInv, WriteFullInv, WriteSleepInv, WriteDoneInv, Zenon DEF Pipewrite
<1>6. ASSUME NEW p \in Proc, Pipeclose(p) PROVE IInv'
  BY <1>6, PipecloseReadInv, PipecloseWriteInv, Zenon DEF Pipeclose
<1>. QED  BY <1>1, <1>2, <1>3, <1>4, <1>5, <1>6, Zenon DEF Next

\* IInv holds in every reachable state.
THEOREM Invariance == Spec => []IInv
<1>1. Init => IInv
  <2>. SUFFICES ASSUME Init PROVE IInv
    BY Zenon
  <2>1. TypeOK
    <3>1. 0 \in 0..UintMod - 1 /\ 0 \in 0..MaxCount
      BY PipeAssumption
    <3>. QED  BY <3>1, Zenon DEF Init, TypeOK, PC
  <2>2. PageOwned /\ EndsOpen /\ LockInv /\ Position /\ SleepInv
    BY PipeAssumption, Zenon DEF Init, PageOwned, EndsOpen, LockInv, Position, SleepInv, Holding
  <2>. QED  BY <2>1, <2>2, Zenon DEF IInv
<1>. QED  BY <1>1, NextInv, PTL DEF Spec

\* The ring, the counters and the positions keep their types: the counters
\* wrap around where a uint does.
THEOREM TypeCorrect == Spec => []TypeOK
<1>1. IInv => TypeOK
  BY Zenon DEF IInv
<1>. QED  BY <1>1, Invariance, PTL

\* pipeclose frees the page once, after the last use, whatever the order in
\* which the processes close their descriptors.
THEOREM PageSafe == Spec => []PageOwned
<1>1. IInv => PageOwned
  BY Zenon DEF IInv
<1>. QED  BY <1>1, Invariance, PTL

\* readopen and writeopen are TRUE exactly until the last close of the end.
THEOREM EndsCorrect == Spec => []EndsOpen
<1>1. IInv => EndsOpen
  BY Zenon DEF IInv
<1>. QED  BY <1>1, Invariance, PTL

\* Nobody sleeps in piperead or pipewrite when there is something to do.
THEOREM SleepersAreWoken == Spec => []NoLostWakeup
<1>1. IInv => NoLostWakeup
  BY Basics, Zenon DEF IInv, NoLostWakeup, SleepInv, LockInv, Holding
<1>. QED  BY <1>1, Invariance, PTL
-----------------------------------------------------------------------------
(* The ring is a queue.                                                    *)

\* The ring never holds more than its size.
Bounded == Buffered <= PIPESIZE

\* A function on 1..n is a sequence of length n.
LEMMA SeqLen ==
  ASSUME NEW S, NEW n \in Nat, NEW f \in [1..n -> S]
  PROVE  f \in Seq(S) /\ Len(f) = n
  OBVIOUS

\* What Append does, element by element.
LEMMA AppendIs ==
  ASSUME NEW s \in Seq(Byte), NEW t \in Seq(Byte), NEW b \in Byte, Len(t) = Len(s) + 1,
         \A i \in 1..Len(s) : t[i] = s[i], t[Len(s) + 1] = b
  PROVE  t = Append(s, b)
  OBVIOUS

\* What Tail does, element by element.
LEMMA TailIs ==
  ASSUME NEW s \in Seq(Byte), NEW t \in Seq(Byte), s # <<>>, Len(s) = Len(t) + 1,
         \A i \in 1..Len(t) : t[i] = s[i + 1]
  PROVE  t = Tail(s)
  OBVIOUS

\* Counting one on in a uint.
LEMMA Wrap ==
  ASSUME NEW r \in 0..UintMod - 1
  PROVE  (r + 1) % UintMod = IF r + 1 = UintMod THEN 0 ELSE r + 1
  BY PipeAssumption

\* The distance of two values of a uint.
LEMMA Diff ==
  ASSUME NEW r \in 0..UintMod - 1, NEW w \in 0..UintMod - 1
  PROVE  (w - r) % UintMod = IF w >= r THEN w - r ELSE w - r + UintMod
  BY PipeAssumption

\* The remainder of a sum with a multiple.
LEMMA Multiple ==
  ASSUME NEW k \in Nat, NEW m \in 0..PIPESIZE - 1
  PROVE  (k * PIPESIZE + m) % PIPESIZE = m
  BY PipeAssumption

\* The ring size divides the number of values of a uint, so that the place of
\* a byte in the ring does not change when a counter wraps around.
LEMMA Fold ==
  ASSUME NEW x \in Nat
  PROVE  (x + UintMod) % PIPESIZE = x % PIPESIZE
<1>1. PICK c \in Nat : UintMod = c * PIPESIZE
  BY PipeAssumption
<1>2. PICK q \in Nat, m \in 0..PIPESIZE - 1 : x = q * PIPESIZE + m
  <2>1. PICK q \in Nat : q * PIPESIZE <= x /\ x < q * PIPESIZE + PIPESIZE
    <3>1. x \div PIPESIZE \in Nat /\ (x \div PIPESIZE) * PIPESIZE <= x
          /\ x < (x \div PIPESIZE) * PIPESIZE + PIPESIZE
      BY PipeAssumption
    <3>. QED  BY <3>1, Zenon
  <2>2. x - q * PIPESIZE \in 0..PIPESIZE - 1 /\ x = q * PIPESIZE + (x - q * PIPESIZE)
    BY <2>1, PipeAssumption
  <2>. QED  BY <2>2, Zenon
<1>3. x + UintMod = (q + c) * PIPESIZE + m /\ q + c \in Nat
  BY <1>1, <1>2, PipeAssumption
<1>. QED  BY <1>2, <1>3, Multiple, Zenon

\* Two bytes of the ring are in different places.
LEMMA Apart ==
  ASSUME NEW x \in Nat, NEW y \in Nat, x < y, y < x + PIPESIZE
  PROVE  x % PIPESIZE # y % PIPESIZE
  BY PipeAssumption

\* How many bytes there are between two counters, and which.
Between(r, w) == IF w >= r THEN w - r ELSE w - r + UintMod
RingOf(d, r, w) == [k \in 1..((w - r) % UintMod) |-> d[(r + k - 1) % PIPESIZE]]

\* The bytes between two counters are a sequence.
LEMMA Ring ==
  ASSUME NEW d \in [0..PIPESIZE - 1 -> Byte], NEW r \in 0..UintMod - 1, NEW w \in 0..UintMod - 1
  PROVE  /\ r \in Nat /\ w \in Nat /\ Between(r, w) \in Nat /\ Between(r, w) = (w - r) % UintMod
         /\ RingOf(d, r, w) \in Seq(Byte) /\ Len(RingOf(d, r, w)) = Between(r, w)
         /\ \A k \in 1..Between(r, w) : RingOf(d, r, w)[k] = d[(r + k - 1) % PIPESIZE]
<1>1. Between(r, w) = (w - r) % UintMod
  BY Diff, Zenon DEF Between
<1>2. r \in Nat /\ w \in Nat /\ Between(r, w) \in Nat
  BY Basics DEF Between
<1>3. ASSUME NEW k \in 1..Between(r, w)
      PROVE  d[(r + k - 1) % PIPESIZE] \in Byte
  <2>1. r + k - 1 \in Int
    BY <1>2
  <2>. QED  BY <2>1, Basics, Zenon
<1>4. RingOf(d, r, w) \in [1..Between(r, w) -> Byte]
  BY <1>1, <1>3, Zenon DEF RingOf
<1>5. \A k \in 1..Between(r, w) : RingOf(d, r, w)[k] = d[(r + k - 1) % PIPESIZE]
  BY <1>1, Zenon DEF RingOf
<1>. QED  BY <1>1, <1>2, <1>4, <1>5, SeqLen, Zenon

\* A byte is read: the rest of the sequence stays.
LEMMA ReadRing ==
  ASSUME NEW d \in [0..PIPESIZE - 1 -> Byte], NEW r \in 0..UintMod - 1, NEW w \in 0..UintMod - 1,
         r # w, NEW n \in 0..UintMod - 1, n = (r + 1) % UintMod
  PROVE  /\ RingOf(d, r, w) # <<>> /\ d[r % PIPESIZE] = Head(RingOf(d, r, w))
         /\ RingOf(d, n, w) = Tail(RingOf(d, r, w))
         /\ Between(n, w) = Between(r, w) - 1
<1>1. n = IF r + 1 = UintMod THEN 0 ELSE r + 1
  BY Wrap, Zenon
<1>2. r \in Nat /\ w \in Nat /\ UintMod \in Nat /\ r < UintMod /\ w < UintMod
  BY Basics
<1>3. Between(r, w) > 0 /\ Between(n, w) = Between(r, w) - 1
  BY <1>1, <1>2 DEF Between
<1>4. /\ RingOf(d, r, w) \in Seq(Byte) /\ Len(RingOf(d, r, w)) = Between(r, w) /\ Between(r, w) \in Nat
      /\ \A k \in 1..Between(r, w) : RingOf(d, r, w)[k] = d[(r + k - 1) % PIPESIZE]
  BY Ring, Zenon
<1>5. /\ RingOf(d, n, w) \in Seq(Byte) /\ Len(RingOf(d, n, w)) = Between(n, w) /\ Between(n, w) \in Nat
      /\ \A k \in 1..Between(n, w) : RingOf(d, n, w)[k] = d[(n + k - 1) % PIPESIZE]
  BY Ring, Zenon
<1>6. ASSUME NEW k \in 1..Len(RingOf(d, n, w))
      PROVE  RingOf(d, n, w)[k] = RingOf(d, r, w)[k + 1]
  <2>1. k \in 1..Between(n, w) /\ k + 1 \in 1..Between(r, w) /\ k \in Nat /\ k - 1 \in Nat
    BY <1>3, <1>4, <1>5
  <2>2. (n + k - 1) % PIPESIZE = (r + (k + 1) - 1) % PIPESIZE
    <3>1. CASE r + 1 = UintMod
      <4>1. n + k - 1 = k - 1 /\ r + (k + 1) - 1 = (k - 1) + UintMod
        BY <1>1, <1>2, <2>1, <3>1
      <4>. QED  BY <2>1, <4>1, Fold, Zenon
    <3>2. CASE r + 1 # UintMod
      <4>1. n + k - 1 = r + (k + 1) - 1
        BY <1>1, <1>2, <2>1, <3>2
      <4>. QED  BY <4>1, Zenon
    <3>. QED  BY <3>1, <3>2, Zenon
  <2>. QED  BY <1>4, <1>5, <2>1, <2>2, Zenon
<1>7. RingOf(d, r, w) # <<>> /\ d[r % PIPESIZE] = Head(RingOf(d, r, w))
  <2>1. 1 \in 1..Between(r, w) /\ r + 1 - 1 = r
    BY <1>2, <1>3, <1>4
  <2>2. RingOf(d, r, w)[1] = d[r % PIPESIZE]
    BY <1>4, <2>1, Zenon
  <2>3. RingOf(d, r, w) # <<>> /\ Head(RingOf(d, r, w)) = RingOf(d, r, w)[1]
    BY <1>3, <1>4
  <2>. QED  BY <2>2, <2>3, Zenon
<1>8. RingOf(d, n, w) = Tail(RingOf(d, r, w))
  <2>0. Between(r, w) = Between(n, w) + 1
    <3>1. PICK i \in Nat, j \in Nat : i = Between(r, w) /\ j = Between(n, w)
      BY <1>4, <1>5, Zenon
    <3>. QED  BY <1>3, <3>1
  <2>1. Len(RingOf(d, r, w)) = Len(RingOf(d, n, w)) + 1
    BY <1>4, <1>5, <2>0, Zenon
  <2>2. PICK s \in Seq(Byte) : s = RingOf(d, r, w)
    BY <1>4, Zenon
  <2>3. PICK t \in Seq(Byte) : t = RingOf(d, n, w)
    BY <1>5, Zenon
  <2>4. s # <<>> /\ Len(s) = Len(t) + 1 /\ \A i \in 1..Len(t) : t[i] = s[i + 1]
    BY <1>6, <1>7, <2>1, <2>2, <2>3, Zenon
  <2>. QED  BY <2>2, <2>3, <2>4, TailIs, Zenon
<1>. QED  BY <1>3, <1>7, <1>8, Zenon

\* What storing a byte does to the ring.
Stored(e, d, w, b) == e = [d EXCEPT ![w % PIPESIZE] = b]

\* A byte is written where there is room: it comes last, and no byte that has
\* not been read yet is overwritten.
LEMMA WriteRing ==
  ASSUME NEW d \in [0..PIPESIZE - 1 -> Byte], NEW r \in 0..UintMod - 1, NEW w \in 0..UintMod - 1,
         NEW b \in Byte, NEW n \in 0..UintMod - 1, n = (w + 1) % UintMod, Between(r, w) < PIPESIZE,
         NEW e \in [0..PIPESIZE - 1 -> Byte], Stored(e, d, w, b)
  PROVE  /\ RingOf(e, r, n) = Append(RingOf(d, r, w), b)
         /\ Between(r, n) = Between(r, w) + 1
<1>1. n = IF w + 1 = UintMod THEN 0 ELSE w + 1
  BY Wrap, Zenon
<1>2. /\ r \in Nat /\ w \in Nat /\ UintMod \in Nat /\ r < UintMod /\ w < UintMod
      /\ PIPESIZE \in Nat /\ UintMod > PIPESIZE
  BY PipeAssumption
<1>3. Between(r, n) = Between(r, w) + 1
  BY <1>1, <1>2 DEF Between
<1>4. /\ RingOf(d, r, w) \in Seq(Byte) /\ Len(RingOf(d, r, w)) = Between(r, w) /\ Between(r, w) \in Nat
      /\ \A k \in 1..Between(r, w) : RingOf(d, r, w)[k] = d[(r + k - 1) % PIPESIZE]
  BY Ring, Zenon
<1>5. /\ RingOf(e, r, n) \in Seq(Byte) /\ Len(RingOf(e, r, n)) = Between(r, n)
      /\ \A k \in 1..Between(r, n) : RingOf(e, r, n)[k] = e[(r + k - 1) % PIPESIZE]
  BY Ring, Zenon
<1>6. w % PIPESIZE = (r + Between(r, w)) % PIPESIZE
  <2>1. CASE w >= r
    <3>1. w = r + Between(r, w)
      BY <1>2, <2>1 DEF Between
    <3>. QED  BY <3>1, Zenon
  <2>2. CASE ~(w >= r)
    <3>1. w + UintMod = r + Between(r, w)
      BY <1>2, <2>2 DEF Between
    <3>. QED  BY <1>2, <3>1, Fold, Zenon
  <2>. QED  BY <2>1, <2>2, Zenon
<1>7. w % PIPESIZE \in 0..PIPESIZE - 1
  <2>1. w \in Int
    BY <1>2
  <2>. QED  BY <2>1, Basics, Zenon
<1>8. ASSUME NEW k \in 1..Len(RingOf(d, r, w))
      PROVE  RingOf(e, r, n)[k] = RingOf(d, r, w)[k]
  <2>1. /\ k \in 1..Between(r, w) /\ k \in 1..Between(r, n) /\ r + k - 1 \in Nat
        /\ r + Between(r, w) \in Nat /\ r + k - 1 < r + Between(r, w)
        /\ r + Between(r, w) < (r + k - 1) + PIPESIZE
    BY <1>2, <1>3, <1>4
  <2>2. (r + k - 1) % PIPESIZE # w % PIPESIZE
    BY <1>6, <2>1, Apart, Zenon
  <2>3. r + k - 1 \in Int
    BY <2>1
  <2>4. (r + k - 1) % PIPESIZE \in 0..PIPESIZE - 1
    BY <2>3, Basics, Zenon
  <2>5. e[(r + k - 1) % PIPESIZE] = d[(r + k - 1) % PIPESIZE]
    BY <2>2, <2>4, Zenon DEF Stored
  <2>. QED  BY <1>4, <1>5, <2>1, <2>5, Zenon
<1>9. RingOf(e, r, n)[Len(RingOf(d, r, w)) + 1] = b
  <2>1. Between(r, w) + 1 \in 1..Between(r, n) /\ r + (Between(r, w) + 1) - 1 = r + Between(r, w)
    BY <1>2, <1>3, <1>4
  <2>2. RingOf(e, r, n)[Between(r, w) + 1] = e[(r + Between(r, w)) % PIPESIZE]
    BY <1>5, <2>1, Zenon
  <2>3. e[w % PIPESIZE] = b
    BY <1>7, Zenon DEF Stored
  <2>. QED  BY <1>4, <1>6, <2>2, <2>3, Zenon
<1>10. RingOf(e, r, n) = Append(RingOf(d, r, w), b)
  <2>1. Len(RingOf(e, r, n)) = Len(RingOf(d, r, w)) + 1
    BY <1>3, <1>4, <1>5, Zenon
  <2>2. PICK s \in Seq(Byte) : s = RingOf(d, r, w)
    BY <1>4, Zenon
  <2>3. PICK t \in Seq(Byte) : t = RingOf(e, r, n)
    BY <1>5, Zenon
  <2>4. Len(t) = Len(s) + 1 /\ t[Len(s) + 1] = b /\ \A i \in 1..Len(s) : t[i] = s[i]
    BY <1>8, <1>9, <2>1, <2>2, <2>3, Zenon
  <2>. QED  BY <2>2, <2>3, <2>4, AppendIs, Zenon
<1>. QED  BY <1>3, <1>10, Zenon

\* Room in the ring, as pipewrite tests it (pipe.c:79).
LEMMA NotFull ==
  ASSUME NEW r \in 0..UintMod - 1, NEW w \in 0..UintMod - 1,
         Between(r, w) <= PIPESIZE, w # (r + PIPESIZE) % UintMod
  PROVE  Between(r, w) < PIPESIZE
<1>1. /\ UintMod \in Nat /\ PIPESIZE \in Nat /\ UintMod > PIPESIZE /\ PIPESIZE > 0
  BY PipeAssumption
<1>2. (r + PIPESIZE) % UintMod = IF r + PIPESIZE >= UintMod THEN r + PIPESIZE - UintMod ELSE r + PIPESIZE
  BY PipeAssumption
<1>. QED  BY <1>1, <1>2 DEF Between

\* The variables of the ring, and what Contents and Buffered are.
LEMMA RingVars ==
  ASSUME IInv
  PROVE  /\ data \in [0..PIPESIZE - 1 -> Byte] /\ nread \in 0..UintMod - 1 /\ nwrite \in 0..UintMod - 1
         /\ out \in Byte
         /\ Contents = RingOf(data, nread, nwrite) /\ Buffered = Between(nread, nwrite)
<1>1. /\ data \in [0..PIPESIZE - 1 -> Byte] /\ nread \in 0..UintMod - 1 /\ nwrite \in 0..UintMod - 1
      /\ out \in Byte
  BY Zenon DEF IInv, TypeOK
<1>. QED  BY <1>1, Diff, Zenon DEF Contents, Buffered, RingOf, Between

\* The same after a step.
LEMMA RingVarsNext ==
  ASSUME IInv'
  PROVE  /\ data' \in [0..PIPESIZE - 1 -> Byte] /\ nread' \in 0..UintMod - 1 /\ nwrite' \in 0..UintMod - 1
         /\ Contents' = RingOf(data', nread', nwrite') /\ Buffered' = Between(nread', nwrite')
<1>1. /\ data' \in [0..PIPESIZE - 1 -> Byte] /\ nread' \in 0..UintMod - 1 /\ nwrite' \in 0..UintMod - 1
  BY Zenon DEF IInv, TypeOK
<1>. QED  BY <1>1, Diff, Zenon DEF Contents, Buffered, RingOf, Between

\* piperead receives the byte that was sent first.
LEMMA ReadByteStep ==
  ASSUME IInv, IInv', Bounded, NEW p \in Proc, ReadByte(p)
  PROVE  Fifo!Receive /\ Bounded'
<1>1. /\ nread # nwrite /\ out' = data[nread % PIPESIZE] /\ nread' = (nread + 1) % UintMod
      /\ data' = data /\ nwrite' = nwrite
  BY Zenon DEF ReadByte, Empty
<1>2. /\ Contents # <<>> /\ out' = Head(Contents) /\ Contents' = Tail(Contents)
      /\ Buffered' = Buffered - 1
  <2>1. /\ data \in [0..PIPESIZE - 1 -> Byte] /\ nread \in 0..UintMod - 1 /\ nwrite \in 0..UintMod - 1
        /\ Contents = RingOf(data, nread, nwrite) /\ Buffered = Between(nread, nwrite)
    BY RingVars, Zenon
  <2>2. PICK n \in 0..UintMod - 1 : n = nread'
    BY RingVarsNext, Zenon
  <2>3. Contents' = RingOf(data, n, nwrite) /\ Buffered' = Between(n, nwrite)
    BY <1>1, <2>2, RingVarsNext, Zenon
  <2>4. n = (nread + 1) % UintMod
    BY <1>1, <2>2, Zenon
  <2>5. /\ RingOf(data, nread, nwrite) # <<>> /\ data[nread % PIPESIZE] = Head(RingOf(data, nread, nwrite))
        /\ RingOf(data, n, nwrite) = Tail(RingOf(data, nread, nwrite))
        /\ Between(n, nwrite) = Between(nread, nwrite) - 1
    <3>1. PICK d \in [0..PIPESIZE - 1 -> Byte], r \in 0..UintMod - 1, w \in 0..UintMod - 1 :
            d = data /\ r = nread /\ w = nwrite
      BY <2>1, Zenon
    <3>2. r # w /\ n = (r + 1) % UintMod
      BY <1>1, <2>4, <3>1, Zenon
    <3>3. /\ RingOf(d, r, w) # <<>> /\ d[r % PIPESIZE] = Head(RingOf(d, r, w))
          /\ RingOf(d, n, w) = Tail(RingOf(d, r, w)) /\ Between(n, w) = Between(r, w) - 1
      BY <3>2, ReadRing, Zenon
    <3>. QED  BY <3>1, <3>3, Zenon
  <2>. QED  BY <1>1, <2>1, <2>3, <2>5, Zenon
<1>3. Buffered \in Nat /\ PIPESIZE \in Nat
  BY RingVars, Ring, Basics, Zenon
<1>4. Bounded'
  BY <1>2, <1>3 DEF Bounded
<1>. QED  BY <1>2, <1>4, Zenon DEF Fifo!Receive

\* pipewrite sends a byte if there is room.
LEMMA WriteByteStep ==
  ASSUME IInv, IInv', Bounded, NEW p \in Proc, NEW b \in Byte, WriteByte(p, b)
  PROVE  Fifo!Send(b) /\ Bounded'
<1>1. /\ nwrite # (nread + PIPESIZE) % UintMod /\ data' = [data EXCEPT ![nwrite % PIPESIZE] = b]
      /\ nwrite' = (nwrite + 1) % UintMod /\ nread' = nread /\ out' = out
  BY Zenon DEF WriteByte, Full
<1>2. Buffered < PIPESIZE
  BY <1>1, RingVars, NotFull, Zenon DEF Bounded
<1>3. Contents' = Append(Contents, b) /\ Buffered' = Buffered + 1
  <2>1. /\ data \in [0..PIPESIZE - 1 -> Byte] /\ nread \in 0..UintMod - 1 /\ nwrite \in 0..UintMod - 1
        /\ Contents = RingOf(data, nread, nwrite) /\ Buffered = Between(nread, nwrite)
    BY RingVars, Zenon
  <2>2. PICK n \in 0..UintMod - 1 : n = nwrite'
    BY RingVarsNext, Zenon
  <2>3. PICK e \in [0..PIPESIZE - 1 -> Byte] : e = data'
    BY RingVarsNext, Zenon
  <2>4. Contents' = RingOf(e, nread, n) /\ Buffered' = Between(nread, n)
    BY <1>1, <2>2, <2>3, RingVarsNext, Zenon
  <2>5. n = (nwrite + 1) % UintMod /\ Stored(e, data, nwrite, b) /\ Between(nread, nwrite) < PIPESIZE
    BY <1>1, <1>2, <2>1, <2>2, <2>3, Zenon DEF Stored
  <2>6. /\ RingOf(e, nread, n) = Append(RingOf(data, nread, nwrite), b)
        /\ Between(nread, n) = Between(nread, nwrite) + 1
    BY <2>1, <2>5, WriteRing
  <2>. QED  BY <2>1, <2>4, <2>6, Zenon
<1>4. Buffered \in Nat /\ PIPESIZE \in Nat
  BY RingVars, Ring, Basics, Zenon
<1>5. Bounded'
  BY <1>2, <1>3, <1>4 DEF Bounded
<1>6. Len(Contents) = Buffered
  BY RingVars, Ring, Zenon
<1>. QED  BY <1>1, <1>2, <1>3, <1>5, <1>6, Zenon DEF Fifo!Send

\* A new pipe is empty.
LEMMA EmptyRing ==
  ASSUME NEW d \in [0..PIPESIZE - 1 -> Byte]
  PROVE  RingOf(d, 0, 0) = <<>> /\ Between(0, 0) = 0
<1>1. 0 \in 0..UintMod - 1 /\ Between(0, 0) = 0
  BY PipeAssumption DEF Between
<1>2. RingOf(d, 0, 0) \in Seq(Byte) /\ Len(RingOf(d, 0, 0)) = 0
  BY <1>1, Ring, Zenon
<1>. QED  BY <1>1, <1>2

\* Every step of the pipe is one of the queue, or leaves the queue alone.
LEMMA ChannelStep ==
  ASSUME IInv, IInv', Bounded, [Next]_vars
  PROVE  [Fifo!ChannelNext]_(Fifo!channel_vars) /\ Bounded'
<1>1. CASE UNCHANGED ring
  <2>1. UNCHANGED <<data, nread, nwrite, out>>
    BY <1>1, Zenon DEF ring
  <2>. QED  BY <2>1, Zenon DEF Fifo!channel_vars, Contents, Buffered, Bounded
<1>2. ASSUME NEW p \in Proc, Pipealloc(p)
      PROVE  Fifo!Fresh /\ Bounded'
  <2>1. nread' = 0 /\ nwrite' = 0 /\ out' = out
    BY <1>2, Zenon DEF Pipealloc
  <2>2. Contents' = <<>> /\ Buffered' = 0
    BY <2>1, RingVarsNext, EmptyRing, Zenon
  <2>. QED  BY <2>1, <2>2, PipeAssumption DEF Fifo!Fresh, Bounded
<1>3. ASSUME NEW p \in Proc, ReadByte(p)
      PROVE  Fifo!Receive /\ Bounded'
  BY <1>3, ReadByteStep, Zenon
<1>4. ASSUME NEW p \in Proc, NEW b \in Byte, WriteByte(p, b)
      PROVE  Fifo!Send(b) /\ Bounded'
  BY <1>4, WriteByteStep, Zenon
<1>5. ASSUME NEW p \in Proc, \/ Kill(p) \/ \E q \in Proc : Fork(p, q)
                             \/ Pipeclose(p) \/ \E e \in End : Close(p, e)
                             \/ \E n \in 0..MaxCount : Read(p, n) \/ Write(p, n)
      PROVE  UNCHANGED ring
  BY <1>5, Zenon DEF Kill, Fork, Close, Pipeclose, PipecloseRead, PipecloseWrite, Read, Write
<1>6. ASSUME NEW p \in Proc, ReadEnter(p) \/ ReadSleep(p) \/ ReadDone(p)
                             \/ WriteEnter(p) \/ WriteFull(p) \/ WriteSleep(p) \/ WriteDone(p)
      PROVE  UNCHANGED ring
  BY <1>6, Zenon DEF ReadEnter, ReadSleep, ReadDone, WriteEnter, WriteFull, WriteSleep, WriteDone
<1>7. CASE UNCHANGED vars
  BY <1>1, <1>7, Zenon DEF vars
<1>8. ASSUME NEW p \in Proc, Piperead(p) \/ Pipewrite(p)
      PROVE  [Fifo!ChannelNext]_(Fifo!channel_vars) /\ Bounded'
  BY <1>1, <1>3, <1>4, <1>6, <1>8, Zenon DEF Piperead, Pipewrite, Fifo!ChannelNext
<1>9. CASE Next
  <2>1. PICK p \in Proc : \/ Pipealloc(p) \/ Piperead(p) \/ Pipewrite(p)
                          \/ Kill(p) \/ \E q \in Proc : Fork(p, q)
                          \/ \E e \in End : Close(p, e)
                          \/ \E n \in 0..MaxCount : Read(p, n) \/ Write(p, n)
                          \/ Pipeclose(p)
    BY <1>9, Zenon DEF Next
  <2>. QED  BY <1>1, <1>2, <1>5, <1>8, <2>1, Zenon DEF Fifo!ChannelNext
<1>. QED  BY <1>7, <1>9, Zenon

\* The pipe is a bounded FIFO queue: no byte is lost, duplicated, reordered or
\* overwritten, for every size of the ring that divides the range of a uint.
THEOREM FifoQueue == Spec => RefinesChannel
<1>1. Init => Fifo!ChannelInit /\ Bounded
  <2>. SUFFICES ASSUME Init PROVE Fifo!ChannelInit /\ Bounded
    BY Zenon
  <2>1. data \in [0..PIPESIZE - 1 -> Byte] /\ nread = 0 /\ nwrite = 0 /\ out \in Byte
    BY Zenon DEF Init
  <2>2. 0 \in 0..UintMod - 1 /\ PIPESIZE \in Nat /\ 0 <= PIPESIZE
    BY PipeAssumption
  <2>3. Contents = <<>> /\ Buffered = 0
    BY <2>1, <2>2, EmptyRing, Diff, Zenon DEF Contents, Buffered, RingOf, Between
  <2>. QED  BY <2>1, <2>2, <2>3, Zenon DEF Fifo!ChannelInit, Bounded
<1>2. IInv /\ IInv' /\ Bounded /\ [Next]_vars => [Fifo!ChannelNext]_(Fifo!channel_vars) /\ Bounded'
  BY ChannelStep, Zenon
<1>3. Spec => []IInv
  BY Invariance
<1>. QED  BY <1>1, <1>2, <1>3, PTL DEF Spec, RefinesChannel, Fifo!ChannelSpec
=============================================================================
