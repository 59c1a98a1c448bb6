----------------------------- MODULE BioProofs ------------------------------
(***************************************************************************)
(* The inductive invariant IInv of the buffer cache, for any number of     *)
(* processes, buffers and sectors: the steps of the disk driver, its       *)
(* controller and the machine preserve it, and so do those of the cache;   *)
(* and what follows from it.  Over a disk that does not fail the cache is  *)
(* coherent, and it implements BlockStore.                                 *)
(***************************************************************************)
EXTENDS Bio, FiniteSetTheorems, TLAPS

\* What the proofs need to know of the constants.
LEMMA BufFacts == 0 \notin Buf /\ NoSector \notin Sector /\ Zero \in Data
  BY IdeAssumption DEF Buf

\* The queue after iderw appends a buffer.
LEMMA QueueAppend ==
  ASSUME idequeue \in Seq(Buf), NEW b \in Buf, idequeue' = Append(idequeue, b),
         \A i, j \in DOMAIN idequeue : idequeue[i] = idequeue[j] => i = j,
         b \notin Queued
  PROVE  /\ idequeue' \in Seq(Buf) /\ idequeue' # <<>>
         /\ Queued' = Queued \cup {b}
         /\ Head(idequeue') = IF idequeue = <<>> THEN b ELSE Head(idequeue)
         /\ \A i, j \in DOMAIN idequeue' : idequeue'[i] = idequeue'[j] => i = j
<1>1. /\ idequeue' \in Seq(Buf) /\ Len(idequeue') = Len(idequeue) + 1
      /\ \A i \in 1..Len(idequeue) : idequeue'[i] = idequeue[i]
      /\ idequeue'[Len(idequeue) + 1] = b
  OBVIOUS
<1>2. /\ DOMAIN idequeue = 1..Len(idequeue) /\ Len(idequeue) \in Nat
      /\ DOMAIN idequeue' = 1..(Len(idequeue) + 1)
  BY <1>1
<1>3. Queued' = Queued \cup {b}
  BY <1>1, <1>2 DEF Queued
<1>4. \A i, j \in DOMAIN idequeue' : idequeue'[i] = idequeue'[j] => i = j
  BY <1>1, <1>2 DEF Queued
<1>5. Head(idequeue') = IF idequeue = <<>> THEN b ELSE Head(idequeue)
  BY <1>1, <1>2
<1>. QED  BY <1>1, <1>3, <1>4, <1>5

\* The queue after ideintr takes its head off.
LEMMA QueueTail ==
  ASSUME idequeue \in Seq(Buf), idequeue # <<>>, idequeue' = Tail(idequeue),
         \A i, j \in DOMAIN idequeue : idequeue[i] = idequeue[j] => i = j
  PROVE  /\ idequeue' \in Seq(Buf)
         /\ Head(idequeue) \in Queued /\ Head(idequeue) \in Buf
         /\ Queued' = Queued \ {Head(idequeue)}
         /\ idequeue' # <<>> => Head(idequeue') \in Queued'
         /\ \A i, j \in DOMAIN idequeue' : idequeue'[i] = idequeue'[j] => i = j
<1>1. /\ idequeue' \in Seq(Buf) /\ Len(idequeue') = Len(idequeue) - 1
      /\ \A i \in 1..Len(idequeue) - 1 : idequeue'[i] = idequeue[i + 1]
      /\ Len(idequeue) \in Nat /\ Len(idequeue) >= 1 /\ Head(idequeue) = idequeue[1]
  OBVIOUS
<1>2. /\ DOMAIN idequeue = 1..Len(idequeue)
      /\ DOMAIN idequeue' = 1..(Len(idequeue) - 1)
  BY <1>1
<1>3. Head(idequeue) \in Queued /\ Head(idequeue) \in Buf
  BY <1>1, <1>2 DEF Queued
<1>4. Queued' = Queued \ {Head(idequeue)}
  <2>1. ASSUME NEW x \in Queued' PROVE x \in Queued \ {Head(idequeue)}
    <3>1. PICK i \in 1..(Len(idequeue) - 1) : x = idequeue'[i]
      BY <1>2, Zenon DEF Queued
    <3>2. x = idequeue[i + 1] /\ i + 1 \in DOMAIN idequeue /\ 1 \in DOMAIN idequeue /\ i + 1 # 1
      BY <1>1, <1>2, <3>1
    <3>. QED  BY <1>1, <3>2, Zenon DEF Queued
  <2>2. ASSUME NEW x \in Queued \ {Head(idequeue)} PROVE x \in Queued'
    <3>1. PICK i \in 1..Len(idequeue) : x = idequeue[i]
      BY <1>2, Zenon DEF Queued
    <3>2. i - 1 \in 1..(Len(idequeue) - 1) /\ x = idequeue'[i - 1]
      BY <1>1, <3>1
    <3>. QED  BY <1>2, <3>2, Zenon DEF Queued
  <2>. QED  BY <2>1, <2>2, Zenon
<1>5. idequeue' # <<>> => Head(idequeue') \in Queued'
  <2>1. idequeue' # <<>> => 1 \in DOMAIN idequeue' /\ Head(idequeue') = idequeue'[1]
    BY <1>1, <1>2
  <2>. QED  BY <2>1, Zenon DEF Queued
<1>6. \A i, j \in DOMAIN idequeue' : idequeue'[i] = idequeue'[j] => i = j
  <2>. SUFFICES ASSUME NEW i \in DOMAIN idequeue', NEW j \in DOMAIN idequeue',
                       idequeue'[i] = idequeue'[j]
                PROVE  i = j
    BY Zenon
  <2>1. idequeue[i + 1] = idequeue[j + 1] /\ i + 1 \in DOMAIN idequeue /\ j + 1 \in DOMAIN idequeue
    BY <1>1, <1>2
  <2>. QED  BY <2>1, <1>2
<1>. QED  BY <1>1, <1>3, <1>4, <1>5, <1>6, Zenon

\* The types of the variables.
LEMMA Types ==
  ASSUME IInv
  PROVE  /\ sector \in [Buf -> Sector \cup {NoSector}]
         /\ flags \in [Buf -> SUBSET Flag]
         /\ data \in [Buf -> Data]
         /\ disk \in [Sector -> Data]
         /\ pc \in [Proc -> PC]
         /\ bp \in [Proc -> Buf \cup {0}]
         /\ outer \in [Proc -> Buf \cup {0}]
         /\ chan \in [Proc -> Buf \cup {0}]
         /\ want \in [Proc -> Sector \cup {NoSector}]
  BY Zenon DEF IInv, TypeOK

\* Only buffers are queued.
LEMMA QueuedBuf ==
  ASSUME idequeue \in Seq(Buf)
  PROVE  Queued \subseteq Buf
  BY DEF Queued

\* The first request is one of the queued ones.
LEMMA HeadQueued ==
  ASSUME idequeue \in Seq(Buf), idequeue # <<>>
  PROVE  Head(idequeue) \in Queued
  BY DEF Queued

\* The controller completes or fails its command.
LEMMA DiskInv ==
  ASSUME IInv, DiskDone \/ DiskFails, UNCHANGED <<lru, want, outer>>
  PROVE  IInv'
<1>. USE BufFacts DEF Busy, Synced, Holds
<1>1. /\ ctl = "busy" /\ ctl' \in {"done", "error"}
      /\ UNCHANGED <<sector, flags, data, idequeue, cmd, pc, bp, chan, want, outer>>
      /\ Queued' = Queued
  BY Zenon DEF DiskDone, DiskFails, Queued
<1>2. /\ idequeue # <<>> /\ Head(idequeue) \in Queued
      /\ cmd = Request(Head(idequeue)) /\ cmd.sector \in Sector /\ cmd.data \in Data
  <2>1. idequeue # <<>> /\ idequeue \in Seq(Buf)
    BY <1>1, Zenon DEF IInv, NoLostWakeup, TypeOK
  <2>2. Head(idequeue) \in Queued /\ Head(idequeue) \in Buf
    BY <2>1 DEF Queued
  <2>3. PICK p \in Proc : pc[p] = "io" /\ bp[p] = Head(idequeue)
    BY <2>2, Zenon DEF IInv, QueueInv
  <2>4. cmd = Request(Head(idequeue))
    BY <2>1, Zenon DEF IInv, QueueInv
  <2>5. sector[Head(idequeue)] \in Sector
    BY <2>2, <2>3, Zenon DEF IInv, Usable
  <2>. QED  BY <2>1, <2>2, <2>4, <2>5, Types, Zenon DEF Request
<1>3. disk' \in [Sector -> Data] /\ (ctl' = "done" /\ cmd.op = "write" => disk'[cmd.sector] = cmd.data)
  BY <1>2, Types, Zenon DEF DiskDone, DiskFails
<1>4. TypeOK'
  BY <1>1, <1>3, Zenon DEF IInv, TypeOK, DiskDone, DiskFails
<1>5. Queued \subseteq Buf
  BY QueuedBuf, Zenon DEF IInv, TypeOK
<1>6. OneBuffer'
  BY <1>1, <1>2, <1>3, <1>5, Zenon DEF IInv, OneBuffer
<1>7. Exclusive'
  BY <1>1, <1>2, <1>3, <1>5, Zenon DEF IInv, Exclusive
<1>8. Usable'
  BY <1>1, <1>2, <1>3, <1>5, Zenon DEF IInv, Usable
<1>9. NoLostWakeup'
  BY <1>1, <1>2, <1>3, <1>5, Zenon DEF IInv, NoLostWakeup
<1>10. Position'
  BY <1>1, <1>2, <1>3, <1>5 DEF IInv, Position
<1>11. QueueInv'
  BY <1>1, <1>2, <1>3, <1>5, Zenon DEF IInv, QueueInv, Request
<1>12. FlagsInv'
  BY <1>1, <1>2, <1>3, <1>5, Zenon DEF IInv, FlagsInv
<1>. QED  BY <1>4, <1>6, <1>7, <1>8, <1>9, <1>10, <1>11, <1>12, Zenon DEF IInv

\* The interrupt handler completes the first request.
LEMMA IdeintrInv ==
  ASSUME IInv, Ideintr, UNCHANGED <<lru, want, outer>>
  PROVE  IInv'
<1>. USE BufFacts DEF Busy, Synced, Holds
<1>1. /\ idequeue \in Seq(Buf) /\ idequeue # <<>> /\ ctl # "idle" /\ ctl # "busy"
      /\ \A i, j \in DOMAIN idequeue : idequeue[i] = idequeue[j] => i = j
  BY Zenon DEF IInv, TypeOK, QueueInv, NoLostWakeup, Ideintr
<1>b. PICK b \in Buf : b = Head(idequeue)
  BY <1>1
<1>2. /\ idequeue' \in Seq(Buf) /\ b \in Queued /\ b \in Buf /\ Queued' = Queued \ {b}
      /\ idequeue' # <<>> => Head(idequeue') \in Queued'
      /\ \A i, j \in DOMAIN idequeue' : idequeue'[i] = idequeue'[j] => i = j
  BY <1>1, <1>b, QueueTail, Zenon DEF Ideintr
<1>3. PICK p \in Proc : pc[p] = "io" /\ bp[p] = b
  BY <1>2, Zenon DEF IInv, QueueInv
<1>4. /\ cmd = Request(b) /\ sector[b] \in Sector /\ cmd.sector \in Sector
  BY <1>1, <1>b, <1>2, <1>3 DEF IInv, QueueInv, Usable, Request
<1>5. /\ data' \in [Buf -> Data] /\ \A x \in Buf \ {b} : data'[x] = data[x]
  BY <1>2, <1>b, <1>4, Types, Zenon DEF Ideintr
<1>6. /\ flags' \in [Buf -> SUBSET Flag]
      /\ \A x \in Buf \ {b} : flags'[x] = flags[x]
      /\ flags'[b] = (flags[b] \cup {"B_VALID"}) \ {"B_DIRTY"}
  BY <1>b, Types, Zenon DEF Ideintr, Flag
<1>7. /\ chan' \in [Proc -> Buf \cup {0}]
      /\ \A q \in Proc : chan'[q] = IF chan[q] = b THEN 0 ELSE chan[q]
  BY <1>b, Types, Zenon DEF Ideintr, Wakeup
<1>8. /\ UNCHANGED <<sector, disk, pc, bp, want, outer, lru>>
      /\ idequeue' = <<>> => ctl' = "idle" /\ cmd' = NoCmd
      /\ idequeue' # <<>> => ctl' = "busy" /\ cmd' = Request(Head(idequeue'))
  BY Zenon DEF Ideintr, Idestart
<1>9. idequeue' # <<>> => (cmd = Request(Head(idequeue)))' /\ cmd' \in Cmd
  <2>. SUFFICES ASSUME idequeue' # <<>>
                PROVE  (cmd = Request(Head(idequeue)))' /\ cmd' \in Cmd
    BY Zenon
  <2>1. Head(idequeue') \in Buf \ {b}
    BY <1>2
  <2>. QED  BY <1>5, <1>6, <1>8, <2>1, Types DEF Request, Cmd
<1>10. TypeOK'
  <2>1. cmd' \in Cmd
    BY <1>8, <1>9 DEF NoCmd, Cmd
  <2>2. TypeOK
    BY Zenon DEF IInv
  <2>. QED  BY <1>2, <1>5, <1>6, <1>7, <1>8, <2>1, <2>2, Zenon DEF TypeOK
<1>11. \A q \in Proc : b \in Holds(q) => q = p
  BY <1>3, <1>2, Zenon DEF IInv, Exclusive
<1>12. /\ Busy(b) /\ Busy(b)' /\ Synced(b)' /\ ~Synced(b)
       /\ \A x \in Buf \ {b} : (Synced(x)' <=> Synced(x)) /\ (Busy(x)' <=> Busy(x))
  <2>1. Busy(b)
    BY <1>2, <1>3, Zenon DEF IInv, Usable
  <2>2. ~Synced(b)
    BY <1>2, Zenon DEF IInv, QueueInv
  <2>. QED  BY <1>2, <1>6, <2>1, <2>2, Zenon
<1>13. Queued \subseteq Buf
  BY <1>1, QueuedBuf, Zenon
<1>14. \A q \in Proc : chan[q] # 0 /\ pc[q] = "io" => chan[q] = bp[q]
  BY Zenon DEF IInv, Position
<1>15. OneBuffer'
  BY <1>2, <1>3, <1>4, <1>6, <1>7, <1>8, <1>9, <1>11, <1>12, <1>13, Zenon DEF IInv, OneBuffer
<1>16. Exclusive'
  BY <1>2, <1>8, <1>12, Zenon DEF IInv, Exclusive
<1>17. Usable'
  BY <1>2, <1>3, <1>4, <1>6, <1>7, <1>8, <1>9, <1>11, <1>12, <1>13, Types DEF IInv, Usable
<1>18. NoLostWakeup'
  BY <1>2, <1>7, <1>8, <1>12, <1>14 DEF IInv, NoLostWakeup
<1>19. Position'
  BY <1>2, <1>3, <1>4, <1>6, <1>7, <1>8, <1>9, <1>11, <1>12, <1>13, Types DEF IInv, Position
<1>20. QueueInv'
  <2>1. (\A x \in Queued : ~Synced(x) /\ \E q \in Proc : pc[q] = "io" /\ bp[q] = x)'
    BY <1>2, <1>8, <1>12, <1>13, Zenon DEF IInv, QueueInv
  <2>2. (\A q \in Proc : pc[q] = "io" /\ ~Synced(bp[q]) => bp[q] \in Queued)'
    BY <1>2, <1>8, <1>12, Types DEF IInv, QueueInv, Position
  <2>. QED  BY <1>2, <1>8, <1>9, <2>1, <2>2, Zenon DEF QueueInv
<1>21. FlagsInv'
  BY <1>2, <1>3, <1>4, <1>6, <1>7, <1>8, <1>9, <1>11, <1>12, <1>13, Zenon DEF IInv, FlagsInv
<1>. QED  BY <1>10, <1>15, <1>16, <1>17, <1>18, <1>19, <1>20, <1>21, Zenon DEF IInv

\* iderw queues its buffer and sleeps.
LEMMA IderwQueueInv ==
  ASSUME IInv, NEW p \in Proc, IderwQueue(p), UNCHANGED <<lru, want, outer>>
  PROVE  IInv'
<1>. USE BufFacts DEF Busy, Synced, Holds
<1>. DEFINE b == bp[p]
<1>1. /\ pc[p] = "iderw" /\ b \in Buf /\ ~Synced(b) /\ Busy(b) /\ sector[b] \in Sector
      /\ b # outer[p]
  BY Types, Zenon DEF IderwQueue, IInv, Usable, Position
<1>2. \A q \in Proc : b \in Holds(q) => q = p
  BY <1>1, Zenon DEF IInv, Exclusive
<1>3. b \notin Queued
  BY <1>1, <1>2, Zenon DEF IInv, QueueInv
<1>4. /\ idequeue \in Seq(Buf) /\ \A i, j \in DOMAIN idequeue : idequeue[i] = idequeue[j] => i = j
      /\ idequeue = <<>> <=> ctl = "idle"
  BY Zenon DEF IInv, TypeOK, QueueInv, NoLostWakeup
<1>5. /\ idequeue' \in Seq(Buf) /\ idequeue' # <<>> /\ Queued' = Queued \cup {b}
      /\ Head(idequeue') = IF idequeue = <<>> THEN b ELSE Head(idequeue)
      /\ \A i, j \in DOMAIN idequeue' : idequeue'[i] = idequeue'[j] => i = j
  BY <1>1, <1>3, <1>4, QueueAppend, Zenon DEF IderwQueue
<1>6. /\ pc' \in [Proc -> PC] /\ pc'[p] = "io" /\ \A q \in Proc \ {p} : pc'[q] = pc[q]
      /\ chan' \in [Proc -> Buf \cup {0}] /\ chan'[p] = b /\ \A q \in Proc \ {p} : chan'[q] = chan[q]
      /\ UNCHANGED <<sector, flags, data, disk, bp, lru, want, outer>>
  BY <1>1, Types, Zenon DEF IderwQueue, Sleep, PC
<1>7. /\ idequeue = <<>> => ctl' = "busy" /\ cmd' = Request(b)
      /\ idequeue # <<>> => ctl' = ctl /\ cmd' = cmd
  BY Zenon DEF IderwQueue, Idestart
<1>8. (cmd = Request(Head(idequeue)))'
  BY <1>5, <1>6, <1>7, Zenon DEF IInv, QueueInv, Request
<1>9. TypeOK'
  <2>1. TypeOK /\ cmd \in Cmd
    BY Zenon DEF IInv, TypeOK
  <2>2. cmd' \in Cmd
    BY <1>1, <1>7, <2>1, Types DEF Request, Cmd
  <2>3. ctl' \in {"idle", "busy", "done", "error"}
    BY <1>7, <2>1, Zenon DEF TypeOK
  <2>. QED  BY <1>5, <1>6, <2>1, <2>2, <2>3, Zenon DEF TypeOK
<1>10. Queued \subseteq Buf
  BY <1>4, QueuedBuf, Zenon
<1>11. OneBuffer'
  BY <1>6, Zenon DEF IInv, OneBuffer
<1>12. Exclusive'
  BY <1>6, Zenon DEF IInv, Exclusive
<1>13. Usable'
  BY <1>1, <1>6, Zenon DEF IInv, Usable
<1>14. NoLostWakeup'
  BY <1>1, <1>4, <1>5, <1>6, <1>7 DEF IInv, NoLostWakeup
<1>15. Position'
  BY <1>1, <1>6 DEF IInv, Position
<1>16. QueueInv'
  <2>1. (\A x \in Queued : ~Synced(x) /\ \E q \in Proc : pc[q] = "io" /\ bp[q] = x)'
    BY <1>1, <1>5, <1>6, SMTT(60) DEF IInv, QueueInv
  <2>2. (\A q \in Proc : pc[q] = "io" /\ ~Synced(bp[q]) => bp[q] \in Queued)'
    BY <1>1, <1>5, <1>6, Zenon DEF IInv, QueueInv
  <2>3. (ctl = "done" /\ cmd.op = "write" => disk[cmd.sector] = cmd.data)'
    BY <1>6, <1>7, Zenon DEF IInv, QueueInv
  <2>. HIDE DEF Synced
  <2>. QED  BY <1>5, <1>8, <2>1, <2>2, <2>3, Zenon DEF QueueInv
<1>17. FlagsInv'
  BY <1>6, Zenon DEF IInv, FlagsInv
<1>. QED  BY <1>9, <1>11, <1>12, <1>13, <1>14, <1>15, <1>16, <1>17, Zenon DEF IInv

\* The loop of iderw after a wakeup.
LEMMA IderwReturnInv ==
  ASSUME IInv, NEW p \in Proc, IderwReturn(p), UNCHANGED <<lru, want, outer>>
  PROVE  IInv'
<1>. USE BufFacts DEF Busy, Synced, Holds
<1>1. /\ pc[p] = "io" /\ chan[p] = 0 /\ bp[p] \in Buf
  BY Types, Zenon DEF IderwReturn, IInv, Position
<1>2. /\ UNCHANGED <<sector, flags, data, idequeue, disk, cmd, ctl, bp, want, outer, lru>>
      /\ Queued' = Queued
  BY Zenon DEF IderwReturn, disk_vars, Queued
<1>3. \/ /\ Synced(bp[p]) /\ pc'[p] = "run" /\ chan' = chan
         /\ pc' \in [Proc -> PC] /\ \A q \in Proc \ {p} : pc'[q] = pc[q]
      \/ /\ ~Synced(bp[p]) /\ chan'[p] = bp[p] /\ pc' = pc
         /\ chan' \in [Proc -> Buf \cup {0}] /\ \A q \in Proc \ {p} : chan'[q] = chan[q]
  BY <1>1, Types DEF IderwReturn, Sleep, PC
<1>4. TypeOK'
  BY <1>2, <1>3, Zenon DEF IInv, TypeOK
<1>5. OneBuffer'
  BY <1>2, Zenon DEF IInv, OneBuffer
<1>6. Exclusive'
  BY <1>2, Zenon DEF IInv, Exclusive
<1>7. Usable'
  BY <1>1, <1>2, <1>3, Zenon DEF IInv, Usable
<1>8. NoLostWakeup'
  <2>1. ~Synced(bp[p]) => bp[p] \in Queued
    BY <1>1, Zenon DEF IInv, QueueInv
  <2>. QED  BY <1>1, <1>2, <1>3, <2>1, Zenon DEF IInv, NoLostWakeup
<1>9. Position'
  BY <1>1, <1>2, <1>3 DEF IInv, Position
<1>10. QueueInv'
  <2>1. (\A x \in Queued : ~Synced(x) /\ \E q \in Proc : pc[q] = "io" /\ bp[q] = x)'
    BY <1>1, <1>2, <1>3 DEF IInv, QueueInv
  <2>. QED  BY <1>1, <1>2, <1>3, <2>1 DEF IInv, QueueInv, Request
<1>11. FlagsInv'
  BY <1>2, Zenon DEF IInv, FlagsInv
<1>. QED  BY <1>4, <1>5, <1>6, <1>7, <1>8, <1>9, <1>10, <1>11, Zenon DEF IInv

-----------------------------------------------------------------------------
\* kill() wakes a sleeping process.
LEMMA WakeInv ==
  ASSUME IInv, NEW p \in Proc, Kill(p)
  PROVE  IInv'
<1>. USE BufFacts DEF Busy, Synced, Holds
<1>1. /\ UNCHANGED <<sector, flags, data, idequeue, disk, cmd, ctl, pc, bp, lru, want, outer>>
      /\ chan' \in [Proc -> Buf \cup {0}] /\ Queued' = Queued
      /\ \A q \in Proc : chan'[q] # 0 => chan'[q] = chan[q]
  <2>1. chan' = [chan EXCEPT ![p] = 0]
    BY Zenon DEF Kill
  <2>2. UNCHANGED <<sector, flags, data, idequeue, disk, cmd, ctl, pc, bp, lru, want, outer>>
    BY Zenon DEF Kill, ide_vars
  <2>. QED  BY <2>1, <2>2, Types DEF Queued
<1>2. TypeOK' /\ OneBuffer' /\ FlagsInv'
  BY <1>1, Zenon DEF IInv, TypeOK, OneBuffer, FlagsInv
<1>3. Exclusive' /\ Usable'
  BY <1>1, Zenon DEF IInv, Exclusive, Usable
<1>4. NoLostWakeup' /\ Position'
  BY <1>1, Zenon DEF IInv, NoLostWakeup, Position
<1>5. QueueInv'
  BY <1>1, Zenon DEF IInv, QueueInv, Request
<1>. QED  BY <1>2, <1>3, <1>4, <1>5, Zenon DEF IInv

\* A step that changes nothing.
LEMMA StutterInv ==
  ASSUME IInv, UNCHANGED vars
  PROVE  IInv'
<1>1. TypeOK' /\ OneBuffer' /\ FlagsInv'
  BY Zenon DEF IInv, TypeOK, OneBuffer, FlagsInv, vars, disk_vars, Busy
<1>2. Exclusive' /\ Usable'
  BY Zenon DEF IInv, Exclusive, Usable, vars, disk_vars, Busy, Holds, Synced
<1>3. NoLostWakeup' /\ Position'
  BY Zenon DEF IInv, NoLostWakeup, Position, vars, disk_vars, Busy, Synced, Queued
<1>4. QueueInv'
  BY DEF IInv, QueueInv, vars, disk_vars, Synced, Queued, Request
<1>. QED  BY <1>1, <1>2, <1>3, <1>4, Zenon DEF IInv

\* What binit leaves satisfies the invariant, whatever is on the disk.
LEMMA CacheInit == InitCache /\ disk \in [Sector -> Data] => IInv
<1>. SUFFICES ASSUME InitCache, disk \in [Sector -> Data] PROVE IInv
  BY Zenon
<1>. USE BufFacts, IdeAssumption DEF InitCache, Busy, Synced, Holds, NoCmd
<1>1. NoCmd \in Cmd /\ lru \in [Buf -> Nat] /\ idequeue \in Seq(Buf)
  BY DEF Cmd, Buf
<1>2. TypeOK
  BY <1>1, Zenon DEF TypeOK, PC, Flag
<1>3. OneBuffer /\ Exclusive /\ Usable /\ FlagsInv
  BY Zenon DEF OneBuffer, Exclusive, Usable, FlagsInv
<1>4. Queued = {} /\ DOMAIN idequeue = {}
  BY DEF Queued
<1>5. NoLostWakeup /\ Position
  BY Zenon DEF NoLostWakeup, Position
<1>6. QueueInv
  BY <1>4, Zenon DEF QueueInv
<1>. QED  BY <1>2, <1>3, <1>5, <1>6, Zenon DEF IInv

\* A restart.
LEMMA CrashInv ==
  ASSUME IInv, Crash
  PROVE  IInv'
<1>1. InitCache' /\ (disk \in [Sector -> Data])'
  BY Zenon DEF Crash, InitCache, IInv, TypeOK
<1>2. (InitCache /\ disk \in [Sector -> Data] => IInv)'
  BY CacheInit, PTL
<1>. QED  BY <1>1, <1>2, Zenon

-----------------------------------------------------------------------------
(* The steps of the buffer cache.                                            *)

\* The file system calls bread.
LEMMA BreadInv ==
  ASSUME IInv, NEW p \in Proc, NEW s \in Sector, Bread(p, s)
  PROVE  IInv'
<1>. USE BufFacts DEF Busy, Synced, Holds
<1>1. /\ pc[p] = "run" /\ (bp[p] # 0 => Synced(bp[p])) /\ chan[p] = 0
      /\ (bp[p] = 0 => outer[p] = 0)
  BY Zenon DEF Bread, IInv, Position, Usable
<1>2. /\ UNCHANGED <<sector, flags, data, idequeue, disk, cmd, ctl, chan, lru>>
      /\ Queued' = Queued
  BY Zenon DEF Bread, ide_vars, Queued
<1>3. /\ pc' \in [Proc -> PC] /\ pc'[p] = "bget" /\ \A q \in Proc \ {p} : pc'[q] = pc[q]
      /\ bp' \in [Proc -> Buf \cup {0}] /\ bp'[p] = 0 /\ \A q \in Proc \ {p} : bp'[q] = bp[q]
      /\ want' \in [Proc -> Sector \cup {NoSector}] /\ want'[p] = s
      /\ \A q \in Proc \ {p} : want'[q] = want[q]
  BY Types, Zenon DEF Bread, PC
<1>4. /\ outer' \in [Proc -> Buf \cup {0}] /\ outer'[p] = bp[p] /\ (bp[p] # 0 => outer[p] = 0)
      /\ \A q \in Proc \ {p} : outer'[q] = outer[q]
  BY <1>1, Types DEF Bread, Nests
<1>5. TypeOK'
  BY <1>2, <1>3, <1>4, Zenon DEF IInv, TypeOK
<1>6. \A q \in Proc : Holds(q)' = Holds(q)
  BY <1>1, <1>3, <1>4
<1>7. OneBuffer'
  BY <1>2, Zenon DEF IInv, OneBuffer
<1>8. Exclusive'
  <2>. HIDE DEF Holds
  <2>. QED  BY <1>2, <1>6 DEF IInv, Exclusive
<1>9. Usable'
  <2>1. \A q \in Proc : \A x \in Holds(q)' : (Busy(x) /\ sector[x] \in Sector)'
    <3>. HIDE DEF Holds
    <3>. QED  BY <1>2, <1>6, Zenon DEF IInv, Usable
  <2>. QED  BY <1>1, <1>2, <1>3, <2>1 DEF IInv, Usable
<1>10. NoLostWakeup'
  BY <1>1, <1>2, <1>3, <1>4 DEF IInv, NoLostWakeup
<1>11. Position'
  BY <1>1, <1>2, <1>3, <1>4 DEF IInv, Position
<1>12. QueueInv'
  <2>1. (\A x \in Queued : ~Synced(x) /\ \E q \in Proc : pc[q] = "io" /\ bp[q] = x)'
    BY <1>1, <1>2, <1>3 DEF IInv, QueueInv
  <2>. QED  BY <1>1, <1>2, <1>3, <2>1 DEF IInv, QueueInv, Request
<1>13. FlagsInv'
  BY <1>2, Zenon DEF IInv, FlagsInv
<1>. QED  BY <1>5, <1>7, <1>8, <1>9, <1>10, <1>11, <1>12, <1>13, Zenon DEF IInv

\* bget takes buffer b, which is not busy, for process p.
LEMMA TakeStep ==
  ASSUME IInv, TypeOK', NEW p \in Proc, NEW b \in Buf,
         pc[p] = "bget", chan[p] = 0, ~Busy(b),
         "B_BUSY" \in flags'[b], "B_DIRTY" \notin flags'[b], sector'[b] = want[p],
         sector[b] = want[p] \/ \A x \in Buf : sector[x] # want[p],
         \A x \in Buf \ {b} : flags'[x] = flags[x] /\ sector'[x] = sector[x],
         bp'[p] = b, pc'[p] = IF "B_VALID" \in flags'[b] THEN "run" ELSE "iderw",
         \A q \in Proc \ {p} : bp'[q] = bp[q] /\ pc'[q] = pc[q] /\ want'[q] = want[q],
         UNCHANGED <<data, idequeue, disk, cmd, ctl, chan, outer>>
  PROVE  IInv'
<1>. USE BufFacts DEF Busy, Synced, Holds
<1>1. /\ bp[p] = 0 /\ want[p] \in Sector
      /\ \A q \in Proc : b # bp[q] /\ b # outer[q] /\ (chan[q] # 0 => chan[q] # b)
  <2>1. \A q \in Proc : b \notin Holds(q)
    BY Zenon DEF IInv, Exclusive
  <2>2. \A q \in Proc : chan[q] # 0 => chan[q] # b
    BY <2>1, Zenon DEF IInv, NoLostWakeup, Position
  <2>. QED  BY <2>1, <2>2, Zenon DEF IInv, Position
<1>2. Queued' = Queued /\ Queued \subseteq Buf \ {b}
  <2>1. Queued \subseteq Buf
    BY QueuedBuf, Zenon DEF IInv, TypeOK
  <2>2. b \notin Queued
    BY <1>1, Zenon DEF IInv, QueueInv
  <2>. QED  BY <2>1, <2>2 DEF Queued
<1>3. /\ \A x \in Buf \ {b} : (Synced(x)' <=> Synced(x)) /\ (Busy(x)' <=> Busy(x))
      /\ Busy(b)' /\ (Synced(b)' <=> pc'[p] = "run")
  BY Zenon
<1>4. /\ Holds(p)' = Holds(p) \cup {b} /\ b \notin Holds(p)
      /\ \A q \in Proc \ {p} : Holds(q)' = Holds(q) /\ b \notin Holds(q)
      /\ \A q \in Proc : Holds(q) \subseteq Buf
  BY <1>1, Types
<1>5. idequeue # <<>> => Head(idequeue) \in Queued
  BY HeadQueued, Zenon DEF IInv, TypeOK
<1>6. OneBuffer'
  BY <1>1 DEF IInv, OneBuffer
<1>7. Exclusive'
  <2>. HIDE DEF Holds, Busy
  <2>. QED  BY <1>3, <1>4 DEF IInv, Exclusive
<1>8. Usable'
  <2>1. (\A q \in Proc : \A x \in Holds(q) : Busy(x) /\ sector[x] \in Sector)'
    <3>. HIDE DEF Holds, Busy
    <3>. QED  BY <1>1, <1>3, <1>4 DEF IInv, Usable
  <2>. QED  BY <1>1, <1>3, <2>1, Types DEF IInv, Usable
<1>9. NoLostWakeup'
  BY <1>1, <1>2, <1>3, Types DEF IInv, NoLostWakeup
<1>10. Position'
  BY <1>1, <1>2, <1>3, Types DEF IInv, Position
<1>11. QueueInv'
  <2>1. (\A x \in Queued : ~Synced(x) /\ \E q \in Proc : pc[q] = "io" /\ bp[q] = x)'
    BY <1>1, <1>2, <1>3 DEF IInv, QueueInv
  <2>2. (\A q \in Proc : pc[q] = "io" /\ ~Synced(bp[q]) => bp[q] \in Queued)'
    BY <1>1, <1>2, <1>3, Types DEF IInv, QueueInv, Position
  <2>3. (idequeue # <<>> => cmd = Request(Head(idequeue)))'
    BY <1>2, <1>5 DEF IInv, QueueInv, Request
  <2>. QED  BY <1>2, <2>1, <2>2, <2>3, Zenon DEF IInv, QueueInv
<1>12. FlagsInv'
  BY <1>1, Zenon DEF IInv, FlagsInv
<1>. QED  BY <1>6, <1>7, <1>8, <1>9, <1>10, <1>11, <1>12, Zenon DEF IInv

\* One pass of bget.
LEMMA BgetInv ==
  ASSUME IInv, NEW p \in Proc, Bget(p)
  PROVE  IInv'
<1>. USE BufFacts
<1>1. /\ pc[p] = "bget" /\ chan[p] = 0 /\ bp[p] = 0
      /\ UNCHANGED <<data, idequeue, disk, cmd, ctl, lru, outer>>
      /\ Queued' = Queued /\ TypeOK
  BY Zenon DEF Bget, ide_vars, Queued, IInv, Position
<1>2. CASE BgetHit(p)
  <2>1. PICK b \in Buf : BgetHit(p)!1!(b)
    BY <1>2, Zenon DEF BgetHit
  <2>2. /\ "B_DIRTY" \notin flags[b]
    BY <2>1, Zenon DEF IInv, FlagsInv
  <2>3. /\ flags' \in [Buf -> SUBSET Flag] /\ bp' \in [Proc -> Buf \cup {0}]
        /\ pc' \in [Proc -> PC] /\ want' \in [Proc -> Sector \cup {NoSector}]
    BY <1>2, <2>1, Types, Zenon DEF BgetHit, Flag, PC
  <2>4. TypeOK'
    BY <1>1, <1>2, <2>3, Zenon DEF BgetHit, TypeOK
  <2>. QED  BY <1>1, <1>2, <2>1, <2>2, <2>4, TakeStep, Types, Zenon DEF BgetHit
<1>3. CASE BgetFresh(p)
  <2>1. PICK b \in Buf : BgetFresh(p)!2!(b)
    BY <1>3, Zenon DEF BgetFresh
  <2>3. /\ flags' \in [Buf -> SUBSET Flag] /\ bp' \in [Proc -> Buf \cup {0}]
        /\ pc' \in [Proc -> PC] /\ want' \in [Proc -> Sector \cup {NoSector}]
        /\ sector' \in [Buf -> Sector \cup {NoSector}]
    BY <1>3, <2>1, Types, Zenon DEF BgetFresh, Flag, PC
  <2>4. TypeOK'
    BY <1>1, <1>3, <2>3, Zenon DEF BgetFresh, TypeOK
  <2>. QED  BY <1>1, <1>3, <2>1, <2>4, TakeStep, Types DEF BgetFresh
<1>4. CASE BgetWait(p)
  <2>. USE DEF Busy, Synced, Holds
  <2>1. PICK b \in Buf : sector[b] = want[p] /\ Busy(b) /\ chan' = [chan EXCEPT ![p] = b]
    BY <1>4, Zenon DEF BgetWait, Sleep
  <2>2. UNCHANGED <<sector, flags, bp, pc, want>>
    BY <1>4, Zenon DEF BgetWait
  <2>3. TypeOK'
    BY <1>1, <2>1, <2>2, Zenon DEF TypeOK
  <2>4. OneBuffer' /\ Exclusive' /\ FlagsInv'
    BY <1>1, <2>2, Zenon DEF IInv, OneBuffer, Exclusive, FlagsInv
  <2>5. Usable' /\ QueueInv'
    BY <1>1, <2>2, Zenon DEF IInv, Usable, QueueInv, Request
  <2>6. NoLostWakeup' /\ Position'
    BY <1>1, <2>1, <2>2 DEF IInv, NoLostWakeup, Position
  <2>. QED  BY <2>3, <2>4, <2>5, <2>6, Zenon DEF IInv
<1>5. CASE BgetPanic(p)
  <2>. USE DEF Busy, Synced, Holds
  <2>1. /\ pc' \in [Proc -> PC] /\ pc'[p] = "panic" /\ \A q \in Proc \ {p} : pc'[q] = pc[q]
        /\ UNCHANGED <<sector, flags, bp, chan, want>>
    BY <1>5, Types, Zenon DEF BgetPanic, PC
  <2>2. TypeOK'
    BY <1>1, <2>1, Zenon DEF TypeOK
  <2>3. OneBuffer' /\ Exclusive' /\ FlagsInv'
    BY <1>1, <2>1, Zenon DEF IInv, OneBuffer, Exclusive, FlagsInv
  <2>4. Usable' /\ NoLostWakeup' /\ Position'
    BY <1>1, <2>1 DEF IInv, Usable, NoLostWakeup, Position
  <2>5. QueueInv'
    BY <1>1, <2>1 DEF IInv, QueueInv, Request
  <2>. QED  BY <2>2, <2>3, <2>4, <2>5, Zenon DEF IInv
<1>. QED  BY <1>2, <1>3, <1>4, <1>5, Zenon DEF Bget

\* bwrite marks the buffer dirty.
LEMMA BwriteInv ==
  ASSUME IInv, NEW p \in Proc, NEW v \in Data, Bwrite(p, v)
  PROVE  IInv'
<1>. USE BufFacts DEF Busy, Synced, Holds
<1>b. PICK b \in Buf : b = bp[p]
  BY Types, Zenon DEF Bwrite
<1>1. /\ pc[p] = "run" /\ pc' = [pc EXCEPT ![p] = "iderw"] /\ chan[p] = 0 /\ Synced(b)
      /\ flags' = [flags EXCEPT ![b] = @ \cup {"B_DIRTY"}] /\ data' = [data EXCEPT ![b] = v]
      /\ UNCHANGED <<sector, idequeue, disk, cmd, ctl, bp, chan, want, outer, lru>>
      /\ Queued' = Queued
  BY <1>b, Zenon DEF Bwrite, ide_vars, Queued, IInv, Position, Usable
<1>2. /\ flags' \in [Buf -> SUBSET Flag] /\ data' \in [Buf -> Data] /\ pc' \in [Proc -> PC]
  BY <1>1, Types, Zenon DEF Flag, PC
<1>3. TypeOK'
  BY <1>1, <1>2, Zenon DEF IInv, TypeOK
<1>4. /\ pc'[p] = "iderw" /\ \A q \in Proc \ {p} : pc'[q] = pc[q]
      /\ \A x \in Buf : Busy(x)' <=> Busy(x)
      /\ ~Synced(b)' /\ \A x \in Buf \ {b} : flags'[x] = flags[x] /\ data'[x] = data[x]
      /\ \A f \in {"B_VALID", "B_BUSY"} : f \in flags'[b] <=> f \in flags[b]
      /\ \A q \in Proc : Holds(q)' = Holds(q) /\ Holds(q) \subseteq Buf
      /\ Busy(b)
  <2>1. Busy(b)
    BY <1>b, Zenon DEF IInv, Usable
  <2>. QED  BY <1>1, <1>2, <2>1, Types
<1>5. \A q \in Proc \ {p} : b # bp[q] /\ b # outer[q]
  BY <1>b, Zenon DEF IInv, Exclusive
<1>6. Queued \subseteq Buf \ {b} /\ (idequeue # <<>> => Head(idequeue) \in Queued)
  <2>1. Queued \subseteq Buf /\ (idequeue # <<>> => Head(idequeue) \in Queued)
    BY QueuedBuf, HeadQueued, Zenon DEF IInv, TypeOK
  <2>2. b \notin Queued
    BY <1>1, Zenon DEF IInv, QueueInv
  <2>. QED  BY <2>1, <2>2, Zenon
<1>7. OneBuffer'
  BY <1>b, <1>1, <1>4, <1>5, <1>6, Zenon DEF IInv, OneBuffer
<1>8. Exclusive'
  <2>. HIDE DEF Holds, Busy
  <2>. QED  BY <1>4 DEF IInv, Exclusive
<1>9. Usable'
  <2>1. (\A q \in Proc : \A x \in Holds(q) : Busy(x) /\ sector[x] \in Sector)'
    <3>. HIDE DEF Holds, Busy
    <3>. QED  BY <1>1, <1>4 DEF IInv, Usable
  <2>. QED  BY <1>b, <1>1, <1>4, <1>5, <2>1, SMTT(60) DEF IInv, Usable
<1>10. NoLostWakeup'
  <2>. HIDE DEF Busy
  <2>. QED  BY <1>1, <1>4, Types DEF IInv, NoLostWakeup
<1>11. Position'
  BY <1>b, <1>1, <1>4, <1>5, <1>6 DEF IInv, Position
<1>12. QueueInv'
  <2>1. (\A x \in Queued : ~Synced(x) /\ \E q \in Proc : pc[q] = "io" /\ bp[q] = x)'
    BY <1>b, <1>1, <1>4, <1>5, <1>6 DEF IInv, QueueInv
  <2>2. (\A q \in Proc : pc[q] = "io" /\ ~Synced(bp[q]) => bp[q] \in Queued)'
    BY <1>b, <1>1, <1>4, <1>5, <1>6 DEF IInv, QueueInv, Position
  <2>3. (idequeue # <<>> => cmd = Request(Head(idequeue)))'
    BY <1>1, <1>4, <1>6 DEF IInv, QueueInv, Request
  <2>. QED  BY <1>1, <2>1, <2>2, <2>3, Zenon DEF IInv, QueueInv
<1>13. FlagsInv'
  BY <1>b, <1>1, <1>4, <1>5, <1>6, Zenon DEF IInv, FlagsInv
<1>. QED  BY <1>3, <1>7, <1>8, <1>9, <1>10, <1>11, <1>12, <1>13, Zenon DEF IInv

\* brelse puts the buffer back and wakes who waits for it.
LEMMA BrelseInv ==
  ASSUME IInv, NEW p \in Proc, Brelse(p)
  PROVE  IInv'
<1>. USE BufFacts DEF Busy, Synced, Holds
<1>b. PICK b \in Buf : b = bp[p]
  BY Types, Zenon DEF Brelse
<1>1. /\ pc[p] = "run" /\ chan[p] = 0 /\ Synced(b)
      /\ flags' = [flags EXCEPT ![b] = @ \ {"B_BUSY"}]
      /\ bp' = [bp EXCEPT ![p] = outer[p]] /\ outer' = [outer EXCEPT ![p] = 0]
      /\ chan' = [q \in Proc |-> IF chan[q] = b THEN 0 ELSE chan[q]]
      /\ UNCHANGED <<sector, data, idequeue, disk, cmd, ctl, pc, want>>
      /\ Queued' = Queued
  BY <1>b, Zenon DEF Brelse, ide_vars, Queued, Wakeup, IInv, Position, Usable
<1>2. /\ flags' \in [Buf -> SUBSET Flag] /\ bp' \in [Proc -> Buf \cup {0}]
      /\ outer' \in [Proc -> Buf \cup {0}] /\ chan' \in [Proc -> Buf \cup {0}]
      /\ lru' \in [Buf -> Nat]
  <2>1. lru \in [Buf -> Nat]
    BY Zenon DEF IInv, TypeOK
  <2>2. lru' \in [Buf -> Nat]
    BY <2>1, Types DEF Brelse
  <2>. QED  BY <1>1, <2>2, Types, Zenon DEF Flag
<1>3. TypeOK'
  BY <1>1, <1>2, Zenon DEF IInv, TypeOK
<1>4. /\ outer[p] # b /\ (outer[p] # 0 => Synced(outer[p]))
      /\ \A q \in Proc \ {p} : b # bp[q] /\ b # outer[q]
  BY <1>b, Types DEF IInv, Exclusive, Position
<1>5. /\ bp'[p] = outer[p] /\ outer'[p] = 0 /\ chan'[p] = 0
      /\ \A q \in Proc \ {p} : bp'[q] = bp[q] /\ outer'[q] = outer[q]
      /\ \A q \in Proc : chan'[q] # 0 => chan'[q] = chan[q] /\ chan[q] # b
      /\ \A x \in Buf \ {b} : flags'[x] = flags[x]
      /\ ~Busy(b)' /\ Synced(b)'
      /\ \A x \in Buf : Synced(x)' <=> Synced(x)
  BY <1>1, <1>2, Zenon
<1>6. Queued \subseteq Buf \ {b} /\ (idequeue # <<>> => Head(idequeue) \in Queued)
  <2>1. Queued \subseteq Buf /\ (idequeue # <<>> => Head(idequeue) \in Queued)
    BY QueuedBuf, HeadQueued, Zenon DEF IInv, TypeOK
  <2>2. b \notin Queued
    BY <1>1, Zenon DEF IInv, QueueInv
  <2>. QED  BY <2>1, <2>2, Zenon
<1>7. /\ Holds(p)' = Holds(p) \ {b} /\ b \in Holds(p)
      /\ \A q \in Proc \ {p} : Holds(q)' = Holds(q) /\ b \notin Holds(q)
      /\ \A q \in Proc : Holds(q) \subseteq Buf
  BY <1>b, <1>4, <1>5, Types
<1>8. \A x \in Buf \ {b} : Busy(x)' <=> Busy(x)
  BY <1>5, Zenon
<1>9. OneBuffer'
  BY <1>1, Zenon DEF IInv, OneBuffer
<1>10. Exclusive'
  <2>. HIDE DEF Holds, Busy
  <2>. QED  BY <1>5, <1>7, <1>8, SMTT(60) DEF IInv, Exclusive
<1>11. Usable'
  <2>1. (\A q \in Proc : \A x \in Holds(q) : Busy(x) /\ sector[x] \in Sector)'
    <3>. HIDE DEF Holds, Busy
    <3>. QED  BY <1>1, <1>7, <1>8, Zenon DEF IInv, Usable
  <2>. QED  BY <1>b, <1>1, <1>4, <1>5, <2>1 DEF IInv, Usable
<1>12. NoLostWakeup'
  BY <1>1, <1>4, <1>5, <1>6 DEF IInv, NoLostWakeup
<1>13. Position'
  BY <1>b, <1>1, <1>4, <1>5, <1>6 DEF IInv, Position
<1>14. QueueInv'
  <2>1. (\A x \in Queued : ~Synced(x) /\ \E q \in Proc : pc[q] = "io" /\ bp[q] = x)'
    BY <1>1, <1>5, <1>6, Types, Zenon DEF IInv, QueueInv
  <2>2. (\A q \in Proc : pc[q] = "io" /\ ~Synced(bp[q]) => bp[q] \in Queued)'
    <3>1. \A q \in Proc : pc[q] = "io" => q # p /\ bp[q] \in Buf
      BY <1>1, Types, Zenon DEF IInv, Position
    <3>2. \A q \in Proc : pc[q] = "io" /\ ~Synced(bp[q]) => bp[q] \in Queued
      BY Zenon DEF IInv, QueueInv
    <3>3. \A q \in Proc : pc'[q] = "io" => pc[q] = "io" /\ bp'[q] = bp[q]
      BY <1>1, <1>5, <3>1, Zenon
    <3>4. \A x \in Buf : Synced(x)' <=> Synced(x)
      BY <1>5, Zenon
    <3>. SUFFICES ASSUME NEW q \in Proc, pc'[q] = "io", ~Synced(bp[q])' PROVE bp'[q] \in Queued'
      BY Zenon
    <3>5. pc[q] = "io" /\ bp'[q] = bp[q] /\ bp[q] \in Buf
      BY <3>1, <3>3, Zenon
    <3>6. ~Synced(bp[q])
      BY <3>4, <3>5, Zenon
    <3>. HIDE DEF Synced
    <3>. QED  BY <1>1, <3>2, <3>5, <3>6
  <2>3. (idequeue # <<>> => cmd = Request(Head(idequeue)))'
    BY <1>1, <1>5, <1>6, Types, Zenon DEF IInv, QueueInv, Request
  <2>. QED  BY <1>1, <2>1, <2>2, <2>3, Zenon DEF IInv, QueueInv
<1>15. FlagsInv'
  BY <1>1, <1>5, Zenon DEF IInv, FlagsInv
<1>. QED  BY <1>3, <1>9, <1>10, <1>11, <1>12, <1>13, <1>14, <1>15, Zenon DEF IInv

\* Every step of the driver, the cache and the machine preserves IInv.
LEMMA NextInv ==
  ASSUME IInv, [Next]_vars
  PROVE  IInv'
<1>1. CASE IdeStep
  BY <1>1, DiskInv, IdeintrInv, IderwQueueInv, IderwReturnInv, Zenon DEF IdeStep
<1>2. ASSUME NEW p \in Proc, Bget(p) \/ Brelse(p) \/ Kill(p) PROVE IInv'
  BY <1>2, BgetInv, BrelseInv, WakeInv, Zenon
<1>3. ASSUME NEW p \in Proc, NEW s \in Sector, Bread(p, s) PROVE IInv'
  BY <1>3, BreadInv, Zenon
<1>4. ASSUME NEW p \in Proc, NEW v \in Data, Bwrite(p, v) PROVE IInv'
  BY <1>4, BwriteInv, Zenon
<1>5. CASE Crash
  BY <1>5, CrashInv, Zenon
<1>6. CASE UNCHANGED vars
  BY <1>6, StutterInv, Zenon
<1>. QED  BY <1>1, <1>2, <1>3, <1>4, <1>5, <1>6, Zenon DEF Next

-----------------------------------------------------------------------------
\* The inductive invariant holds in every reachable state.
THEOREM Invariance == Spec => []IInv
<1>1. Init => IInv
  BY CacheInit, Zenon DEF Init
<1>2. IInv /\ [Next]_vars => IInv'
  BY NextInv, Zenon
<1>. QED  BY <1>1, <1>2, PTL DEF Spec

\* Every variable keeps its type.
THEOREM TypeCorrect == Spec => []TypeOK
  BY Invariance, PTL DEF IInv

\* bget never leaves two buffers for one sector.
THEOREM NoDuplicates == Spec => []OneBuffer
  BY Invariance, PTL DEF IInv

\* B_BUSY is a lock: set exactly while one process has the buffer.
THEOREM BusyIsALock == Spec => []Exclusive
  BY Invariance, PTL DEF IInv

\* The panics of iderw, bwrite and brelse are unreachable, and no process
\* uses a buffer whose transfer is not complete.
THEOREM BuffersUsable == Spec => []Usable
  BY Invariance, PTL DEF IInv

\* Whoever sleeps in bget or iderw is still to be woken.
THEOREM SleepersAreWoken == Spec => []NoLostWakeup
  BY Invariance, PTL DEF IInv

-----------------------------------------------------------------------------
(* Enough buffers.                                                           *)

\* The indices of the buffers.
LEMMA BufIndex == Buf = 1..NBUF /\ 0 \notin Buf
  BY IdeAssumption DEF Buf

\* A buffer that is held around another one caches an Outer sector.
NestInv == \A p \in Proc : outer[p] # 0 => sector[outer[p]] \in Outer

\* There are buffers for all that the processes can hold at a time, one of them
\* in bget: a second one for each, or for each Outer sector.
Enough == \/ NBUF >= Cardinality(Proc) + Cardinality(Proc)
          \/ IsFiniteSet(Outer) /\ NBUF >= Cardinality(Proc) + Cardinality(Outer)

\* Counting with an injection.
LEMMA Inject ==
  ASSUME NEW S, NEW T, IsFiniteSet(T), NEW f \in [S -> T], \A a, b \in S : f[a] = f[b] => a = b
  PROVE  IsFiniteSet(S) /\ Cardinality(S) <= Cardinality(T)
<1>1. f \in Injection(S, T)
  BY Zenon DEF Injection, IsInjective
<1>. QED  BY <1>1, FS_Injection, Zenon

\* When a process looks for a buffer, not all of them are busy.
LEMMA NotAllBusy ==
  ASSUME IInv, NestInv, IsFiniteSet(Proc), Enough, NEW p \in Proc, pc[p] = "bget",
         \A b \in Buf : Busy(b)
  PROVE  FALSE
<1>1. /\ bp[p] = 0 /\ bp \in [Proc -> Buf \cup {0}] /\ outer \in [Proc -> Buf \cup {0}]
      /\ sector \in [Buf -> Sector \cup {NoSector}]
  BY Zenon DEF IInv, TypeOK, Position
<1>2. DEFINE I == {b \in Buf : \E q \in Proc : bp[q] = b}
             O == {b \in Buf : \E q \in Proc : outer[q] = b}
<1>3. Buf = I \cup O
  <2>1. ASSUME NEW b \in Buf PROVE b \in I \cup O
    <3>1. PICK q \in Proc : b \in Holds(q)
      BY Zenon DEF IInv, Exclusive
    <3>. QED  BY <3>1, Zenon DEF Holds
  <2>. QED  BY <2>1, Zenon
<1>4. /\ IsFiniteSet(Proc \ {p}) /\ Cardinality(Proc \ {p}) = Cardinality(Proc) - 1
      /\ Cardinality(Proc) \in Nat
  BY FS_RemoveElement, FS_CardinalityType, Zenon
<1>5. IsFiniteSet(I) /\ Cardinality(I) <= Cardinality(Proc) - 1
  <2>1. PICK f : f = [b \in I |-> CHOOSE q \in Proc : bp[q] = b]
    BY Zenon
  <2>2. ASSUME NEW b \in I PROVE f[b] \in Proc \ {p} /\ bp[f[b]] = b
    <3>1. f[b] \in Proc /\ bp[f[b]] = b
      BY <2>1, <2>2, Zenon
    <3>2. b # 0
      BY BufIndex, <2>2, Zenon
    <3>. QED  BY <1>1, <3>1, <3>2, Zenon
  <2>3. f \in [I -> Proc \ {p}] /\ \A a, b \in I : f[a] = f[b] => a = b
    <3>1. f \in [I -> Proc \ {p}]
      BY <2>1, <2>2, Zenon
    <3>. QED  BY <2>2, <3>1, Zenon
  <2>. HIDE DEF I
  <2>. QED  BY <1>4, <2>3, Inject, Zenon
<1>6. IsFiniteSet(O) /\ Cardinality(O) <= Cardinality(Proc)
  <2>1. PICK f : f = [b \in O |-> CHOOSE q \in Proc : outer[q] = b]
    BY Zenon
  <2>2. ASSUME NEW b \in O PROVE f[b] \in Proc /\ outer[f[b]] = b
    BY <2>1, <2>2, Zenon
  <2>3. f \in [O -> Proc] /\ \A a, b \in O : f[a] = f[b] => a = b
    <3>1. f \in [O -> Proc]
      BY <2>1, <2>2, Zenon
    <3>. QED  BY <2>2, <3>1, Zenon
  <2>. HIDE DEF O
  <2>. QED  BY <2>3, Inject, Zenon
<1>7. IsFiniteSet(Outer) => Cardinality(O) <= Cardinality(Outer) /\ Cardinality(Outer) \in Nat
  <2>. SUFFICES ASSUME IsFiniteSet(Outer)
                PROVE  Cardinality(O) <= Cardinality(Outer) /\ Cardinality(Outer) \in Nat
    BY Zenon
  <2>1. PICK f : f = [b \in O |-> sector[b]]
    BY Zenon
  <2>2. ASSUME NEW b \in O PROVE sector[b] \in Outer /\ sector[b] # NoSector /\ b \in Buf
    <3>1. PICK q \in Proc : outer[q] = b
      BY <2>2, Zenon
    <3>2. b # 0 /\ b \in Buf
      BY BufIndex, <2>2, Zenon
    <3>3. sector[b] \in Outer
      BY <3>1, <3>2, Zenon DEF NestInv
    <3>. QED  BY <3>2, <3>3, BioAssumption, IdeAssumption, Zenon
  <2>3. \A b \in O : f[b] = sector[b]
    BY <2>1, Zenon
  <2>4. f \in [O -> Outer]
    BY <2>1, <2>2, Zenon
  <2>5. \A a, b \in O : f[a] = f[b] => a = b
    BY <2>2, <2>3, Zenon DEF IInv, OneBuffer
  <2>. HIDE DEF O
  <2>. QED  BY <2>4, <2>5, Inject, FS_CardinalityType, Zenon
<1>8. Cardinality(Buf) = NBUF /\ NBUF \in Nat
  <2>1. NBUF \in Nat /\ NBUF > 0 /\ 1 \in Int /\ NBUF \in Int
    BY IdeAssumption
  <2>2. Cardinality(1..NBUF) = IF 1 > NBUF THEN 0 ELSE NBUF - 1 + 1
    BY <2>1, FS_Interval, Zenon
  <2>3. Cardinality(1..NBUF) = NBUF
    BY <2>1, <2>2
  <2>. QED  BY <2>1, <2>3, BufIndex, Zenon
<1>. HIDE DEF I, O
<1>9. /\ Cardinality(Buf) = Cardinality(I) + Cardinality(O) - Cardinality(I \cap O)
      /\ Cardinality(I) \in Nat /\ Cardinality(O) \in Nat /\ Cardinality(I \cap O) \in Nat
  <2>1. IsFiniteSet(I \cap O)
    BY <1>5, FS_Intersection, Zenon
  <2>. QED  BY <1>3, <1>5, <1>6, <2>1, FS_Union, FS_CardinalityType, Zenon
<1>10. PICK n \in Nat, i \in Nat, o \in Nat, x \in Nat :
         n = Cardinality(Proc) /\ i = Cardinality(I) /\ o = Cardinality(O) /\ x = Cardinality(I \cap O)
  BY <1>4, <1>9, Zenon
<1>11. i <= n - 1 /\ o <= n /\ NBUF = i + o - x
  BY <1>5, <1>6, <1>8, <1>9, <1>10, Zenon
<1>12. CASE NBUF >= n + n
  BY <1>8, <1>11, <1>12
<1>13. CASE IsFiniteSet(Outer) /\ NBUF >= n + Cardinality(Outer)
  <2>1. PICK m \in Nat : m = Cardinality(Outer)
    BY <1>7, <1>13, Zenon
  <2>2. o <= m /\ NBUF >= n + m
    BY <1>7, <1>10, <1>13, <2>1, Zenon
  <2>. QED  BY <1>8, <1>11, <2>2
<1>. QED  BY <1>10, <1>12, <1>13, Zenon DEF Enough

\* Every step keeps Outer buffers Outer.
LEMMA NestNext ==
  ASSUME IInv, NestInv, [Next]_vars
  PROVE  NestInv'
<1>1. /\ outer \in [Proc -> Buf \cup {0}] /\ bp \in [Proc -> Buf \cup {0}]
      /\ sector \in [Buf -> Sector \cup {NoSector}]
  BY Zenon DEF IInv, TypeOK
<1>2. CASE UNCHANGED <<sector, outer>>
  BY <1>2, Zenon DEF NestInv
<1>3. ASSUME NEW p \in Proc, NEW s \in Sector, Bread(p, s)
      PROVE  NestInv'
  <2>1. sector' = sector /\ (outer' = outer \/ (sector[bp[p]] \in Outer /\ outer' = [outer EXCEPT ![p] = bp[p]]))
    BY <1>3, Zenon DEF Bread, Nests
  <2>2. ASSUME NEW q \in Proc, outer'[q] # 0
        PROVE  sector'[outer'[q]] \in Outer
    <3>1. outer'[q] = outer[q] \/ (q = p /\ outer'[q] = bp[p] /\ sector[bp[p]] \in Outer)
      BY <1>1, <2>1, Zenon
    <3>. QED  BY <2>1, <2>2, <3>1, Zenon DEF NestInv
  <2>. QED  BY <2>2, Zenon DEF NestInv
<1>4. ASSUME NEW p \in Proc, Bget(p)
      PROVE  NestInv'
  <2>1. outer' = outer
    BY <1>4, Zenon DEF Bget
  <2>2. ASSUME NEW q \in Proc, outer[q] # 0
        PROVE  sector'[outer[q]] = sector[outer[q]]
    <3>1. outer[q] \in Buf /\ Busy(outer[q])
      BY <1>1, <2>2, Zenon DEF IInv, Exclusive, Holds
    <3>2. CASE sector' = sector
      BY <3>2, Zenon
    <3>3. CASE BgetFresh(p)
      <4>1. PICK b \in Buf : ~Busy(b) /\ sector' = [sector EXCEPT ![b] = want[p]]
        BY <3>3, Zenon DEF BgetFresh
      <4>. QED  BY <1>1, <3>1, <4>1, Zenon
    <3>. QED  BY <1>4, <3>2, <3>3, Zenon DEF Bget, BgetHit, BgetWait, BgetPanic
  <2>. QED  BY <2>1, <2>2, Zenon DEF NestInv
<1>5. ASSUME NEW p \in Proc, Brelse(p)
      PROVE  NestInv'
  <2>1. sector' = sector /\ outer' = [outer EXCEPT ![p] = 0]
    BY <1>5, Zenon DEF Brelse
  <2>2. \A q \in Proc : outer'[q] = 0 \/ outer'[q] = outer[q]
    BY <1>1, <2>1, Zenon
  <2>. QED  BY <2>1, <2>2, Zenon DEF NestInv
<1>6. CASE Crash
  BY <1>6, Zenon DEF Crash, NestInv
<1>7. ASSUME NEW p \in Proc, Kill(p) \/ \E v \in Data : Bwrite(p, v)
      PROVE  UNCHANGED <<sector, outer>>
  BY <1>7, Zenon DEF Kill, Bwrite
<1>8. ASSUME IdeStep PROVE UNCHANGED <<sector, outer>>
  BY <1>8, Zenon DEF IdeStep, DiskDone, DiskFails, Ideintr, IderwQueue, IderwReturn
<1>9. CASE UNCHANGED vars
  BY <1>2, <1>9, Zenon DEF vars
<1>. QED  BY <1>2, <1>3, <1>4, <1>5, <1>6, <1>7, <1>8, <1>9, Zenon DEF Next

\* No step of a system with enough buffers panics.
LEMMA NoPanicNext ==
  ASSUME IInv, NestInv, IsFiniteSet(Proc), Enough, NoPanic, [Next]_vars
  PROVE  NoPanic'
<1>1. pc \in [Proc -> PC] /\ \A q \in Proc : pc[q] # "panic"
  BY Zenon DEF IInv, TypeOK, NoPanic, Panicked
<1>. SUFFICES \A q \in Proc : pc'[q] # "panic"
  BY Zenon DEF NoPanic, Panicked
<1>2. ASSUME NEW p \in Proc, Bget(p)
      PROVE  \A q \in Proc : pc'[q] # "panic"
  <2>1. pc[p] = "bget" /\ (BgetHit(p) \/ BgetWait(p) \/ BgetFresh(p) \/ BgetPanic(p))
    BY <1>2, Zenon DEF Bget
  <2>2. ~BgetPanic(p)
    BY <2>1, NotAllBusy, Zenon DEF BgetPanic
  <2>3. CASE BgetHit(p)
    BY <1>1, <2>3, Zenon DEF BgetHit
  <2>. QED  BY <1>1, <2>1, <2>2, <2>3, Zenon DEF BgetWait, BgetFresh
<1>3. ASSUME NEW p \in Proc, \/ Brelse(p) \/ Kill(p) \/ \E s \in Sector : Bread(p, s)
                             \/ \E v \in Data : Bwrite(p, v)
      PROVE  \A q \in Proc : pc'[q] # "panic"
  BY <1>1, <1>3, Zenon DEF Brelse, Kill, Bread, Bwrite
<1>4. ASSUME IdeStep PROVE \A q \in Proc : pc'[q] # "panic"
  BY <1>1, <1>4, Zenon DEF IdeStep, DiskDone, DiskFails, Ideintr, IderwQueue, IderwReturn
<1>5. ASSUME Crash PROVE \A q \in Proc : pc'[q] # "panic"
  BY <1>5, Zenon DEF Crash
<1>6. CASE UNCHANGED vars
  BY <1>1, <1>6, Zenon DEF vars
<1>. QED  BY <1>2, <1>3, <1>4, <1>5, <1>6, Zenon DEF Next

\* bget finds a buffer, if there are enough for all that the processes can hold
\* at a time: "bget: no buffers" (bio.c:92) is unreachable.
THEOREM BuffersSuffice ==
  ASSUME IsFiniteSet(Proc), Enough
  PROVE  Spec => []NoPanic
<1>1. Init => NestInv /\ NoPanic
  BY Zenon DEF Init, InitCache, NestInv, NoPanic, Panicked
<1>2. IInv /\ NestInv /\ NoPanic /\ [Next]_vars => NestInv' /\ NoPanic'
  BY NestNext, NoPanicNext, Zenon
<1>. QED  BY <1>1, <1>2, Invariance, PTL DEF Spec

-----------------------------------------------------------------------------
(* Coherence, and the refinement mapping of Bio, step by step.               *)

\* With a disk that does not fail, no step makes a buffer differ from the disk.
CoherentInv == Coherent /\ ctl # "error"

\* Every step preserves coherence, if the disk completes every command.
LEMMA CoherentNext ==
  ASSUME IInv, ~DiskErrors, CoherentInv, [Next]_vars
  PROVE  CoherentInv'
<1>. USE BufFacts DEF Synced
<1>1. ASSUME DiskDone PROVE CoherentInv'
  <2>1. PICK b \in Buf : b = Head(idequeue) /\ b \in Queued /\ cmd = Request(b) /\ ~Synced(b)
    BY <1>1, HeadQueued, QueuedBuf, Zenon DEF DiskDone, IInv, TypeOK, NoLostWakeup, QueueInv
  <2>2. \A x \in Buf : Synced(x) => x # b /\ sector[x] \in Sector /\ sector[x] # cmd.sector
    BY <2>1, Zenon DEF IInv, FlagsInv, OneBuffer, Request
  <2>. QED  BY <1>1, <2>2 DEF DiskDone, CoherentInv, Coherent
<1>2. ASSUME Ideintr PROVE CoherentInv'
  <2>1. PICK b \in Buf : b = Head(idequeue)
    BY <1>2 DEF Ideintr, IInv, TypeOK
  <2>2. /\ ctl = "done" /\ cmd.op = (IF "B_DIRTY" \in flags[b] THEN "write" ELSE "read")
        /\ cmd.sector = sector[b] /\ cmd.data = data[b]
        /\ (cmd.op = "write" => disk[cmd.sector] = cmd.data)
    BY <1>2, <2>1 DEF Ideintr, CoherentInv, IInv, QueueInv, Request
  <2>3. /\ data' = IF "B_DIRTY" \notin flags[b] THEN [data EXCEPT ![b] = disk[sector[b]]] ELSE data
        /\ flags' = [flags EXCEPT ![b] = (@ \cup {"B_VALID"}) \ {"B_DIRTY"}]
        /\ UNCHANGED <<sector, disk>> /\ ctl' # "error"
    BY <1>2, <2>1, <2>2, Zenon DEF Ideintr, Idestart
  <2>4. data'[b] = disk[sector[b]]
    BY <2>2, <2>3, Types, Zenon
  <2>5. \A x \in Buf \ {b} : data'[x] = data[x] /\ flags'[x] = flags[x]
    BY <2>3
  <2>. QED  BY <2>3, <2>4, <2>5, Zenon DEF CoherentInv, Coherent
<1>3. ASSUME NEW p \in Proc, IderwQueue(p) \/ IderwReturn(p) PROVE CoherentInv'
  BY <1>3 DEF IderwQueue, IderwReturn, Idestart, disk_vars, CoherentInv, Coherent
<1>4. ASSUME NEW p \in Proc, Bget(p) PROVE CoherentInv'
  <2>1. UNCHANGED <<data, disk, ctl>>
    BY <1>4, Zenon DEF Bget, ide_vars
  <2>2. \A x \in Buf : Synced(x)' => Synced(x) /\ sector'[x] = sector[x]
    BY <1>4, Types DEF Bget, BgetHit, BgetWait, BgetFresh, BgetPanic
  <2>. QED  BY <2>1, <2>2, Zenon DEF CoherentInv, Coherent
<1>5. ASSUME NEW p \in Proc, NEW v \in Data, Bwrite(p, v) PROVE CoherentInv'
  <2>1. \A x \in Buf : Synced(x)' => Synced(x) /\ data'[x] = data[x]
    BY <1>5, Types, Zenon DEF Bwrite
  <2>. QED  BY <1>5, <2>1, Zenon DEF Bwrite, ide_vars, CoherentInv, Coherent
<1>6. ASSUME NEW p \in Proc, Brelse(p) PROVE CoherentInv'
  BY <1>6 DEF Brelse, ide_vars, CoherentInv, Coherent
<1>7. ASSUME NEW p \in Proc, Kill(p) \/ \E s \in Sector : Bread(p, s) PROVE CoherentInv'
  BY <1>7 DEF Kill, Bread, ide_vars, CoherentInv, Coherent
<1>8. ASSUME Crash PROVE CoherentInv'
  BY <1>8, Zenon DEF Crash, CoherentInv, Coherent
<1>9. CASE UNCHANGED vars
  BY <1>9, Zenon DEF vars, disk_vars, CoherentInv, Coherent
<1>. QED  BY <1>1, <1>2, <1>3, <1>4, <1>5, <1>6, <1>7, <1>8, <1>9, Zenon DEF Next, IdeStep, DiskFails

\* If the disk completes every command, a buffer without a pending transfer
\* holds what is on the disk, for any number of processes and buffers.
THEOREM CacheCoherent == ASSUME ~DiskErrors PROVE Spec => []Coherent
<1>1. Init => CoherentInv
  BY Zenon DEF Init, InitCache, CoherentInv, Coherent, Synced
<1>2. IInv /\ CoherentInv /\ [Next]_vars => CoherentInv'
  BY CoherentNext, Zenon
<1>3. CoherentInv => Coherent
  BY Zenon DEF CoherentInv
<1>. QED  BY <1>1, <1>2, <1>3, Invariance, PTL DEF Spec

-----------------------------------------------------------------------------
\* Process p has a session on buffer b.
Shows(p, b) == b \in Holds(p) /\ "B_VALID" \in flags[b]

\* The members of Sessions, before and after a step.
LEMMA SessionsDef ==
  \A x : x \in Sessions <=> \E p \in Proc : \E b : Shows(p, b) /\ x = SessionOf(p, b)
  BY DEF Sessions, Shows

\* The sessions after a step, pointwise.
LEMMA SessionsDefPrime ==
  \A x : x \in Sessions' <=> \E p \in Proc : \E b : Shows(p, b)' /\ x = SessionOf(p, b)'
  BY DEF Sessions, Shows

\* Only buffers are held, and each by one process.
LEMMA ShowsFacts ==
  ASSUME IInv
  PROVE  /\ \A p \in Proc : \A b : Shows(p, b) => b \in Buf /\ Busy(b) /\ sector[b] \in Sector
         /\ \A p, q \in Proc : \A b : Shows(p, b) /\ Shows(q, b) => p = q
         /\ \A p, q \in Proc : \A a, b : Shows(p, a) /\ Shows(q, b) /\ SessionOf(p, a).sector = SessionOf(q, b).sector
                                 => p = q /\ a = b
<1>1. \A p \in Proc : Holds(p) \subseteq Buf
  BY Types DEF Holds
<1>2. \A p \in Proc : \A b : Shows(p, b) => b \in Buf /\ Busy(b) /\ sector[b] \in Sector
  BY <1>1, Zenon DEF Shows, IInv, Usable
<1>3. \A p, q \in Proc : \A b : Shows(p, b) /\ Shows(q, b) => p = q
  BY <1>1, Zenon DEF Shows, IInv, Exclusive
<1>4. \A p, q \in Proc : \A a, b : Shows(p, a) /\ Shows(q, b) /\ sector[a] = sector[b] => a = b
  BY <1>2, BufFacts, Zenon DEF IInv, OneBuffer
<1>. QED  BY <1>2, <1>3, <1>4 DEF SessionOf

\* How the sessions change with what a step does to the buffers.
LEMMA SessionsSame ==
  ASSUME \A p \in Proc : \A b : Shows(p, b)' <=> Shows(p, b),
         \A p \in Proc : \A b : Shows(p, b) => SessionOf(p, b)' = SessionOf(p, b)
  PROVE  Sessions' = Sessions
  BY SessionsDef, SessionsDefPrime

\* One more buffer shows its contents: one more session.
LEMMA SessionsAdd ==
  ASSUME NEW p0 \in Proc, NEW b0,
         \A p \in Proc : \A b : Shows(p, b)' <=> Shows(p, b) \/ (p = p0 /\ b = b0),
         \A p \in Proc : \A b : Shows(p, b) => SessionOf(p, b)' = SessionOf(p, b)
  PROVE  Sessions' = Sessions \cup {SessionOf(p0, b0)'}
<1>1. ASSUME NEW x \in Sessions' PROVE x \in Sessions \/ x = SessionOf(p0, b0)'
  BY SessionsDef, SessionsDefPrime
<1>2. ASSUME NEW x \in Sessions PROVE x \in Sessions'
  BY SessionsDef, SessionsDefPrime
<1>3. SessionOf(p0, b0)' \in Sessions'
  BY SessionsDefPrime, Zenon
<1>. QED  BY <1>1, <1>2, <1>3, Zenon

\* One buffer less shows its contents: one session less.
LEMMA SessionsDrop ==
  ASSUME IInv, NEW p0 \in Proc, NEW b0, Shows(p0, b0),
         \A p \in Proc : \A b : Shows(p, b)' <=> Shows(p, b) /\ ~(p = p0 /\ b = b0),
         \A p \in Proc : \A b : Shows(p, b)' => SessionOf(p, b)' = SessionOf(p, b)
  PROVE  Sessions' = Sessions \ {SessionOf(p0, b0)}
<1>1. ASSUME NEW x \in Sessions' PROVE x \in Sessions /\ x # SessionOf(p0, b0)
  <2>0. PICK p \in Proc : \E b : Shows(p, b)' /\ x = SessionOf(p, b)'
    BY SessionsDefPrime, Zenon
  <2>1. PICK b : Shows(p, b)' /\ x = SessionOf(p, b)'
    BY <2>0, Zenon
  <2>2. x = SessionOf(p, b) /\ Shows(p, b) /\ ~(p = p0 /\ b = b0)
    BY <2>1, Zenon
  <2>. QED  BY <2>2, ShowsFacts, SessionsDef, Zenon
<1>2. ASSUME NEW x \in Sessions, x # SessionOf(p0, b0) PROVE x \in Sessions'
  BY <1>2, SessionsDef, SessionsDefPrime
<1>. QED  BY <1>1, <1>2, Zenon

\* The buffer of one session changes: the session is replaced.
LEMMA SessionsChange ==
  ASSUME IInv, NEW p0 \in Proc, NEW b0, Shows(p0, b0),
         \A p \in Proc : \A b : Shows(p, b)' <=> Shows(p, b),
         \A p \in Proc : \A b : Shows(p, b) /\ b # b0 => SessionOf(p, b)' = SessionOf(p, b)
  PROVE  Sessions' = (Sessions \ {SessionOf(p0, b0)}) \cup {SessionOf(p0, b0)'}
<1>1. ASSUME NEW x \in Sessions'
      PROVE  x = SessionOf(p0, b0)' \/ (x \in Sessions /\ x # SessionOf(p0, b0))
  <2>0. PICK p \in Proc : \E b : Shows(p, b)' /\ x = SessionOf(p, b)'
    BY SessionsDefPrime, Zenon
  <2>1. PICK b : Shows(p, b)' /\ x = SessionOf(p, b)'
    BY <2>0, Zenon
  <2>2. CASE b = b0
    BY <2>1, <2>2, ShowsFacts, Zenon
  <2>3. CASE b # b0
    BY <2>1, <2>3, ShowsFacts, SessionsDef
  <2>. QED  BY <2>2, <2>3, Zenon
<1>2. ASSUME NEW x \in Sessions, x # SessionOf(p0, b0) PROVE x \in Sessions'
  <2>0. PICK p \in Proc : \E b : Shows(p, b) /\ x = SessionOf(p, b)
    BY SessionsDef, Zenon
  <2>1. PICK b : Shows(p, b) /\ x = SessionOf(p, b)
    BY <2>0, Zenon
  <2>2. b # b0
    BY <1>2, <2>1, ShowsFacts
  <2>. QED  BY <2>1, <2>2, SessionsDefPrime, Zenon
<1>3. SessionOf(p0, b0)' \in Sessions'
  BY SessionsDefPrime, Zenon
<1>. QED  BY <1>1, <1>2, <1>3, Zenon
-----------------------------------------------------------------------------
\* What a step of the cache is for the store.
StoreStep == Store!StoreNext \/ UNCHANGED <<disk, Sessions>>

\* The disk completes a command: a write commits, a read changes nothing yet.
LEMMA DiskDoneStep ==
  ASSUME IInv, DiskDone, UNCHANGED <<lru, want, outer>>
  PROVE  StoreStep
<1>1. PICK b \in Buf : b = Head(idequeue)
  BY DEF DiskDone, IInv, TypeOK, NoLostWakeup
<1>2. idequeue # <<>> /\ b \in Queued /\ cmd = Request(b)
  BY <1>1, HeadQueued, Zenon DEF DiskDone, IInv, TypeOK, NoLostWakeup, QueueInv
<1>3. PICK p \in Proc : pc[p] = "io" /\ bp[p] = b
  BY <1>2, Zenon DEF IInv, QueueInv
<1>4. /\ ctl = "busy" /\ ctl' = "done"
      /\ UNCHANGED <<sector, flags, data, idequeue, bp, outer>>
      /\ disk' = IF cmd.op = "write" THEN [disk EXCEPT ![cmd.sector] = cmd.data] ELSE disk
  BY Zenon DEF DiskDone
<1>5. \A q \in Proc : \A x : Shows(q, x)' <=> Shows(q, x)
  BY <1>4, Zenon DEF Shows, Holds
<1>6. \A q \in Proc : \A x : Shows(q, x) /\ x # b => SessionOf(q, x)' = SessionOf(q, x)
  BY <1>1, <1>4, Zenon DEF SessionOf, Phase
<1>7. CASE "B_DIRTY" \in flags[b]
  <2>1. "B_VALID" \in flags[b] /\ Shows(p, b)
    BY <1>3, <1>7, BufFacts, Zenon DEF IInv, FlagsInv, Shows, Holds
  <2>2. SessionOf(p, b).phase = "writing" /\ SessionOf(p, b)' = [SessionOf(p, b) EXCEPT !.phase = "written"]
    BY <1>1, <1>2, <1>4, <1>7 DEF SessionOf, Phase
  <2>3. Sessions' = (Sessions \ {SessionOf(p, b)}) \cup {SessionOf(p, b)'}
    BY <1>5, <1>6, <2>1, SessionsChange, Zenon
  <2>4. disk' = [disk EXCEPT ![SessionOf(p, b).sector] = SessionOf(p, b).view]
    BY <1>2, <1>4, <1>7, Zenon DEF SessionOf, Request
  <2>5. SessionOf(p, b) \in Sessions
    BY <2>1, SessionsDef, Zenon
  <2>6. Store!Commit(SessionOf(p, b))
    BY <2>2, <2>3, <2>4, Zenon DEF Store!Commit
  <2>. QED  BY <2>5, <2>6, Zenon DEF StoreStep, Store!StoreNext
<1>8. CASE "B_DIRTY" \notin flags[b]
  <2>1. disk' = disk
    BY <1>2, <1>4, <1>8, Zenon DEF Request
  <2>2. \A q \in Proc : \A x : Shows(q, x) => SessionOf(q, x)' = SessionOf(q, x)
    BY <1>4, <1>6, <1>8, Zenon DEF SessionOf, Phase
  <2>. QED  BY <1>5, <2>1, <2>2, SessionsSame, Zenon DEF StoreStep
<1>. QED  BY <1>7, <1>8, Zenon

\* The handler completes a request: a write ends, a read opens the session.
LEMMA IdeintrStep ==
  ASSUME IInv, IInv', CoherentInv, CoherentInv', Ideintr, UNCHANGED <<lru, want, outer>>
  PROVE  StoreStep
<1>1. PICK b \in Buf : b = Head(idequeue)
  BY DEF Ideintr, IInv, TypeOK
<1>2. idequeue # <<>> /\ b \in Queued /\ ctl = "done"
  BY <1>1, HeadQueued, Zenon DEF Ideintr, IInv, TypeOK, CoherentInv
<1>3. PICK p \in Proc : pc[p] = "io" /\ bp[p] = b
  BY <1>2, Zenon DEF IInv, QueueInv
<1>4. /\ UNCHANGED <<sector, disk, bp, outer>>
      /\ data' = IF "B_DIRTY" \notin flags[b] THEN [data EXCEPT ![b] = disk[cmd.sector]] ELSE data
      /\ flags' = [flags EXCEPT ![b] = (@ \cup {"B_VALID"}) \ {"B_DIRTY"}]
      /\ ctl' # "done"
  BY <1>1, <1>2, Zenon DEF Ideintr, Idestart
<1>5. \A x \in Buf \ {b} : flags'[x] = flags[x] /\ data'[x] = data[x]
  BY <1>4, Types, Zenon
<1>6. b \in Holds(p) /\ "B_VALID" \in flags'[b] /\ "B_DIRTY" \notin flags'[b] /\ Shows(p, b)'
  BY <1>3, <1>4, BufFacts, Types, Zenon DEF Holds, Shows
<1>7. \A q \in Proc : Holds(q)' = Holds(q) /\ Holds(q) \subseteq Buf /\ (q # p => b \notin Holds(q))
  <2>1. \A q \in Proc : Holds(q)' = Holds(q) /\ Holds(q) \subseteq Buf
    BY <1>4, Types DEF Holds
  <2>. QED  BY <1>6, <2>1, Zenon DEF IInv, Exclusive
<1>8. \A q \in Proc : \A x : Shows(q, x)' <=> Shows(q, x) \/ (q = p /\ x = b)
  BY <1>5, <1>6, <1>7, Zenon DEF Shows
<1>9. \A q \in Proc : \A x : Shows(q, x) /\ x # b => SessionOf(q, x)' = SessionOf(q, x)
  BY <1>1, <1>2, <1>4, <1>5, ShowsFacts, Zenon DEF SessionOf, Phase
<1>10. CASE "B_DIRTY" \in flags[b]
  <2>1. Shows(p, b)
    BY <1>6, <1>10, Zenon DEF IInv, FlagsInv, Shows
  <2>2. SessionOf(p, b).phase = "written" /\ SessionOf(p, b)' = [SessionOf(p, b) EXCEPT !.phase = "held"]
    BY <1>1, <1>2, <1>4, <1>6, <1>10 DEF SessionOf, Phase
  <2>3. Sessions' = (Sessions \ {SessionOf(p, b)}) \cup {SessionOf(p, b)'}
    BY <1>8, <1>9, <2>1, SessionsChange, Zenon
  <2>4. SessionOf(p, b) \in Sessions
    BY <2>1, SessionsDef, Zenon
  <2>5. Store!EndWrite(SessionOf(p, b))
    BY <1>4, <2>2, <2>3, Zenon DEF Store!EndWrite
  <2>. QED  BY <2>4, <2>5, Zenon DEF StoreStep, Store!StoreNext
<1>11. CASE "B_DIRTY" \notin flags[b]
  <2>1. "B_VALID" \notin flags[b]
    BY <1>2, <1>11, Zenon DEF IInv, QueueInv, Synced
  <2>2. ~Shows(p, b) /\ \A q \in Proc : ~Shows(q, b)
    BY <2>1, Zenon DEF Shows
  <2>3. Sessions' = Sessions \cup {SessionOf(p, b)'}
    BY <1>8, <1>9, <2>2, SessionsAdd
  <2>4. /\ sector[b] \in Sector /\ \A q \in Proc : \A x : Shows(q, x) => sector[x] # sector[b]
    BY <1>6, <2>2, ShowsFacts, BufFacts, SMTT(60) DEF IInv, OneBuffer, Usable
  <2>5. \A x \in Sessions : x.sector # sector[b]
    BY <2>4, SessionsDef DEF SessionOf
  <2>6. data'[b] = disk[sector[b]]
    BY <1>4, <1>6, Zenon DEF CoherentInv, Coherent, Synced
  <2>7. SessionOf(p, b)' = [proc |-> p, sector |-> sector[b], view |-> disk[sector[b]], phase |-> "held"]
    BY <1>4, <1>6, <2>6, Zenon DEF SessionOf, Phase
  <2>8. Store!Acquire(p, sector[b])
    BY <1>4, <2>3, <2>5, <2>7, Zenon DEF Store!Acquire
  <2>. QED  BY <2>4, <2>8, Zenon DEF StoreStep, Store!StoreNext
<1>. QED  BY <1>10, <1>11, Zenon

\* bget finds a valid buffer: the session opens without the disk.
LEMMA BgetStep ==
  ASSUME IInv, IInv', CoherentInv, NEW p \in Proc, Bget(p)
  PROVE  StoreStep
<1>1. /\ UNCHANGED <<data, idequeue, disk, cmd, ctl, outer>> /\ bp[p] = 0
  BY Zenon DEF Bget, ide_vars, IInv, Position
<1>2. ASSUME NEW b \in Buf, ~Busy(b), bp' = [bp EXCEPT ![p] = b],
             flags' = [flags EXCEPT ![b] = flags'[b]], sector' = [sector EXCEPT ![b] = sector'[b]]
      PROVE  /\ \A q \in Proc : Holds(q)' = IF q = p THEN Holds(q) \cup {b} ELSE Holds(q)
             /\ \A q \in Proc : b \notin Holds(q)
             /\ \A q \in Proc : \A x : Shows(q, x) => Shows(q, x)' /\ x # b
             /\ \A q \in Proc : \A x : Shows(q, x)' /\ x # b => Shows(q, x)
             /\ \A q \in Proc : \A x : Shows(q, x) => SessionOf(q, x)' = SessionOf(q, x)
  <2>1. \A q \in Proc : b \notin Holds(q)
    BY <1>2, Zenon DEF IInv, Exclusive
  <2>2. \A q \in Proc : Holds(q)' = IF q = p THEN Holds(q) \cup {b} ELSE Holds(q)
    BY <1>1, <1>2, Types, BufFacts, Zenon DEF Holds
  <2>3. \A x \in Buf \ {b} : flags'[x] = flags[x] /\ sector'[x] = sector[x]
    BY <1>2, Types, Zenon
  <2>4. \A q \in Proc : Holds(q) \subseteq Buf
    BY Types DEF Holds
  <2>5. /\ \A q \in Proc : \A x : Shows(q, x) => Shows(q, x)' /\ x # b
        /\ \A q \in Proc : \A x : Shows(q, x)' /\ x # b => Shows(q, x)
    BY <2>1, <2>2, <2>3, <2>4 DEF Shows
  <2>6. \A q \in Proc : \A x : Shows(q, x) => SessionOf(q, x)' = SessionOf(q, x)
    BY <1>1, <2>3, <2>4, <2>5, ShowsFacts, Zenon DEF SessionOf, Phase
  <2>. QED  BY <2>1, <2>2, <2>5, <2>6, Zenon
<1>3. CASE BgetHit(p)
  <2>1. PICK b \in Buf : BgetHit(p)!1!(b)
    BY <1>3, Zenon DEF BgetHit
  <2>2. sector' = sector /\ sector[b] = want[p] /\ sector[b] \in Sector
    BY <1>3, <2>1, Zenon DEF BgetHit, Bget, IInv, Position
  <2>3. flags' = [flags EXCEPT ![b] = flags'[b]] /\ sector' = [sector EXCEPT ![b] = sector'[b]]
    BY <2>1, <2>2, Types, Zenon
  <2>4. flags'[b] = flags[b] \cup {"B_BUSY"}
    BY <2>1, Types, Zenon
  <2>5. CASE "B_VALID" \in flags[b]
    <3>1. \A q \in Proc : \A x : Shows(q, x)' <=> Shows(q, x) \/ (q = p /\ x = b)
      <4>0. \A q \in Proc : /\ Holds(q)' = IF q = p THEN Holds(q) \cup {b} ELSE Holds(q)
                            /\ b \notin Holds(q)
        BY <1>2, <2>1, <2>3, Zenon
      <4>1. b \in Holds(p)' /\ \A q \in Proc : b \in Holds(q)' => q = p
        BY <4>0, Zenon
      <4>2. \A q \in Proc : Shows(q, b)' <=> q = p
        BY <2>4, <2>5, <4>1, Zenon DEF Shows
      <4>. QED  BY <1>2, <2>1, <2>3, <4>2, Zenon
    <3>2. Sessions' = Sessions \cup {SessionOf(p, b)'}
      BY <1>2, <2>1, <2>3, <3>1, SessionsAdd, Zenon
    <3>3. "B_DIRTY" \notin flags[b] /\ data[b] = disk[sector[b]]
      BY <2>1, <2>5, Zenon DEF IInv, FlagsInv, CoherentInv, Coherent, Synced
    <3>4. SessionOf(p, b)' = [proc |-> p, sector |-> sector[b], view |-> disk[sector[b]], phase |-> "held"]
      BY <1>1, <2>2, <2>4, <3>3, Zenon DEF SessionOf, Phase
    <3>5. \A q \in Proc : \A x : Shows(q, x) => sector[x] # sector[b]
      BY <1>2, <2>1, <2>2, <2>3, ShowsFacts, BufFacts, Zenon DEF IInv, OneBuffer
    <3>6. \A x \in Sessions : x.sector # sector[b]
      <4>1. \A q : \A x : SessionOf(q, x).sector = sector[x]
        BY Zenon DEF SessionOf
      <4>. QED  BY <3>5, <4>1, SessionsDef
    <3>7. Store!Acquire(p, sector[b])
      BY <1>1, <3>2, <3>4, <3>6, Zenon DEF Store!Acquire
    <3>. QED  BY <2>2, <3>7, Zenon DEF StoreStep, Store!StoreNext
  <2>6. CASE "B_VALID" \notin flags[b]
    <3>1. \A q \in Proc : ~Shows(q, b)'
      BY <2>4, <2>6, Zenon DEF Shows
    <3>2. \A q \in Proc : \A x : Shows(q, x)' <=> Shows(q, x)
      BY <1>2, <2>1, <2>3, <3>1, Zenon
    <3>3. \A q \in Proc : \A x : Shows(q, x) => SessionOf(q, x)' = SessionOf(q, x)
      BY <1>2, <2>1, <2>3, Zenon
    <3>. QED  BY <1>1, <3>2, <3>3, SessionsSame, Zenon DEF StoreStep
  <2>. QED  BY <2>5, <2>6, Zenon
<1>4. CASE BgetFresh(p)
  <2>1. PICK b \in Buf : BgetFresh(p)!2!(b)
    BY <1>4, Zenon DEF BgetFresh
  <2>2. /\ flags' = [flags EXCEPT ![b] = flags'[b]] /\ sector' = [sector EXCEPT ![b] = sector'[b]]
        /\ "B_VALID" \notin flags'[b]
    BY <2>1, Types, Zenon
  <2>3. \A q \in Proc : ~Shows(q, b)'
    BY <2>2, Zenon DEF Shows
  <2>4. \A q \in Proc : \A x : Shows(q, x)' <=> Shows(q, x)
    BY <1>2, <2>1, <2>2, <2>3, Zenon
  <2>5. \A q \in Proc : \A x : Shows(q, x) => SessionOf(q, x)' = SessionOf(q, x)
    BY <1>2, <2>1, <2>2, Zenon
  <2>. QED  BY <1>1, <2>4, <2>5, SessionsSame, Zenon DEF StoreStep
<1>5. CASE BgetWait(p) \/ BgetPanic(p)
  <2>1. UNCHANGED <<flags, sector, bp>>
    BY <1>5, Zenon DEF BgetWait, BgetPanic
  <2>. QED  BY <1>1, <2>1 DEF StoreStep, Sessions, Holds, SessionOf, Phase
<1>. QED  BY <1>3, <1>4, <1>5, Zenon DEF Bget

\* bwrite begins the write of its session.
LEMMA BwriteStep ==
  ASSUME IInv, NEW p \in Proc, NEW v \in Data, Bwrite(p, v)
  PROVE  StoreStep
<1>1. PICK b \in Buf : b = bp[p]
  BY Types, Zenon DEF Bwrite
<1>2. /\ pc[p] = "run" /\ UNCHANGED <<sector, disk, idequeue, ctl, bp, outer>> /\ Synced(b)
      /\ flags' = [flags EXCEPT ![b] = @ \cup {"B_DIRTY"}] /\ data' = [data EXCEPT ![b] = v]
  BY <1>1, Zenon DEF Bwrite, ide_vars, IInv, Usable
<1>3. /\ \A x \in Buf \ {b} : flags'[x] = flags[x] /\ data'[x] = data[x]
      /\ flags'[b] = flags[b] \cup {"B_DIRTY"} /\ data'[b] = v
      /\ \A q \in Proc : Holds(q)' = Holds(q) /\ Holds(q) \subseteq Buf
  BY <1>2, Types DEF Holds
<1>4. Shows(p, b)
  BY <1>1, <1>2, BufFacts, Zenon DEF Shows, Holds, Synced
<1>5. \A q \in Proc : \A x : Shows(q, x)' <=> Shows(q, x)
  BY <1>3 DEF Shows
<1>6. \A q \in Proc : \A x : Shows(q, x) /\ x # b => SessionOf(q, x)' = SessionOf(q, x)
  BY <1>2, <1>3, ShowsFacts, Zenon DEF SessionOf, Phase
<1>7. Sessions' = (Sessions \ {SessionOf(p, b)}) \cup {SessionOf(p, b)'}
  BY <1>4, <1>5, <1>6, SessionsChange, Zenon
<1>8. idequeue # <<>> => Head(idequeue) # b
  BY <1>2, HeadQueued, Zenon DEF IInv, TypeOK, QueueInv
<1>9. /\ SessionOf(p, b).phase = "held"
      /\ SessionOf(p, b)' = [proc |-> SessionOf(p, b).proc, sector |-> SessionOf(p, b).sector,
                             view |-> v, phase |-> "writing"]
  <2>1. Phase(b) = "held" /\ Phase(b)' = "writing"
    BY <1>2, <1>3, <1>8, Zenon DEF Phase, Synced
  <2>2. SessionOf(p, b) = [proc |-> p, sector |-> sector[b], view |-> data[b], phase |-> "held"]
    BY <2>1, Zenon DEF SessionOf
  <2>3. SessionOf(p, b)' = [proc |-> p, sector |-> sector[b], view |-> v, phase |-> "writing"]
    BY <1>2, <1>3, <2>1, Zenon DEF SessionOf
  <2>4. /\ SessionOf(p, b).phase = "held" /\ SessionOf(p, b).proc = p
        /\ SessionOf(p, b).sector = sector[b]
    BY <2>2
  <2>. QED  BY <2>3, <2>4, Zenon
<1>10. Store!BeginWrite(SessionOf(p, b), v)
  BY <1>2, <1>7, <1>9, Zenon DEF Store!BeginWrite
<1>11. SessionOf(p, b) \in Sessions
  BY <1>4, SessionsDef, Zenon
<1>. QED  BY <1>10, <1>11, Zenon DEF StoreStep, Store!StoreNext

\* brelse ends its session.
LEMMA BrelseStep ==
  ASSUME IInv, NEW p \in Proc, Brelse(p)
  PROVE  StoreStep
<1>1. PICK b \in Buf : b = bp[p]
  BY Types, Zenon DEF Brelse
<1>2. /\ pc[p] = "run" /\ UNCHANGED <<sector, data, disk, idequeue, ctl>> /\ Synced(b)
      /\ flags' = [flags EXCEPT ![b] = @ \ {"B_BUSY"}]
      /\ bp' = [bp EXCEPT ![p] = outer[p]] /\ outer' = [outer EXCEPT ![p] = 0]
  BY <1>1, Zenon DEF Brelse, ide_vars, IInv, Usable
<1>3. \A x \in Buf : \A f \in {"B_VALID", "B_DIRTY"} : f \in flags'[x] <=> f \in flags[x]
  BY <1>2, Types, Zenon
<1>4. /\ b \in Holds(p) /\ \A q \in Proc : q # p => b \notin Holds(q)
      /\ \A q \in Proc : Holds(q) \subseteq Buf
  BY <1>1, BufFacts, Types DEF Holds, IInv, Exclusive
<1>5. outer[p] # b
  BY <1>1, BufFacts, Zenon DEF IInv, Position
<1>6. Holds(p)' = Holds(p) \ {b} /\ \A q \in Proc : q # p => Holds(q)' = Holds(q)
  BY <1>1, <1>2, <1>5, Types, BufFacts, Zenon DEF Holds
<1>7. \A q \in Proc : \A x : Shows(q, x)' <=> Shows(q, x) /\ ~(q = p /\ x = b)
  BY <1>3, <1>4, <1>6, Zenon DEF Shows
<1>8. \A q \in Proc : \A x : Shows(q, x)' => SessionOf(q, x)' = SessionOf(q, x)
  BY <1>2, <1>3, <1>7, ShowsFacts, Zenon DEF SessionOf, Phase
<1>9. Shows(p, b)
  BY <1>2, <1>4, Zenon DEF Shows, Synced
<1>10. Sessions' = Sessions \ {SessionOf(p, b)} /\ SessionOf(p, b) \in Sessions
  BY <1>7, <1>8, <1>9, SessionsDrop, SessionsDef, Zenon
<1>11. SessionOf(p, b).phase = "held"
  BY <1>2, Zenon DEF SessionOf, Phase, Synced
<1>12. Store!Release(SessionOf(p, b))
  BY <1>2, <1>10, <1>11, Zenon DEF Store!Release
<1>. QED  BY <1>10, <1>12, Zenon DEF StoreStep, Store!StoreNext

\* The steps that the store does not see.
LEMMA InvisibleStep ==
  ASSUME IInv, NEW p \in Proc,
         \/ (IderwQueue(p) \/ IderwReturn(p)) /\ UNCHANGED <<lru, want, outer>>
         \/ Kill(p) \/ \E s \in Sector : Bread(p, s)
  PROVE  StoreStep
<1>1. UNCHANGED <<sector, flags, data, disk>>
  BY Zenon DEF IderwQueue, IderwReturn, disk_vars, Kill, Bread, ide_vars
<1>2. \A q \in Proc : Holds(q)' = Holds(q)
  <2>1. CASE UNCHANGED <<bp, outer>>
    BY <2>1, Zenon DEF Holds
  <2>2. ASSUME NEW s \in Sector, Bread(p, s) PROVE \A q \in Proc : Holds(q)' = Holds(q)
    BY <2>2, Types DEF Bread, Nests, Holds
  <2>. QED  BY <2>1, <2>2, Zenon DEF IderwQueue, IderwReturn, Kill
<1>3. \A x \in Buf : Phase(x)' = Phase(x)
  <2>1. CASE UNCHANGED <<ctl, idequeue>>
    BY <1>1, <2>1, Zenon DEF Phase
  <2>2. CASE IderwQueue(p)
    <3>1. /\ idequeue' = Append(idequeue, bp[p]) /\ bp[p] \in Buf /\ idequeue \in Seq(Buf)
          /\ ctl' = (IF idequeue = <<>> THEN "busy" ELSE ctl)
      BY <2>2, Types, Zenon DEF IderwQueue, Idestart, IInv, TypeOK, Usable
    <3>2. idequeue' # <<>> /\ (idequeue # <<>> => Head(idequeue') = Head(idequeue))
      BY <3>1
    <3>. QED  BY <1>1, <3>1, <3>2, Zenon DEF Phase
  <2>. QED  BY <2>1, <2>2, Zenon DEF IderwReturn, disk_vars, Kill, Bread, ide_vars
<1>4. \A q \in Proc : \A x : Shows(q, x)' <=> Shows(q, x)
  BY <1>1, <1>2, Zenon DEF Shows
<1>5. \A q \in Proc : \A x : Shows(q, x) => SessionOf(q, x)' = SessionOf(q, x)
  BY <1>1, <1>3, ShowsFacts, Zenon DEF SessionOf
<1>. QED  BY <1>1, <1>4, <1>5, SessionsSame, Zenon DEF StoreStep

\* Power loss ends every session and leaves the disk.
LEMMA CrashStep ==
  ASSUME Crash
  PROVE  StoreStep
<1>1. Sessions' = {}
  BY SessionsDefPrime, Zenon DEF Crash, Shows, Holds
<1>. QED  BY <1>1, Zenon DEF Crash, StoreStep, Store!StoreNext, Store!PowerLoss

\* Over a disk that completes every command, the cache and its driver
\* implement the store of atomic blocks, for any number of processes and
\* buffers: a read returns the last write, a returned bwrite survives a crash.
THEOREM Refinement == ASSUME ~DiskErrors PROVE Spec => RefinesStore
<1>1. Init => Store!StoreInit /\ CoherentInv
  <2>1. Init => Sessions = {}
    BY SessionsDef DEF Init, InitCache, Shows, Holds
  <2>. QED  BY <2>1, Zenon DEF Init, InitCache, Store!StoreInit, CoherentInv, Coherent, Synced
<1>2. IInv /\ IInv' /\ CoherentInv /\ [Next]_vars => [Store!StoreNext]_(Store!store_vars) /\ CoherentInv'
  <2>. SUFFICES ASSUME IInv, IInv', CoherentInv, [Next]_vars
                PROVE  StoreStep /\ CoherentInv'
    BY Zenon DEF StoreStep, Store!store_vars
  <2>1. CoherentInv'
    BY CoherentNext, Zenon
  <2>2. CASE IdeStep
    BY <2>1, <2>2, DiskDoneStep, IdeintrStep, InvisibleStep, Zenon DEF IdeStep, DiskFails
  <2>3. ASSUME NEW p \in Proc, Bget(p) \/ Brelse(p) \/ Kill(p) PROVE StoreStep
    BY <2>3, BgetStep, BrelseStep, InvisibleStep, Zenon
  <2>4. ASSUME NEW p \in Proc, NEW s \in Sector, Bread(p, s) PROVE StoreStep
    BY <2>4, InvisibleStep, Zenon
  <2>5. ASSUME NEW p \in Proc, NEW v \in Data, Bwrite(p, v) PROVE StoreStep
    BY <2>5, BwriteStep, Zenon
  <2>6. CASE Crash
    BY <2>1, <2>6, CrashStep, Zenon
  <2>7. CASE UNCHANGED vars
    <3>1. UNCHANGED <<sector, flags, data, disk, idequeue, ctl, bp, outer>>
      BY <2>7, Zenon DEF vars, disk_vars
    <3>2. UNCHANGED Sessions
      BY <3>1 DEF Sessions, Holds, SessionOf, Phase
    <3>. QED  BY <2>1, <3>1, <3>2, Zenon DEF StoreStep
  <2>. QED  BY <2>1, <2>2, <2>3, <2>4, <2>5, <2>6, <2>7, Zenon DEF Next
<1>. QED  BY <1>1, <1>2, Invariance, PTL DEF Spec, RefinesStore, Store!StoreSpec

=============================================================================
