----------------------------- MODULE ProcProofs -----------------------------
(***************************************************************************)
(* Proofs about the process table, for any number of slots and CPUs: IInv  *)
(* (in Proc) is inductive.  The steps of a thread that stays on its CPU    *)
(* are alike (ThreadStep), and so are those that give the CPU up           *)
(* (GiveUpStep); the others have a lemma each.  A lemma first says what    *)
(* the step changes, then proves the conjuncts of IInv that it can disturb.*)
(***************************************************************************)
EXTENDS Proc, TLAPS

\* The null pointer is no slot, the first slot exists, a free lock has no holder.
LEMMA ProcFacts ==
  /\ initproc \in Proc /\ 0 \notin Proc
  /\ NoCPU \notin CPU
  BY ProcAssumption DEF Proc, initproc

\* The types of the variables the conjuncts of IInv mention.
LEMMA Types ==
  ASSUME IInv
  PROVE  /\ lock \in CPU \cup {NoCPU}
         /\ proc \in [CPU -> Proc \cup {0}]
         /\ state \in [Proc -> ProcState]
         /\ parent \in [Proc -> Proc \cup {0}]
         /\ pc \in [Proc -> PC]
         /\ child \in [Proc -> Proc \cup {0}]
  BY Zenon DEF IInv, TypeOK

\* A process that executes outside the lock, or has just been switched in, is
\* RUNNING and on no other CPU.
LEMMA OnlyCPU ==
  ASSUME IInv, NEW c \in CPU, NEW p \in Proc, proc[c] = p,
         lock # c \/ state[p] = "RUNNING"
  PROVE  /\ state[p] = "RUNNING"
         /\ \A d \in CPU \ {c} : proc[d] # p
         /\ \A d \in CPU : proc[d] # 0 /\ lock # d => state[proc[d]] = "RUNNING"
  BY ProcFacts, Types, Zenon DEF IInv, OnCPU, StackSafety

-----------------------------------------------------------------------------
\* A thread that stays RUNNING on its CPU and does not advance in fork: it may
\* release the lock, and change its own flags, channel and name.
LEMMA ThreadStep ==
  ASSUME IInv, TypeOK', NEW c \in CPU, NEW p \in Proc,
         proc[c] = p, state[p] = "RUNNING",
         lock' = lock \/ (lock = c /\ lock' = NoCPU),
         \A q \in Proc \ {p} : pc'[q] = pc[q] /\ child'[q] = child[q] /\
                               killed'[q] = killed[q] /\ chan'[q] = chan[q],
         \/ pc'[p] = pc[p] /\ child'[p] = child[p]
         \/ pc'[p] \notin ForkPC \ {"started"} /\
              (pc'[p] \in {"exit", "exitsleep"} => p # initproc),
         UNCHANGED <<proc, scan, state, pid, parent, kstack, pgdir, nextpid>>
  PROVE  IInv'
<1>. USE ProcFacts, Types DEF Started
<1>1. StackSafety' /\ NoLeak' /\ ParentAlive' /\ PidInv'
  BY DEF IInv, StackSafety, NoLeak, ParentAlive, PidInv, UniquePid
<1>2. SchedInv'
  BY DEF IInv, SchedInv
<1>3. OnCPU'
  BY OnlyCPU DEF IInv, OnCPU
<1>4. ForkInv'
  BY DEF IInv, ForkInv, Forking, ForkPC
<1>5. InitAlive'
  BY Zenon DEF IInv, InitAlive
<1>6. WaitChan'
  BY Zenon DEF IInv, WaitChan
<1>7. NoLostExit'
  BY DEF IInv, NoLostExit, Children
<1>. QED  BY <1>1, <1>2, <1>3, <1>4, <1>5, <1>6, <1>7, Zenon DEF IInv

\* A running thread takes or keeps the lock and stops being RUNNING; when it does
\* so in wait(), it has seen children and no zombie under that same lock.
LEMMA GiveUpStep ==
  ASSUME IInv, TypeOK', NEW c \in CPU, NEW p \in Proc,
         proc[c] = p, state[p] = "RUNNING", lock \in {c, NoCPU}, lock' = c,
         state'[p] \in {"RUNNABLE", "SLEEPING"},
         \A q \in Proc \ {p} : state'[q] = state[q] /\ pc'[q] = pc[q] /\ chan'[q] = chan[q],
         pc'[p] \in {pc[p], "sleep", "wait"} \/ (pc[p] = "exit" /\ pc'[p] = "exitsleep"),
         state'[p] = "SLEEPING" /\ pc'[p] = "wait" =>
           /\ chan'[p] = p /\ killed[p] = 0 /\ Children(p) # {}
           /\ \A q \in Children(p) : state[q] # "ZOMBIE",
         UNCHANGED <<proc, scan, pid, parent, killed, kstack, pgdir, nextpid, child>>
  PROVE  IInv'
<1>. USE ProcFacts, Types DEF Started
<1>1. \A d \in CPU \ {c} : lock # d /\ proc[d] # p
  BY OnlyCPU
<1>2. SchedInv'
  BY <1>1 DEF IInv, SchedInv
<1>3. OnCPU'
  BY <1>1, OnlyCPU DEF IInv, OnCPU
<1>4. StackSafety' /\ NoLeak'
  BY DEF IInv, StackSafety, NoLeak
<1>5. ForkInv'
  BY DEF IInv, ForkInv, Forking, ForkPC
<1>6. InitAlive' /\ ParentAlive'
  BY DEF IInv, InitAlive, ParentAlive
<1>7. WaitChan'
  BY DEF IInv, WaitChan
<1>8. NoLostExit'
  BY DEF IInv, NoLostExit, Children
<1>9. PidInv'
  BY DEF IInv, PidInv, UniquePid
<1>. QED  BY <1>2, <1>3, <1>4, <1>5, <1>6, <1>7, <1>8, <1>9, Zenon DEF IInv

\* Sleepers become RUNNABLE, and a process is marked killed only if it is not
\* left asleep: wakeup() and kill().  The caller may return to user space.
LEMMA WakeStep ==
  ASSUME IInv, TypeOK',
         \A q \in Proc :
           /\ state'[q] = state[q] \/ (state[q] = "SLEEPING" /\ state'[q] = "RUNNABLE")
           /\ killed'[q] = killed[q] \/ state'[q] # "SLEEPING"
           /\ pc'[q] = pc[q] \/ (state[q] = "RUNNING" /\ pc'[q] = "user"),
         lock = NoCPU,
         UNCHANGED <<lock, proc, scan, pid, parent, chan, kstack, pgdir, nextpid, child>>
  PROVE  IInv'
<1>. USE ProcFacts, Types DEF Started
<1>1. SchedInv' /\ OnCPU'
  BY DEF IInv, SchedInv, OnCPU
<1>2. StackSafety' /\ NoLeak'
  BY DEF IInv, StackSafety, NoLeak
<1>3. ForkInv'
  BY DEF IInv, ForkInv, Forking, ForkPC
<1>4. InitAlive' /\ ParentAlive'
  BY DEF IInv, InitAlive, ParentAlive
<1>5. WaitChan'
  BY Zenon DEF IInv, WaitChan
<1>6. NoLostExit'
  BY DEF IInv, NoLostExit, Children
<1>7. PidInv'
  BY DEF IInv, PidInv, UniquePid
<1>. QED  BY <1>1, <1>2, <1>3, <1>4, <1>5, <1>6, <1>7, Zenon DEF IInv

-----------------------------------------------------------------------------
(* fork() and the slot it fills                                            *)

\* allocproc takes a slot that was UNUSED, so no other fork() is filling it.
LEMMA AllocStep ==
  ASSUME IInv, TypeOK', NEW c \in CPU, NEW p \in Proc, NEW np \in Proc,
         proc[c] = p, state[p] = "RUNNING", pc[p] = "kernel", pc'[p] = "alloced",
         state[np] = "UNUSED", state'[np] = "EMBRYO", child'[p] = np,
         pid'[np] = nextpid, nextpid' = nextpid + 1,
         \A q \in Proc \ {p} : pc'[q] = pc[q] /\ child'[q] = child[q],
         \A q \in Proc \ {np} : state'[q] = state[q] /\ pid'[q] = pid[q],
         UNCHANGED <<lock, proc, scan, parent, chan, killed, kstack, pgdir>>
  PROVE  IInv'
<1>. USE ProcFacts, Types DEF Started
<1>1. SchedInv' /\ OnCPU'
  BY DEF IInv, SchedInv, OnCPU
<1>2. StackSafety' /\ NoLeak'
  BY DEF IInv, StackSafety, NoLeak
<1>3. ForkInv'
  BY DEF IInv, ForkInv, Forking, ForkPC, NoLeak
<1>4. InitAlive' /\ ParentAlive'
  BY DEF IInv, InitAlive, ParentAlive
<1>5. WaitChan'
  BY DEF IInv, WaitChan
<1>6. NoLostExit'
  BY DEF IInv, NoLostExit, Children
<1>7. PidInv'
  <2>1. nextpid \in Nat /\ pid \in [Proc -> Nat]
    BY Zenon DEF IInv, TypeOK
  <2>. QED  BY <2>1 DEF IInv, PidInv, UniquePid
<1>. QED  BY <1>1, <1>2, <1>3, <1>4, <1>5, <1>6, <1>7, Zenon DEF IInv

\* fork() allocates the stack or the address space of the slot, or sets its parent.
LEMMA FillStep ==
  ASSUME IInv, TypeOK', NEW c \in CPU, NEW p \in Proc, NEW np \in Proc,
         proc[c] = p, state[p] = "RUNNING", pc[p] \in ForkPC, np = child[p], np # p,
         \/ pc[p] = "alloced" /\ pc'[p] = "stacked" /\ pc'[np] = "forkret"
         \/ pc[p] = "stacked" /\ pc'[p] = "copied" /\ pc'[np] = pc[np]
         \/ pc[p] = "copied" /\ pc'[p] = "parented" /\ pc'[np] = pc[np],
         kstack'[np] = 1,
         pgdir'[np] = IF pc'[p] = "stacked" THEN 0 ELSE 1,
         parent'[np] = IF pc'[p] = "parented" THEN p ELSE 0,
         \A q \in Proc \ {p, np} : pc'[q] = pc[q],
         \A q \in Proc \ {np} : /\ kstack'[q] = kstack[q] /\ pgdir'[q] = pgdir[q]
                               /\ parent'[q] = parent[q],
         UNCHANGED <<lock, proc, scan, state, pid, chan, killed, nextpid, child>>
  PROVE  IInv'
<1>. USE ProcFacts, Types DEF Started
<1>1. state[np] = "EMBRYO" /\ pc[np] \notin ForkPC /\ parent[np] = 0
  BY DEF IInv, ForkInv, Forking, ForkPC
<1>2. SchedInv' /\ OnCPU' /\ PidInv'
  BY DEF IInv, SchedInv, OnCPU, PidInv, UniquePid
<1>3. StackSafety' /\ NoLeak'
  BY <1>1 DEF IInv, StackSafety, NoLeak, OnCPU
<1>4. ForkInv'
  BY <1>1 DEF IInv, ForkInv, Forking, ForkPC
<1>5. InitAlive' /\ ParentAlive'
  BY <1>1 DEF IInv, InitAlive, ParentAlive
<1>6. WaitChan'
  BY <1>1 DEF IInv, WaitChan
<1>7. NoLostExit'
  BY <1>1 DEF IInv, NoLostExit, Children
<1>. QED  BY <1>2, <1>3, <1>4, <1>5, <1>6, <1>7, Zenon DEF IInv

\* Without memory fork() gives the slot back, with everything it had put there.
LEMMA ForkFailStep ==
  ASSUME IInv, TypeOK', NEW c \in CPU, NEW p \in Proc, NEW np \in Proc,
         proc[c] = p, state[p] = "RUNNING", pc[p] \in {"alloced", "stacked"},
         np = child[p], np # p, pc'[p] = "user",
         state'[np] = "UNUSED", kstack'[np] = 0,
         \A q \in Proc \ {p} : pc'[q] = pc[q] /\ child'[q] = child[q],
         \A q \in Proc \ {np} : state'[q] = state[q] /\ kstack'[q] = kstack[q],
         UNCHANGED <<lock, proc, scan, pid, parent, chan, killed, pgdir, nextpid>>
  PROVE  IInv'
<1>. USE ProcFacts, Types DEF Started
<1>1. state[np] = "EMBRYO" /\ pgdir[np] = 0 /\ parent[np] = 0
  BY Zenon DEF IInv, ForkInv, Forking, ForkPC
<1>2. SchedInv' /\ OnCPU' /\ PidInv'
  BY <1>1 DEF IInv, SchedInv, OnCPU, PidInv, UniquePid
<1>3. StackSafety' /\ NoLeak'
  BY <1>1 DEF IInv, StackSafety, NoLeak, OnCPU
<1>4. ForkInv'
  BY <1>1 DEF IInv, ForkInv, Forking, ForkPC
<1>5. InitAlive' /\ ParentAlive'
  BY <1>1 DEF IInv, InitAlive, ParentAlive
<1>6. WaitChan'
  BY <1>1 DEF IInv, WaitChan
<1>7. NoLostExit'
  BY <1>1 DEF IInv, NoLostExit, Children
<1>. QED  BY <1>2, <1>3, <1>4, <1>5, <1>6, <1>7, Zenon DEF IInv

\* fork() starts the child without the lock: its parent is running, so alive.
LEMMA StartStep ==
  ASSUME IInv, TypeOK', NEW c \in CPU, NEW p \in Proc, NEW np \in Proc,
         proc[c] = p, state[p] = "RUNNING", pc[p] = "parented", pc'[p] = "started",
         np = child[p], np # p, state'[np] = "RUNNABLE",
         \A q \in Proc \ {p} : pc'[q] = pc[q],
         \A q \in Proc \ {np} : state'[q] = state[q],
         UNCHANGED <<lock, proc, scan, pid, parent, chan, killed, kstack, pgdir,
                     nextpid, child>>
  PROVE  IInv'
<1>. USE ProcFacts, Types DEF Started
<1>1. /\ state[np] = "EMBRYO" /\ parent[np] = p
      /\ kstack[np] = 1 /\ pgdir[np] = 1
  BY Zenon DEF IInv, ForkInv, Forking, ForkPC
<1>2. SchedInv' /\ OnCPU' /\ PidInv'
  BY <1>1 DEF IInv, SchedInv, OnCPU, PidInv, UniquePid
<1>3. StackSafety' /\ NoLeak'
  BY <1>1 DEF IInv, StackSafety, NoLeak
<1>4. ForkInv'
  BY <1>1 DEF IInv, ForkInv, Forking, ForkPC
<1>5. InitAlive' /\ ParentAlive'
  BY <1>1 DEF IInv, InitAlive, ParentAlive
<1>6. WaitChan'
  BY <1>1 DEF IInv, WaitChan
<1>7. NoLostExit'
  BY <1>1 DEF IInv, NoLostExit, Children
<1>. QED  BY <1>2, <1>3, <1>4, <1>5, <1>6, <1>7, Zenon DEF IInv

-----------------------------------------------------------------------------
(* exit() and wait()                                                       *)

\* exit(): when the lock is next free, the parent is not asleep in wait(), and
\* neither is init if it has inherited a zombie.
LEMMA ZombieStep ==
  ASSUME IInv, TypeOK', NEW c \in CPU, NEW p \in Proc,
         proc[c] = p, state[p] = "RUNNING", pc[p] = "exit", lock = NoCPU, lock' = c,
         state'[p] = "ZOMBIE",
         \A q \in Proc \ {p} :
           /\ state'[q] = state[q] \/ (state[q] = "SLEEPING" /\ state'[q] = "RUNNABLE")
           /\ chan[q] = parent[p] => state'[q] # "SLEEPING"
           /\ chan[q] = initproc /\ (\E r \in Proc : parent[r] = p /\ state[r] = "ZOMBIE")
                => state'[q] # "SLEEPING",
         \A q \in Proc : parent'[q] = IF parent[q] = p THEN initproc ELSE parent[q],
         UNCHANGED <<proc, scan, pid, chan, killed, kstack, pgdir, nextpid, pc, child>>
  PROVE  IInv'
<1>. USE ProcFacts, Types DEF Started
<1>1. p # initproc
  BY Zenon DEF IInv, InitAlive
<1>2. SchedInv'
  BY DEF IInv, SchedInv
<1>3. OnCPU'
  BY OnlyCPU DEF IInv, OnCPU
<1>4. StackSafety' /\ NoLeak'
  BY DEF IInv, StackSafety, NoLeak
<1>5. ForkInv'
  BY <1>1 DEF IInv, ForkInv, Forking, ForkPC, InitAlive
<1>6. InitAlive' /\ ParentAlive'
  BY <1>1 DEF IInv, InitAlive, ParentAlive
<1>7. WaitChan'
  BY DEF IInv, WaitChan
<1>8. NoLostExit'
  <2>. SUFFICES ASSUME NEW q \in Proc, state'[q] = "SLEEPING", pc'[q] = "wait"
                PROVE  /\ \E r \in Proc : parent'[r] = q
                       /\ killed'[q] = 0
                       /\ \A r \in Proc : parent'[r] = q => state'[r] # "ZOMBIE"
    BY DEF NoLostExit, Children
  <2>1. /\ q # p /\ state[q] = "SLEEPING" /\ pc[q] = "wait" /\ chan[q] = q
        /\ q # parent[p]
    BY DEF IInv, WaitChan
  <2>2. /\ killed[q] = 0 /\ \E r \in Proc : parent[r] = q
        /\ \A r \in Proc : parent[r] = q => state[r] # "ZOMBIE"
    BY <2>1 DEF IInv, NoLostExit, Children
  <2>3. ASSUME NEW r \in Proc, parent'[r] = q
        PROVE  state'[r] # "ZOMBIE"
    <3>1. parent[r] = q \/ (parent[r] = p /\ q = initproc)
      BY <2>3, Zenon
    <3>2. r # p
      BY <2>1, <3>1 DEF IInv, ForkInv
    <3>. QED  BY <2>1, <2>2, <3>1, <3>2
  <2>. QED  BY <2>1, <2>2, <2>3
<1>9. PidInv'
  BY DEF IInv, PidInv, UniquePid
<1>. QED  BY <1>2, <1>3, <1>4, <1>5, <1>6, <1>7, <1>8, <1>9, Zenon DEF IInv

\* wait() reaps a zombie: it is on no CPU, because its CPU would hold the lock.
LEMMA ReapStep ==
  ASSUME IInv, TypeOK', NEW c \in CPU, NEW p \in Proc, NEW q \in Proc,
         proc[c] = p, state[p] = "RUNNING", lock \in {c, NoCPU}, lock' = NoCPU,
         parent[q] = p, state[q] = "ZOMBIE",
         state'[q] = "UNUSED", kstack'[q] = 0, pgdir'[q] = 0, pid'[q] = 0,
         parent'[q] = 0, pc'[p] = "user",
         \A r \in Proc \ {q} :
           /\ state'[r] = state[r] /\ kstack'[r] = kstack[r] /\ pgdir'[r] = pgdir[r]
           /\ pid'[r] = pid[r] /\ parent'[r] = parent[r] /\ killed'[r] = killed[r],
         \A r \in Proc \ {p} : pc'[r] = pc[r] /\ chan'[r] = chan[r],
         UNCHANGED <<proc, scan, nextpid, child>>
  PROVE  IInv'
<1>. USE ProcFacts, Types DEF Started
<1>1. /\ \A d \in CPU : proc[d] # q
      /\ \A d \in CPU \ {c} : lock # d
  BY OnlyCPU DEF IInv, OnCPU
<1>2. q # initproc /\ q # p
  BY Zenon DEF IInv, InitAlive
<1>3. SchedInv'
  BY <1>1 DEF IInv, SchedInv
<1>4. OnCPU'
  BY <1>1, OnlyCPU DEF IInv, OnCPU
<1>5. StackSafety' /\ NoLeak'
  BY <1>1 DEF IInv, StackSafety, NoLeak
<1>6. ForkInv'
  BY <1>2 DEF IInv, ForkInv, Forking, ForkPC
<1>7. InitAlive' /\ ParentAlive'
  BY <1>2 DEF IInv, InitAlive, ParentAlive
<1>8. WaitChan'
  BY <1>2, Zenon DEF IInv, WaitChan
<1>9. NoLostExit'
  BY <1>2 DEF IInv, NoLostExit, Children
<1>10. PidInv'
  <2>1. nextpid \in Nat /\ pid \in [Proc -> Nat]
    BY Zenon DEF IInv, TypeOK
  <2>. QED  BY <2>1 DEF IInv, PidInv, UniquePid
<1>. QED  BY <1>3, <1>4, <1>5, <1>6, <1>7, <1>8, <1>9, <1>10, Zenon DEF IInv

-----------------------------------------------------------------------------
(* The scheduler of a CPU                                                  *)

\* A step of the scheduler that changes only its own position and the lock.
LEMMA LoopStep ==
  ASSUME IInv, TypeOK', NEW c \in CPU,
         proc[c] = 0 \/ state[proc[c]] # "RUNNING", proc'[c] = 0,
         lock = c \/ lock = NoCPU, lock' = c \/ lock' = NoCPU,
         scan'[c] # 0 <=> lock' = c,
         \A d \in CPU \ {c} : proc'[d] = proc[d] /\ scan'[d] = scan[d],
         UNCHANGED <<state, pid, parent, chan, killed, kstack, pgdir, nextpid, pc, child>>
  PROVE  IInv'
<1>. USE ProcFacts, Types DEF Started
<1>1. SchedInv' /\ OnCPU'
  BY DEF IInv, SchedInv, OnCPU
<1>2. StackSafety'
  BY DEF IInv, StackSafety
<1>3. /\ NoLeak' /\ ForkInv' /\ InitAlive' /\ ParentAlive' /\ WaitChan'
      /\ NoLostExit' /\ PidInv'
  BY SMTT(60) DEF IInv, NoLeak, ForkInv, Forking, InitAlive, ParentAlive, WaitChan, NoLostExit,
         Children, PidInv, UniquePid
<1>. QED  BY <1>1, <1>2, <1>3, Zenon DEF IInv

\* The scheduler switches to a RUNNABLE process: it holds the lock, so no other CPU
\* is still on that process's stack.
LEMMA RunStep ==
  ASSUME IInv, TypeOK', NEW c \in CPU, NEW p \in Proc,
         proc[c] = 0, lock = c, scan[c] = p, proc'[c] = p,
         state[p] = "RUNNABLE", state'[p] = "RUNNING",
         \A d \in CPU \ {c} : proc'[d] = proc[d],
         \A q \in Proc \ {p} : state'[q] = state[q],
         UNCHANGED <<lock, scan, pid, parent, chan, killed, kstack, pgdir, nextpid, pc, child>>
  PROVE  IInv'
<1>. USE ProcFacts, Types DEF Started
<1>1. \A d \in CPU : proc[d] # p
  BY Zenon DEF IInv, OnCPU
<1>2. SchedInv' /\ OnCPU'
  BY <1>1 DEF IInv, SchedInv, OnCPU
<1>3. StackSafety' /\ NoLeak'
  BY <1>1 DEF IInv, StackSafety, NoLeak
<1>4. ForkInv'
  BY DEF IInv, ForkInv, Forking, ForkPC
<1>5. InitAlive' /\ ParentAlive'
  BY Zenon DEF IInv, InitAlive, ParentAlive
<1>6. WaitChan' /\ NoLostExit'
  BY DEF IInv, WaitChan, NoLostExit, Children
<1>7. PidInv'
  BY DEF IInv, PidInv, UniquePid
<1>. QED  BY <1>2, <1>3, <1>4, <1>5, <1>6, <1>7, Zenon DEF IInv

-----------------------------------------------------------------------------
(* The actions                                                             *)

\* The scheduler's steps preserve the invariant.
LEMMA SchedulerInv ==
  ASSUME IInv, NEW c \in CPU, Scheduler(c)
  PROVE  IInv'
<1>. USE ProcFacts DEF sched_vars, table_vars, thread_vars
<1>1. TypeOK /\ SchedInv /\ scan \in [CPU -> 0..NPROC + 1] /\ proc \in [CPU -> Proc \cup {0}]
  BY Zenon DEF IInv, TypeOK
<1>2. CASE SchedAcquire(c)
  <2>1. (scan \in [CPU -> 0..NPROC + 1])'
    BY <1>1, <1>2, ProcAssumption DEF SchedAcquire
  <2>2. TypeOK'
    BY <1>1, <1>2, <2>1, Zenon DEF TypeOK, SchedAcquire
  <2>. QED  BY <1>1, <1>2, <2>2, LoopStep DEF SchedAcquire
<1>3. CASE SchedSkip(c)
  <2>1. (scan \in [CPU -> 0..NPROC + 1])' /\ scan'[c] # 0
    BY <1>1, <1>3, ProcAssumption DEF SchedSkip, Proc
  <2>2. TypeOK'
    BY <1>1, <1>3, <2>1, Zenon DEF TypeOK, SchedSkip
  <2>3. lock = c
    BY <1>1, <1>3, Zenon DEF SchedSkip, SchedInv
  <2>. QED  BY <1>1, <1>3, <2>1, <2>2, <2>3, LoopStep, Zenon DEF SchedSkip
<1>4. CASE SchedRun(c)
  <2>1. TypeOK'
    BY <1>1, <1>4, Zenon DEF TypeOK, SchedRun, ProcState
  <2>2. lock = c
    BY <1>1, <1>4, Zenon DEF SchedRun, SchedInv
  <2>3. state \in [Proc -> ProcState]
    BY <1>1, Zenon DEF TypeOK
  <2>. QED  BY <1>1, <1>4, <2>1, <2>2, <2>3, RunStep DEF SchedRun
<1>5. CASE SchedRelease(c)
  <2>1. (scan \in [CPU -> 0..NPROC + 1])'
    BY <1>1, <1>5, ProcAssumption DEF SchedRelease
  <2>2. TypeOK'
    BY <1>1, <1>5, <2>1, Zenon DEF TypeOK, SchedRelease
  <2>3. lock = c
    BY <1>1, <1>5, ProcAssumption DEF SchedRelease, SchedInv
  <2>. QED  BY <1>1, <1>5, <2>2, <2>3, LoopStep, Zenon DEF SchedRelease
<1>6. CASE Swtch(c)
  <2>1. scan[c] \in Proc /\ lock = c /\ state[proc[c]] # "RUNNING"
    BY <1>1, <1>6, Zenon DEF Swtch, SchedInv
  <2>2. (scan \in [CPU -> 0..NPROC + 1])' /\ scan'[c] # 0
    BY <1>1, <1>6, <2>1, ProcAssumption DEF Swtch, Proc
  <2>3. TypeOK'
    BY <1>1, <1>6, <2>2, Zenon DEF TypeOK, Swtch
  <2>. QED  BY <1>1, <1>6, <2>1, <2>2, <2>3, LoopStep, Zenon DEF Swtch
<1>. QED  BY <1>2, <1>3, <1>4, <1>5, <1>6, Zenon DEF Scheduler

\* A thread's steps that neither give up the CPU nor touch another slot.
LEMMA ThreadInv ==
  ASSUME IInv, NEW c \in CPU,
         \/ YieldReturn(c) \/ Forkret(c) \/ SleepReturn(c)
         \/ Trap(c) \/ ForkName(c) \/ ExitBegin(c)
  PROVE  IInv'
<1>. USE ProcFacts DEF sched_vars, table_vars, thread_vars, Executes, SwitchedIn, Goto
<1>1. TypeOK
  BY Zenon DEF IInv
<1>2. CASE YieldReturn(c)
  <2>1. PICK p \in Proc : YieldReturn(c)!(p)
    BY <1>2, Zenon DEF YieldReturn
  <2>2. TypeOK'
    BY <1>1, <2>1, Zenon DEF TypeOK, PC
  <2>3. state[p] = "RUNNING" /\ pc \in [Proc -> PC]
    BY <1>1, <2>1, OnlyCPU, Zenon DEF TypeOK
  <2>. QED  BY <2>1, <2>2, <2>3, ThreadStep, Zenon DEF ForkPC
<1>3. CASE Forkret(c)
  <2>1. PICK p \in Proc : Forkret(c)!(p)
    BY <1>3, Zenon DEF Forkret
  <2>2. TypeOK'
    BY <1>1, <2>1, Zenon DEF TypeOK, PC
  <2>3. state[p] = "RUNNING" /\ pc \in [Proc -> PC]
    BY <1>1, <2>1, OnlyCPU, Zenon DEF TypeOK
  <2>. QED  BY <2>1, <2>2, <2>3, ThreadStep, Zenon DEF ForkPC
<1>4. CASE SleepReturn(c)
  <2>1. PICK p \in Proc : SleepReturn(c)!(p)
    BY <1>4, Zenon DEF SleepReturn
  <2>2. TypeOK'
    BY <1>1, <2>1, Zenon DEF TypeOK, PC
  <2>3. state[p] = "RUNNING" /\ pc \in [Proc -> PC] /\ chan \in [Proc -> Proc \cup Chan \cup {0}]
    BY <1>1, <2>1, OnlyCPU, Zenon DEF TypeOK
  <2>4. pc[p] = "exitsleep" => p # initproc
    BY Zenon DEF IInv, InitAlive
  <2>. QED  BY <2>1, <2>2, <2>3, <2>4, ThreadStep, Zenon DEF ForkPC
<1>5. CASE Syscall(c)
  <2>1. PICK p \in Proc : Syscall(c)!(p)
    BY <1>5, Zenon DEF Syscall
  <2>2. TypeOK'
    BY <1>1, <2>1, Zenon DEF TypeOK, PC
  <2>3. state[p] = "RUNNING" /\ pc \in [Proc -> PC]
    BY <1>1, <2>1, OnlyCPU, Zenon DEF TypeOK
  <2>. QED  BY <2>1, <2>2, <2>3, ThreadStep, Zenon DEF ForkPC
<1>6. CASE SyscallReturn(c)
  <2>1. PICK p \in Proc : SyscallReturn(c)!(p)
    BY <1>6, Zenon DEF SyscallReturn
  <2>2. TypeOK'
    BY <1>1, <2>1, Zenon DEF TypeOK, PC
  <2>3. state[p] = "RUNNING" /\ pc \in [Proc -> PC]
    BY <1>1, <2>1, OnlyCPU, Zenon DEF TypeOK
  <2>. QED  BY <2>1, <2>2, <2>3, ThreadStep, Zenon DEF ForkPC
<1>7. CASE Fault(c)
  <2>1. PICK p \in Proc : Fault(c)!(p)
    BY <1>7, Zenon DEF Fault
  <2>2. TypeOK'
    BY <1>1, <2>1, Zenon DEF TypeOK, PC
  <2>3. state[p] = "RUNNING" /\ pc \in [Proc -> PC] /\ killed \in [Proc -> {0, 1}]
    BY <1>1, <2>1, OnlyCPU, Zenon DEF TypeOK
  <2>. QED  BY <2>1, <2>2, <2>3, ThreadStep, Zenon DEF ForkPC
<1>8. CASE Exec(c)
  <2>1. PICK p \in Proc, g \in Prog : Exec(c)!(p, g)
    BY <1>8, Zenon DEF Exec
  <2>2. TypeOK'
    BY <1>1, <2>1, Zenon DEF TypeOK, PC
  <2>3. state[p] = "RUNNING" /\ pc \in [Proc -> PC]
    BY <1>1, <2>1, OnlyCPU, Zenon DEF TypeOK
  <2>. QED  BY <2>1, <2>2, <2>3, ThreadStep, Zenon DEF ForkPC
<1>9. CASE ForkName(c)
  <2>1. PICK p \in Proc : ForkName(c)!(p)
    BY <1>9, Zenon DEF ForkName
  <2>2. TypeOK'
    BY <1>1, <2>1, Zenon DEF TypeOK, PC
  <2>3. state[p] = "RUNNING" /\ pc \in [Proc -> PC] /\ child \in [Proc -> Proc \cup {0}]
    BY <1>1, <2>1, OnlyCPU, Zenon DEF TypeOK
  <2>. QED  BY <2>1, <2>2, <2>3, ThreadStep, Zenon DEF ForkPC
<1>10. CASE ExitBegin(c)
  <2>1. PICK p \in Proc : ExitBegin(c)!(p)
    BY <1>10, Zenon DEF ExitBegin
  <2>2. TypeOK'
    BY <1>1, <2>1, Zenon DEF TypeOK, PC
  <2>3. state[p] = "RUNNING" /\ pc \in [Proc -> PC]
    BY <1>1, <2>1, OnlyCPU, Zenon DEF TypeOK
  <2>. QED  BY <2>1, <2>2, <2>3, ThreadStep, Zenon DEF ForkPC
<1>. QED  BY <1>2, <1>3, <1>4, <1>5, <1>6, <1>7, <1>8, <1>9, <1>10, Zenon DEF Trap

\* Giving up the CPU: yield() and sleep().
LEMMA GiveUpInv ==
  ASSUME IInv, NEW c \in CPU, Yield(c) \/ Sleep(c)
  PROVE  IInv'
<1>. USE ProcFacts DEF sched_vars, table_vars, thread_vars, Executes, Goto
<1>1. TypeOK
  BY Zenon DEF IInv
<1>2. CASE Yield(c)
  <2>1. PICK p \in Proc : Yield(c)!(p)
    BY <1>2, Zenon DEF Yield
  <2>2. TypeOK'
    BY <1>1, <2>1, Zenon DEF TypeOK, ProcState
  <2>3. state[p] = "RUNNING" /\ state \in [Proc -> ProcState]
    BY <1>1, <2>1, OnlyCPU, Zenon DEF TypeOK
  <2>. QED  BY <2>1, <2>2, <2>3, GiveUpStep, Zenon
<1>3. CASE Sleep(c)
  <2>1. PICK p \in Proc, ch \in Chan : Sleep(c)!(p, ch)
    BY <1>3, Zenon DEF Sleep
  <2>2. TypeOK'
    BY <1>1, <2>1, Zenon DEF TypeOK, ProcState, PC
  <2>3. /\ state[p] = "RUNNING" /\ state \in [Proc -> ProcState]
        /\ pc \in [Proc -> PC] /\ chan \in [Proc -> Proc \cup Chan \cup {0}]
    BY <1>1, <2>1, OnlyCPU, Zenon DEF TypeOK
  <2>. QED  BY <2>1, <2>2, <2>3, GiveUpStep, Zenon
<1>. QED  BY <1>2, <1>3, Zenon

\* wakeup() and kill().
LEMMA WakeInv ==
  ASSUME IInv, (\E ch \in Chan : Wakeup(ch)) \/ (\E c \in CPU : Kill(c))
  PROVE  IInv'
<1>. USE ProcFacts DEF sched_vars, table_vars, thread_vars, Executes, Goto
<1>1. /\ TypeOK /\ state \in [Proc -> ProcState] /\ killed \in [Proc -> {0, 1}]
      /\ pc \in [Proc -> PC]
  BY Zenon DEF IInv, TypeOK
<1>2. ASSUME NEW ch \in Chan, Wakeup(ch) PROVE IInv'
  <2>1. /\ state' \in [Proc -> ProcState]
        /\ \A q \in Proc : state'[q] = state[q] \/ (state[q] = "SLEEPING" /\ state'[q] = "RUNNABLE")
    BY <1>1, <1>2, Zenon DEF Wakeup, Wakeup1, ProcState
  <2>2. TypeOK'
    BY <1>1, <1>2, <2>1, Zenon DEF TypeOK, Wakeup
  <2>. QED  BY <1>2, <2>1, <2>2, WakeStep, Zenon DEF Wakeup
<1>3. ASSUME NEW c \in CPU, Kill(c) PROVE IInv'
  <2>1. PICK p \in Proc : /\ proc[c] = p /\ lock # c /\ lock = NoCPU
                         /\ \/ UNCHANGED <<killed, state>>
                            \/ \E q \in Proc :
                                 /\ killed' = [killed EXCEPT ![q] = 1]
                                 /\ state' = [state EXCEPT ![q] =
                                       IF @ = "SLEEPING" THEN "RUNNABLE" ELSE @]
                         /\ pc' = [pc EXCEPT ![p] = "user"]
    BY <1>3, Zenon DEF Kill
  <2>2. UNCHANGED <<lock, proc, scan, pid, parent, chan, kstack, pgdir, name, nextpid,
                    yielding, child, image>>
    BY <1>3, Zenon DEF Kill
  <2>3. /\ state' \in [Proc -> ProcState] /\ killed' \in [Proc -> {0, 1}]
        /\ \A q \in Proc :
             /\ state'[q] = state[q] \/ (state[q] = "SLEEPING" /\ state'[q] = "RUNNABLE")
             /\ killed'[q] = killed[q] \/ state'[q] # "SLEEPING"
    BY <1>1, <2>1, Zenon DEF ProcState
  <2>4. TypeOK'
    BY <1>1, <2>1, <2>2, <2>3, Zenon DEF TypeOK, PC
  <2>5. state[p] = "RUNNING"
    BY <2>1, OnlyCPU, Zenon
  <2>. QED  BY <1>1, <2>1, <2>2, <2>3, <2>4, <2>5, WakeStep, Zenon
<1>. QED  BY <1>2, <1>3, Zenon

\* fork()
LEMMA ForkStepInv ==
  ASSUME IInv, NEW c \in CPU, Fork(c)
  PROVE  IInv'
<1>. USE ProcFacts DEF sched_vars, table_vars, thread_vars, Executes, Goto
<1>1. /\ TypeOK /\ state \in [Proc -> ProcState] /\ pc \in [Proc -> PC]
      /\ pid \in [Proc -> Nat] /\ child \in [Proc -> Proc \cup {0}]
      /\ kstack \in [Proc -> {0, 1}] /\ pgdir \in [Proc -> {0, 1}]
      /\ parent \in [Proc -> Proc \cup {0}]
  BY Zenon DEF IInv, TypeOK
<1>2. ASSUME NEW p \in Proc, Executes(c, p), pc[p] \in ForkPC \ {"started"}
      PROVE  /\ state[p] = "RUNNING" /\ child[p] \in Proc /\ child[p] # p
             /\ kstack[child[p]] = IF pc[p] = "alloced" THEN 0 ELSE 1
             /\ pgdir[child[p]] = IF pc[p] \in {"copied", "parented"} THEN 1 ELSE 0
             /\ parent[child[p]] = IF pc[p] = "parented" THEN p ELSE 0
  BY <1>2, OnlyCPU, Zenon DEF IInv, ForkInv, Forking, ForkPC
<1>3. CASE ForkAlloc(c)
  <2>1. PICK p \in Proc : ForkAlloc(c)!(p)
    BY <1>3, Zenon DEF ForkAlloc
  <2>2. state[p] = "RUNNING"
    BY <2>1, OnlyCPU, Zenon
  <2>3. ASSUME pc' = [pc EXCEPT ![p] = "user"],
               UNCHANGED <<lock, sched_vars, table_vars, yielding, child, image>>
        PROVE  IInv'
    <3>1. TypeOK'
      BY <1>1, <2>3, Zenon DEF TypeOK, PC
    <3>. QED  BY <1>1, <2>1, <2>2, <2>3, <3>1, ThreadStep, Zenon DEF ForkPC
  <2>4. ASSUME NEW np \in Proc, IsFirst(np, Unused),
               state' = [state EXCEPT ![np] = "EMBRYO"],
               pid' = [pid EXCEPT ![np] = nextpid],
               child' = [child EXCEPT ![p] = np],
               nextpid' = nextpid + 1, pc' = [pc EXCEPT ![p] = "alloced"],
               UNCHANGED <<lock, proc, scan, parent, chan, killed, kstack, pgdir,
                           name, yielding, image>>
        PROVE  IInv'
    <3>1. TypeOK'
      <4>1. /\ (state \in [Proc -> ProcState])' /\ (pc \in [Proc -> PC])'
            /\ (child \in [Proc -> Proc \cup {0}])'
        BY <1>1, <2>4, Zenon DEF PC, ForkPC, ProcState
      <4>2. pid \in [Proc -> Nat] /\ nextpid \in Nat
        BY <1>1, Zenon DEF TypeOK
      <4>3. (pid \in [Proc -> Nat])'
        BY <2>4, <4>2, Zenon
      <4>4. (nextpid \in Nat)'
        BY <2>4, <4>2
      <4>. QED  BY <1>1, <2>4, <4>1, <4>3, <4>4, Zenon DEF TypeOK
    <3>2. state[np] = "UNUSED"
      BY <2>4, Zenon DEF IsFirst, Unused
    <3>. QED  BY <1>1, <2>1, <2>2, <2>4, <3>1, <3>2, AllocStep
  <2>. QED  BY <2>1, <2>3, <2>4, Zenon
<1>4. CASE ForkKstack(c)
  <2>1. PICK p \in Proc : ForkKstack(c)!(p)
    BY <1>4, Zenon DEF ForkKstack
  <2>2. /\ state[p] = "RUNNING" /\ child[p] \in Proc /\ child[p] # p
        /\ kstack[child[p]] = 0 /\ pgdir[child[p]] = 0 /\ parent[child[p]] = 0
    BY <1>2, <2>1, Zenon DEF ForkPC
  <2>3. TypeOK'
    <3>1. /\ (state \in [Proc -> ProcState])' /\ (pc \in [Proc -> PC])'
          /\ (kstack \in [Proc -> {0, 1}])' /\ (child \in [Proc -> Proc \cup {0}])'
      BY <1>1, <2>1, <2>2, Zenon DEF PC, ForkPC, ProcState
    <3>. QED  BY <1>1, <2>1, <3>1, Zenon DEF TypeOK
  <2>4. CASE pc'[p] = "stacked"
    <3>1. /\ kstack' = [kstack EXCEPT ![child[p]] = 1] /\ UNCHANGED <<state, child>>
          /\ pc' = [pc EXCEPT ![p] = "stacked", ![child[p]] = "forkret"]
      BY <1>1, <2>1, <2>2, <2>4, Zenon
    <3>. QED  BY <1>1, <2>1, <2>2, <2>3, <2>4, <3>1, FillStep DEF ForkPC
  <2>5. CASE pc'[p] = "user"
    <3>1. /\ state' = [state EXCEPT ![child[p]] = "UNUSED"] /\ kstack' = kstack
          /\ child' = [child EXCEPT ![p] = 0] /\ pc' = [pc EXCEPT ![p] = "user"]
      BY <1>1, <2>1, <2>2, <2>5, Zenon
    <3>. QED  BY <1>1, <2>1, <2>2, <2>3, <2>5, <3>1, ForkFailStep DEF ForkPC
  <2>. QED  BY <1>1, <2>1, <2>2, <2>4, <2>5, Zenon
<1>5. CASE ForkCopyuvm(c)
  <2>1. PICK p \in Proc : ForkCopyuvm(c)!(p)
    BY <1>5, Zenon DEF ForkCopyuvm
  <2>2. /\ state[p] = "RUNNING" /\ child[p] \in Proc /\ child[p] # p
        /\ kstack[child[p]] = 1 /\ pgdir[child[p]] = 0 /\ parent[child[p]] = 0
    BY <1>2, <2>1, Zenon DEF ForkPC
  <2>3. TypeOK'
    <3>1. image \in [Proc -> Prog]
      BY <1>1, Zenon DEF TypeOK
    <3>2. /\ (state \in [Proc -> ProcState])' /\ (pc \in [Proc -> PC])'
          /\ (kstack \in [Proc -> {0, 1}])' /\ (pgdir \in [Proc -> {0, 1}])'
          /\ (child \in [Proc -> Proc \cup {0}])' /\ (image \in [Proc -> Prog])'
      BY <1>1, <2>1, <2>2, <3>1 DEF PC, ForkPC, ProcState
    <3>. QED  BY <1>1, <2>1, <3>2, Zenon DEF TypeOK
  <2>4. CASE pc'[p] = "copied"
    <3>1. /\ pgdir' = [pgdir EXCEPT ![child[p]] = 1] /\ UNCHANGED <<state, child, kstack>>
          /\ pc' = [pc EXCEPT ![p] = "copied"]
      BY <1>1, <2>1, <2>2, <2>4, Zenon
    <3>. QED  BY <1>1, <2>1, <2>2, <2>3, <2>4, <3>1, FillStep DEF ForkPC
  <2>5. CASE pc'[p] = "user"
    <3>1. /\ state' = [state EXCEPT ![child[p]] = "UNUSED"] /\ pgdir' = pgdir
          /\ kstack' = [kstack EXCEPT ![child[p]] = 0]
          /\ child' = [child EXCEPT ![p] = 0] /\ pc' = [pc EXCEPT ![p] = "user"]
      BY <1>1, <2>1, <2>2, <2>5, Zenon
    <3>. QED  BY <1>1, <2>1, <2>2, <2>3, <2>5, <3>1, ForkFailStep, Zenon DEF ForkPC
  <2>. QED  BY <1>1, <2>1, <2>2, <2>4, <2>5, Zenon
<1>6. CASE ForkParent(c)
  <2>1. PICK p \in Proc : ForkParent(c)!(p)
    BY <1>6, Zenon DEF ForkParent
  <2>2. /\ state[p] = "RUNNING" /\ child[p] \in Proc /\ child[p] # p
        /\ kstack[child[p]] = 1 /\ pgdir[child[p]] = 1
    BY <1>2, <2>1, Zenon DEF ForkPC
  <2>3. TypeOK'
    BY <1>1, <2>1, Zenon DEF TypeOK, PC, ForkPC
  <2>. QED  BY <1>1, <2>1, <2>2, <2>3, FillStep DEF ForkPC
<1>7. CASE ForkStart(c)
  <2>1. PICK p \in Proc : ForkStart(c)!(p)
    BY <1>7, Zenon DEF ForkStart
  <2>2. state[p] = "RUNNING" /\ child[p] \in Proc /\ child[p] # p
    BY <1>2, <2>1, Zenon DEF ForkPC
  <2>3. TypeOK'
    BY <1>1, <2>1, Zenon DEF TypeOK, PC, ForkPC, ProcState
  <2>. QED  BY <1>1, <2>1, <2>2, <2>3, StartStep
<1>. QED  BY <1>3, <1>4, <1>5, <1>6, <1>7, ThreadInv, Zenon DEF Fork

\* exit()
LEMMA ExitZombieInv ==
  ASSUME IInv, NEW c \in CPU, ExitZombie(c)
  PROVE  IInv'
<1>. USE ProcFacts DEF sched_vars, table_vars, thread_vars
<1>1. /\ TypeOK /\ state \in [Proc -> ProcState]
      /\ parent \in [Proc -> Proc \cup {0}]
  BY Zenon DEF IInv, TypeOK
<1>2. PICK p \in Proc : ExitZombie(c)!(p)
  BY Zenon DEF ExitZombie
<1>. DEFINE woken == Wakeup1(state, parent[p])
            orphans == IF \E q \in Children(p) : woken[q] = "ZOMBIE"
                       THEN Wakeup1(woken, initproc) ELSE woken
<1>3. /\ woken \in [Proc -> ProcState]
      /\ \A q \in Proc :
           /\ woken[q] = state[q] \/ (state[q] = "SLEEPING" /\ woken[q] = "RUNNABLE")
           /\ chan[q] = parent[p] => woken[q] # "SLEEPING"
  BY <1>1, Zenon DEF Wakeup1, ProcState
<1>4. /\ orphans \in [Proc -> ProcState]
      /\ \A q \in Proc :
           /\ orphans[q] = woken[q] \/ (woken[q] = "SLEEPING" /\ orphans[q] = "RUNNABLE")
           /\ chan[q] = initproc /\ (\E r \in Children(p) : woken[r] = "ZOMBIE")
                => orphans[q] # "SLEEPING"
  <2>. HIDE DEF woken
  <2>. QED  BY <1>3, Zenon DEF Wakeup1, ProcState
<1>5. state' = [orphans EXCEPT ![p] = "ZOMBIE"]
  BY <1>2, Zenon
<1>. HIDE DEF woken, orphans
<1>6. /\ state' \in [Proc -> ProcState] /\ state'[p] = "ZOMBIE"
      /\ \A q \in Proc \ {p} :
           /\ state'[q] = state[q] \/ (state[q] = "SLEEPING" /\ state'[q] = "RUNNABLE")
           /\ chan[q] = parent[p] => state'[q] # "SLEEPING"
           /\ chan[q] = initproc /\ (\E r \in Proc : parent[r] = p /\ state[r] = "ZOMBIE")
                => state'[q] # "SLEEPING"
  BY <1>3, <1>4, <1>5 DEF ProcState, Children
<1>7. /\ parent' \in [Proc -> Proc \cup {0}]
      /\ \A q \in Proc : parent'[q] = IF parent[q] = p THEN initproc ELSE parent[q]
  BY <1>1, <1>2, Zenon DEF Children
<1>8. TypeOK'
  BY <1>1, <1>2, <1>6, <1>7, Zenon DEF TypeOK
<1>9. state[p] = "RUNNING"
  BY <1>2, OnlyCPU, Zenon DEF Executes
<1>. QED  BY <1>2, <1>6, <1>7, <1>8, <1>9, ZombieStep, SMTT(60) DEF Executes

\* One pass of wait's loop, from its system call or after a wakeup.
LEMMA WaitInv ==
  ASSUME IInv, NEW c \in CPU, Wait(c) \/ WaitAgain(c)
  PROVE  IInv'
<1>. USE ProcFacts DEF Goto
<1>1. PICK p \in Proc :
        /\ proc[c] = p /\ lock \in {c, NoCPU} /\ (lock # c \/ state[p] = "RUNNING")
        /\ WaitScan(c, p)
        /\ UNCHANGED <<proc, scan, nextpid, yielding, child, image>>
  BY Zenon DEF Wait, WaitAgain, Executes, SwitchedIn, sched_vars
<1>2. state[p] = "RUNNING"
  BY <1>1, OnlyCPU, Zenon
<1>3. /\ TypeOK /\ state \in [Proc -> ProcState] /\ pc \in [Proc -> PC]
      /\ chan \in [Proc -> Proc \cup Chan \cup {0}]
  BY Zenon DEF IInv, TypeOK
<1>4. ASSUME NEW q \in Proc, parent[q] = p, state[q] = "ZOMBIE",
             kstack' = [kstack EXCEPT ![q] = 0], pgdir' = [pgdir EXCEPT ![q] = 0],
             state' = [state EXCEPT ![q] = "UNUSED"], pid' = [pid EXCEPT ![q] = 0],
             parent' = [parent EXCEPT ![q] = 0], name' = [name EXCEPT ![q] = ""],
             killed' = [killed EXCEPT ![q] = 0], chan' = [chan EXCEPT ![p] = 0],
             lock' = NoCPU, Goto(p, "user")
      PROVE  IInv'
  <2>1. /\ kstack \in [Proc -> {0, 1}] /\ pgdir \in [Proc -> {0, 1}]
        /\ killed \in [Proc -> {0, 1}] /\ pid \in [Proc -> Nat]
        /\ parent \in [Proc -> Proc \cup {0}] /\ name \in [Proc -> Prog \cup {""}]
    BY <1>3, Zenon DEF TypeOK
  <2>2. /\ (kstack \in [Proc -> {0, 1}])' /\ (pgdir \in [Proc -> {0, 1}])'
        /\ (killed \in [Proc -> {0, 1}])' /\ (pid \in [Proc -> Nat])'
        /\ (parent \in [Proc -> Proc \cup {0}])' /\ (name \in [Proc -> Prog \cup {""}])'
        /\ (state \in [Proc -> ProcState])' /\ (pc \in [Proc -> PC])'
        /\ (chan \in [Proc -> Proc \cup Chan \cup {0}])'
    BY <1>3, <1>4, <2>1, Zenon DEF ProcState, PC
  <2>3. TypeOK'
    BY <1>1, <1>3, <1>4, <2>2, Zenon DEF TypeOK
  <2>. QED  BY <1>1, <1>2, <1>3, <1>4, <2>1, <2>3, ReapStep
<1>5. ASSUME chan' = [chan EXCEPT ![p] = 0], lock' = NoCPU, Goto(p, "user"),
             UNCHANGED <<state, pid, parent, killed, kstack, pgdir, name>>
      PROVE  IInv'
  <2>1. TypeOK'
    BY <1>1, <1>3, <1>5, Zenon DEF TypeOK, PC
  <2>. QED  BY <1>1, <1>2, <1>3, <1>5, <2>1, ThreadStep, Zenon DEF ForkPC
<1>6. ASSUME Children(p) # {}, killed[p] = 0,
             \A q \in Children(p) : state[q] # "ZOMBIE",
             chan' = [chan EXCEPT ![p] = p], lock' = c, Goto(p, "wait"),
             state' = [state EXCEPT ![p] = "SLEEPING"],
             UNCHANGED <<pid, parent, killed, kstack, pgdir, name>>
      PROVE  IInv'
  <2>1. TypeOK'
    BY <1>1, <1>3, <1>6, Zenon DEF TypeOK, PC, ProcState
  <2>. QED  BY <1>1, <1>2, <1>3, <1>6, <2>1, GiveUpStep, Zenon
<1>. QED  BY <1>1, <1>4, <1>5, <1>6, Zenon DEF WaitScan, IsFirst, Children

-----------------------------------------------------------------------------
\* The state userinit leaves satisfies the invariant.
LEMMA InitInv == Init => IInv
<1>. SUFFICES ASSUME Init PROVE IInv
  BY Zenon
<1>. USE ProcFacts DEF Started
<1>1. /\ \A p \in Proc : state[p] = IF p = initproc THEN "RUNNABLE" ELSE "UNUSED"
      /\ \A p \in Proc : pid[p] = IF p = initproc THEN 1 ELSE 0
      /\ \A p \in Proc : kstack[p] = IF p = initproc THEN 1 ELSE 0
      /\ \A p \in Proc : pgdir[p] = IF p = initproc THEN 1 ELSE 0
      /\ \A p \in Proc : pc[p] = IF p = initproc THEN "forkret" ELSE "user"
      /\ \A p \in Proc : parent[p] = 0
      /\ nextpid = 2 /\ lock = NoCPU /\ \A c \in CPU : proc[c] = 0 /\ scan[c] = 0
  BY Zenon DEF Init
<1>2. TypeOK
  <2>1. proc \in [CPU -> Proc \cup {0}]
    BY Zenon DEF Init
  <2>6. scan \in [CPU -> 0..NPROC + 1]
    <3>1. 0 \in 0..NPROC + 1
      BY ProcAssumption
    <3>. QED  BY <3>1, Zenon DEF Init
  <2>2. state \in [Proc -> ProcState] /\ pc \in [Proc -> PC]
    BY Zenon DEF Init, ProcState, PC
  <2>3. name \in [Proc -> Prog \cup {""}] /\ image \in [Proc -> Prog]
    BY ProcAssumption, Zenon DEF Init
  <2>4. pid \in [Proc -> Nat] /\ nextpid \in Nat
    BY Zenon DEF Init
  <2>5. kstack \in [Proc -> {0, 1}] /\ pgdir \in [Proc -> {0, 1}] /\ killed \in [Proc -> {0, 1}]
    BY Zenon DEF Init
  <2>. QED  BY <2>1, <2>2, <2>3, <2>4, <2>5, <2>6, Zenon DEF Init, TypeOK
<1>3. SchedInv /\ OnCPU /\ StackSafety /\ NoLeak
  BY <1>1, Zenon DEF SchedInv, OnCPU, StackSafety, NoLeak
<1>4. ForkInv
  BY <1>1 DEF ForkInv, Forking, ForkPC
<1>5. InitAlive /\ ParentAlive /\ WaitChan /\ NoLostExit
  BY <1>1, Zenon DEF InitAlive, ParentAlive, WaitChan, NoLostExit
<1>6. PidInv
  BY <1>1 DEF PidInv, UniquePid
<1>. QED  BY <1>2, <1>3, <1>4, <1>5, <1>6, Zenon DEF IInv

\* A step that changes no variable.
LEMMA StutterInv == IInv /\ UNCHANGED vars => IInv'
<1>. SUFFICES ASSUME IInv, UNCHANGED vars PROVE IInv'
  BY Zenon
<1>. USE DEF vars, sched_vars, table_vars, thread_vars
<1>1. TypeOK'
  BY Zenon DEF IInv, TypeOK
<1>2. SchedInv' /\ OnCPU'
  BY Zenon DEF IInv, SchedInv, OnCPU
<1>3. StackSafety' /\ NoLeak'
  BY Zenon DEF IInv, StackSafety, NoLeak
<1>4. ForkInv'
  BY Zenon DEF IInv, ForkInv, Forking
<1>5. InitAlive' /\ ParentAlive'
  BY Zenon DEF IInv, InitAlive, ParentAlive
<1>6. WaitChan' /\ NoLostExit'
  BY Zenon DEF IInv, WaitChan, NoLostExit, Children
<1>7. PidInv'
  BY Zenon DEF IInv, PidInv, UniquePid
<1>. QED  BY <1>1, <1>2, <1>3, <1>4, <1>5, <1>6, <1>7, Zenon DEF IInv

\* Every step of the process table preserves the invariant.
LEMMA NextInv == IInv /\ [Next]_vars => IInv'
<1>. SUFFICES ASSUME IInv, Next PROVE IInv'
  BY StutterInv, Zenon
<1>1. ASSUME NEW c \in CPU, Scheduler(c) \/ Fork(c) \/ Trap(c) PROVE IInv'
  BY <1>1, SchedulerInv, ForkStepInv, ThreadInv, Zenon
<1>2. ASSUME NEW c \in CPU, Resume(c) PROVE IInv'
  BY <1>2, ThreadInv, WaitInv, Zenon DEF Resume
<1>3. ASSUME NEW c \in CPU, Exit(c) PROVE IInv'
  BY <1>3, ThreadInv, ExitZombieInv, StutterInv, Zenon DEF Exit, PanicLoop
<1>4. ASSUME NEW c \in CPU, Yield(c) \/ Sleep(c) \/ Kill(c) \/ Wait(c) PROVE IInv'
  BY <1>4, GiveUpInv, WakeInv, WaitInv, Zenon
<1>. QED  BY <1>1, <1>2, <1>3, <1>4, WakeInv, Zenon DEF Next

\* IInv holds in every reachable state of the process table.
THEOREM Invariance == Spec => []IInv
  BY InitInv, NextInv, PTL DEF Spec

\* Type correctness of the process table.
THEOREM TypeCorrect == Spec => []TypeOK
<1>1. IInv => TypeOK
  BY Zenon DEF IInv
<1>. QED  BY <1>1, Invariance, PTL

\* No process runs on two CPUs, and no CPU runs on a stack or page directory that
\* wait() or a failed fork() has freed.
THEOREM StackSafe == Spec => []StackSafety
<1>1. IInv => StackSafety
  BY Zenon DEF IInv
<1>. QED  BY <1>1, Invariance, PTL

\* A started process always has a parent that has not exited: exit() and fork()
\* leave no process that nobody can reap.
THEOREM ParentsLive == Spec => []ParentAlive
<1>1. IInv => ParentAlive
  BY Zenon DEF IInv
<1>. QED  BY <1>1, Invariance, PTL

\* A process asleep in wait() has children, none of them a zombie, and is not
\* killed: no exit() and no kill() is lost on it.
THEOREM WaitersInformed == Spec => []NoLostExit
<1>1. IInv => NoLostExit
  BY Zenon DEF IInv
<1>. QED  BY <1>1, Invariance, PTL

\* fork's failure paths and wait() leak neither stack nor page directory.
THEOREM NothingLeaks == Spec => []NoLeak
<1>1. IInv => NoLeak
  BY Zenon DEF IInv
<1>. QED  BY <1>1, Invariance, PTL

\* Slots in use have different pids: allocproc gives out nextpid under the lock.
THEOREM PidsUnique == Spec => []UniquePid
<1>1. IInv => UniquePid
  BY Zenon DEF IInv, PidInv
<1>. QED  BY <1>1, Invariance, PTL
-----------------------------------------------------------------------------
(* Who may take a zombie out of the table                                  *)

\* The processes that run or are being forked are no zombies.
LEMMA ZombiesIdle ==
  ASSUME IInv, NEW z \in Proc, state[z] = "ZOMBIE"
  PROVE  /\ \A c \in CPU, p \in Proc : Executes(c, p) \/ SwitchedIn(c, p) => p # z
         /\ \A p \in Proc : pc[p] \in ForkPC \ {"started"} => child[p] # z
<1>1. \A c \in CPU, p \in Proc : Executes(c, p) \/ SwitchedIn(c, p) => state[p] = "RUNNING"
  BY OnlyCPU, Zenon DEF Executes, SwitchedIn
<1>2. \A p \in Proc : pc[p] \in ForkPC \ {"started"} => state[child[p]] = "EMBRYO"
  BY Zenon DEF IInv, ForkInv, Forking
<1>. QED  BY <1>1, <1>2, Zenon

\* The steps that leave every zombie one: all but those of wait().
LEMMA ZombieStays ==
  ASSUME IInv, NEW z \in Proc, state[z] = "ZOMBIE", NEW c \in CPU,
         \/ Scheduler(c) \/ YieldReturn(c) \/ Forkret(c) \/ SleepReturn(c)
         \/ Yield(c) \/ Trap(c) \/ Fork(c) \/ Sleep(c) \/ Kill(c) \/ Exit(c)
  PROVE  state'[z] = "ZOMBIE"
<1>. USE DEF table_vars
<1>1. state \in [Proc -> ProcState]
  BY Types, Zenon
<1>2. CASE Scheduler(c)
  BY <1>1, <1>2, Zenon DEF Scheduler, SchedAcquire, SchedSkip, SchedRun, SchedRelease, Swtch
<1>3. CASE YieldReturn(c) \/ Forkret(c) \/ SleepReturn(c)
  BY <1>1, <1>3, Zenon DEF YieldReturn, Forkret, SleepReturn
<1>4. CASE Yield(c)
  <2>1. PICK p \in Proc : Executes(c, p) /\ state' = [state EXCEPT ![p] = "RUNNABLE"]
    BY <1>4, Zenon DEF Yield
  <2>. QED  BY <1>1, <2>1, ZombiesIdle, Zenon
<1>5. CASE Sleep(c)
  <2>1. PICK p \in Proc : Executes(c, p) /\ state' = [state EXCEPT ![p] = "SLEEPING"]
    BY <1>5, Zenon DEF Sleep
  <2>. QED  BY <1>1, <2>1, ZombiesIdle, Zenon
<1>6. CASE Trap(c)
  BY <1>1, <1>6, Zenon DEF Trap, Syscall, SyscallReturn, Fault, Exec
<1>7. CASE Fork(c)
  <2>1. CASE ForkAlloc(c)
    BY <1>1, <2>1, Zenon DEF ForkAlloc, IsFirst, Unused
  <2>2. CASE ForkKstack(c)
    BY <1>1, <2>2, ZombiesIdle DEF ForkKstack, ForkPC
  <2>3. CASE ForkCopyuvm(c)
    BY <1>1, <2>3, ZombiesIdle DEF ForkCopyuvm, ForkPC
  <2>4. CASE ForkStart(c)
    BY <1>1, <2>4, ZombiesIdle, Zenon DEF ForkStart, ForkPC
  <2>5. CASE ForkParent(c) \/ ForkName(c)
    BY <1>1, <2>5, Zenon DEF ForkParent, ForkName
  <2>. QED  BY <1>7, <2>1, <2>2, <2>3, <2>4, <2>5, Zenon DEF Fork
<1>8. CASE Kill(c)
  BY <1>1, <1>8, Zenon DEF Kill, IsFirst
<1>9. CASE Exit(c)
  <2>1. CASE ExitZombie(c)
    BY <1>1, <2>1, Zenon DEF ExitZombie, Wakeup1
  <2>2. CASE ExitBegin(c) \/ PanicLoop(c)
    BY <1>1, <2>2, Zenon DEF ExitBegin, PanicLoop, vars
  <2>. QED  BY <1>9, <2>1, <2>2, Zenon DEF Exit
<1>. QED  BY <1>2, <1>3, <1>4, <1>5, <1>6, <1>7, <1>8, <1>9, Zenon

\* Only wait(), called by the parent with ptable.lock, ends a zombie, and it
\* frees the slot.
THEOREM ParentsReap == Spec => OnlyParentReaps
<1>. DEFINE Reaped == \A p \in Proc : state[p] = "ZOMBIE" /\ state'[p] # "ZOMBIE" =>
                        /\ state'[p] = "UNUSED"
                        /\ \E c \in CPU : proc[c] = parent[p] /\ lock \in {c, NoCPU}
<1>1. ASSUME IInv, Next PROVE Reaped
  <2>. SUFFICES ASSUME NEW z \in Proc, state[z] = "ZOMBIE", state'[z] # "ZOMBIE"
                PROVE  /\ state'[z] = "UNUSED"
                       /\ \E c \in CPU : proc[c] = parent[z] /\ lock \in {c, NoCPU}
    BY Zenon
  <2>1. state \in [Proc -> ProcState]
    BY <1>1, Types, Zenon
  <2>2. ASSUME NEW ch \in Chan, Wakeup(ch) PROVE FALSE
    BY <2>1, <2>2, Zenon DEF Wakeup, Wakeup1
  <2>3. PICK c \in CPU : Wait(c) \/ WaitAgain(c)
    BY <1>1, <2>2, ZombieStays, Zenon DEF Next, Resume
  <2>4. PICK p \in Proc : proc[c] = p /\ lock \in {c, NoCPU} /\ WaitScan(c, p) /\ p # z
    BY <1>1, <2>3, ZombiesIdle, Zenon DEF Wait, WaitAgain, Executes, SwitchedIn
  <2>5. PICK q \in Proc : q \in Children(p) /\ state' = [state EXCEPT ![q] = "UNUSED"]
    BY <2>1, <2>4, Zenon DEF WaitScan, IsFirst
  <2>6. q = z
    BY <2>1, <2>5, Zenon
  <2>. QED  BY <2>1, <2>4, <2>5, <2>6, Zenon DEF Children
<1>2. IInv /\ [Next]_vars => [Reaped]_vars
  BY <1>1, Zenon
<1>. QED  BY <1>2, Invariance, PTL DEF Spec, OnlyParentReaps
=============================================================================
