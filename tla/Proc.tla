-------------------------------- MODULE Proc --------------------------------
(***************************************************************************)
(* The process table of xv6 (kernel/proc.c): fork, exit, wait, kill,       *)
(* sleep, wakeup and the per-CPU scheduler, on several CPUs.               *)
(*                                                                         *)
(* A CPU c executes either its scheduler (proc[c] = 0) or the kernel or    *)
(* user code of process proc[c].  ptable.lock is held by a CPU, across     *)
(* swtch: a process that gives up the CPU hands the lock to the scheduler  *)
(* of that CPU, and the scheduler hands it to the process it switches to.  *)
(* An action is what a CPU does between two points at which another CPU    *)
(* or an interrupt can observe the table: a critical section of            *)
(* ptable.lock, or one store that proc.c makes without the lock.           *)
(***************************************************************************)
EXTENDS Integers, FiniteSets

CONSTANTS NPROC,      \* size of ptable.proc
          CPU,        \* the processors
          NoCPU,      \* holder of a free lock
          Chan,       \* sleep channels other than struct proc addresses
          Prog,       \* program names
          InitProg,   \* the name of the first process
          MaxPid      \* bound on nextpid, for model checking

Proc == 1..NPROC      \* indices of ptable.proc; 0 is the null pointer
initproc == 1         \* userinit takes the first slot

ASSUME ProcAssumption ==
  /\ NPROC \in Nat \ {0}
  /\ MaxPid \in Nat \ {0}
  /\ NoCPU \notin CPU
  /\ Chan \cap (Proc \cup {0}) = {}
  /\ InitProg \in Prog

VARIABLES
  lock,      \* the CPU that holds ptable.lock
  proc,      \* per CPU: the process it runs, 0 in the scheduler
  scan,      \* per CPU: the scheduler's loop index, 0 outside the loop
  state, pid, parent, chan, killed, name,  \* struct proc
  kstack, pgdir,  \* struct proc: 1 while that memory is allocated to the slot
  nextpid,   \* the next pid to give out
  pc,        \* per process: where its kernel thread is
  yielding,  \* the processes inside yield(), called from a trap
  child,     \* per process: np, in fork
  image      \* per process: the program its address space holds

sched_vars == <<proc, scan>>
table_vars == <<state, pid, parent, chan, killed, kstack, pgdir, name, nextpid>>
thread_vars == <<pc, yielding, child, image>>
vars == <<lock, sched_vars, table_vars, thread_vars>>

ProcState == {"UNUSED", "EMBRYO", "SLEEPING", "RUNNABLE", "RUNNING", "ZOMBIE"}

(***************************************************************************)
(* Positions of a process's kernel thread.  "kernel" is a system call that *)
(* passed trap's check of p->killed; "alloced" to "started" are the points *)
(* of fork between its stores; "exit" is exit() before acquire, and        *)
(* "exitsleep" a sleep for the disk while exit() drops its files.          *)
(***************************************************************************)
ForkPC == {"alloced", "stacked", "copied", "parented", "started"}
PC == {"forkret", "user", "kernel", "exit", "wait", "sleep", "exitsleep", "panic"} \cup ForkPC

\* The process, if any, that CPU c executes with ptable.lock not held by c:
\* interrupts are on and a trap may call yield.
Executes(c, p) == proc[c] = p /\ lock # c /\ p \notin yielding

\* The process has just been switched to: c holds ptable.lock and p was set
\* RUNNING by the scheduler.
SwitchedIn(c, p) == proc[c] = p /\ lock = c /\ state[p] = "RUNNING"

Goto(p, l) == pc' = [pc EXCEPT ![p] = l]

\* p is the first slot of S in table order.
IsFirst(p, S) == p \in S /\ \A q \in S : p <= q

-----------------------------------------------------------------------------
(***************************************************************************)
(* State after userinit: the first slot holds the first process.           *)
(***************************************************************************)
Init ==
  /\ lock = NoCPU
  /\ proc = [c \in CPU |-> 0]
  /\ scan = [c \in CPU |-> 0]
  /\ state = [p \in Proc |-> IF p = initproc THEN "RUNNABLE" ELSE "UNUSED"]
  /\ pid = [p \in Proc |-> IF p = initproc THEN 1 ELSE 0]
  /\ parent = [p \in Proc |-> 0]
  /\ chan = [p \in Proc |-> 0]
  /\ killed = [p \in Proc |-> 0]
  /\ kstack = [p \in Proc |-> IF p = initproc THEN 1 ELSE 0]
  /\ pgdir = [p \in Proc |-> IF p = initproc THEN 1 ELSE 0]
  /\ name = [p \in Proc |-> IF p = initproc THEN InitProg ELSE ""]
  /\ nextpid = 2
  /\ pc = [p \in Proc |-> IF p = initproc THEN "forkret" ELSE "user"]
  /\ yielding = {}
  /\ child = [p \in Proc |-> 0]
  /\ image = [p \in Proc |-> InitProg]

-----------------------------------------------------------------------------
(* scheduler(), sched(), yield(), forkret()                                *)

SchedAcquire(c) ==
  /\ proc[c] = 0 /\ scan[c] = 0 /\ lock = NoCPU
  /\ lock' = c
  /\ scan' = [scan EXCEPT ![c] = 1]
  /\ UNCHANGED <<proc, table_vars, thread_vars>>

SchedSkip(c) ==
  /\ proc[c] = 0 /\ scan[c] \in Proc
  /\ state[scan[c]] # "RUNNABLE"
  /\ scan' = [scan EXCEPT ![c] = @ + 1]
  /\ UNCHANGED <<lock, proc, table_vars, thread_vars>>

SchedRun(c) ==
  /\ proc[c] = 0 /\ scan[c] \in Proc
  /\ state[scan[c]] = "RUNNABLE"
  /\ proc' = [proc EXCEPT ![c] = scan[c]]
  /\ state' = [state EXCEPT ![scan[c]] = "RUNNING"]
  /\ UNCHANGED <<lock, scan, pid, parent, chan, killed, kstack, pgdir, name,
                 nextpid, thread_vars>>

SchedRelease(c) ==
  /\ proc[c] = 0 /\ scan[c] = NPROC + 1
  /\ lock' = NoCPU
  /\ scan' = [scan EXCEPT ![c] = 0]
  /\ UNCHANGED <<proc, table_vars, thread_vars>>

\* sched(): the process has changed its state under the lock; switch to the
\* scheduler, which leaves the process's page table and clears proc.
Swtch(c) ==
  \E p \in Proc :
    /\ proc[c] = p /\ lock = c /\ state[p] # "RUNNING"
    /\ proc' = [proc EXCEPT ![c] = 0]
    /\ scan' = [scan EXCEPT ![c] = @ + 1]
    /\ UNCHANGED <<lock, table_vars, thread_vars>>

\* A timer interrupt, in user space or in the kernel with no lock held.
Yield(c) ==
  \E p \in Proc :
    /\ Executes(c, p) /\ pc[p] # "panic" /\ lock = NoCPU
    /\ lock' = c
    /\ state' = [state EXCEPT ![p] = "RUNNABLE"]
    /\ yielding' = yielding \cup {p}
    /\ UNCHANGED <<sched_vars, pid, parent, chan, killed, kstack, pgdir, name,
                   nextpid, pc, child, image>>

YieldReturn(c) ==
  \E p \in Proc :
    /\ SwitchedIn(c, p) /\ p \in yielding
    /\ lock' = NoCPU
    /\ yielding' = yielding \ {p}
    /\ UNCHANGED <<sched_vars, table_vars, pc, child, image>>

Forkret(c) ==
  \E p \in Proc :
    /\ SwitchedIn(c, p) /\ p \notin yielding /\ pc[p] = "forkret"
    /\ lock' = NoCPU
    /\ Goto(p, "user")
    /\ UNCHANGED <<sched_vars, table_vars, yielding, child, image>>

-----------------------------------------------------------------------------
(* trap(): system calls, faults, and the exit of a killed process          *)

Syscall(c) ==
  \E p \in Proc :
    /\ Executes(c, p) /\ pc[p] = "user" /\ killed[p] = 0
    /\ Goto(p, "kernel")
    /\ UNCHANGED <<lock, sched_vars, table_vars, yielding, child, image>>

\* "In user space, assume process misbehaved."
Fault(c) ==
  \E p \in Proc :
    /\ Executes(c, p) /\ pc[p] = "user" /\ killed[p] = 0
    /\ killed' = [killed EXCEPT ![p] = 1]
    /\ UNCHANGED <<lock, sched_vars, state, pid, parent, chan, kstack, pgdir,
                   name, nextpid, thread_vars>>

\* A system call that leaves the process table alone returns.
SyscallReturn(c) ==
  \E p \in Proc :
    /\ Executes(c, p) /\ pc[p] = "kernel"
    /\ Goto(p, "user")
    /\ UNCHANGED <<lock, sched_vars, table_vars, yielding, child, image>>

\* exec() replaces the program; a failed exec is a SyscallReturn.
Exec(c) ==
  \E p \in Proc, g \in Prog :
    /\ Executes(c, p) /\ pc[p] = "kernel"
    /\ name' = [name EXCEPT ![p] = g]
    /\ image' = [image EXCEPT ![p] = g]
    /\ Goto(p, "user")
    /\ UNCHANGED <<lock, sched_vars, state, pid, parent, chan, killed, kstack,
                   pgdir, nextpid, yielding, child>>

-----------------------------------------------------------------------------
(* fork() and allocproc()                                                  *)

\* Mutants: allocproc takes a slot that another fork is filling, or a zombie.
Unused_Embryo == {p \in Proc : state[p] \in {"UNUSED", "EMBRYO"}}
Unused_Zombie == {p \in Proc : state[p] \in {"UNUSED", "ZOMBIE"}}

Unused == {p \in Proc : state[p] = "UNUSED"}

\* The critical section of allocproc; with no slot left fork returns -1.
ForkAlloc(c) ==
  \E p \in Proc :
    /\ Executes(c, p) /\ pc[p] = "kernel" /\ lock = NoCPU
    /\ \/ /\ Unused = {}
          /\ Goto(p, "user")
          /\ UNCHANGED <<lock, sched_vars, table_vars, yielding, child, image>>
       \/ /\ nextpid <= MaxPid
          /\ \E np \in Proc :
               /\ IsFirst(np, Unused)
               /\ state' = [state EXCEPT ![np] = "EMBRYO"]
               /\ pid' = [pid EXCEPT ![np] = nextpid]
               /\ child' = [child EXCEPT ![p] = np]
          /\ nextpid' = nextpid + 1
          /\ Goto(p, "alloced")
          /\ UNCHANGED <<lock, sched_vars, parent, chan, killed, kstack, pgdir,
                         name, yielding, image>>

\* p->kstack = kalloc(); without memory the slot is given back, unlocked.
ForkKstack(c) ==
  \E p \in Proc : LET np == child[p] IN
    /\ Executes(c, p) /\ pc[p] = "alloced"
    /\ \/ /\ kstack' = [kstack EXCEPT ![np] = 1]
          /\ pc' = [pc EXCEPT ![p] = "stacked", ![np] = "forkret"]
          /\ UNCHANGED <<state, child>>
       \/ /\ state' = [state EXCEPT ![np] = "UNUSED"]
          /\ child' = [child EXCEPT ![p] = 0]
          /\ Goto(p, "user")
          /\ UNCHANGED kstack
    /\ UNCHANGED <<lock, sched_vars, pid, parent, chan, killed, pgdir, name,
                   nextpid, yielding, image>>

\* np->pgdir = copyuvm(...); without memory the stack and the slot go back.
ForkCopyuvm(c) ==
  \E p \in Proc : LET np == child[p] IN
    /\ Executes(c, p) /\ pc[p] = "stacked"
    /\ \/ /\ pgdir' = [pgdir EXCEPT ![np] = 1]
          /\ image' = [image EXCEPT ![np] = image[p]]
          /\ Goto(p, "copied")
          /\ UNCHANGED <<state, child, kstack>>
       \/ /\ kstack' = [kstack EXCEPT ![np] = 0]
          /\ state' = [state EXCEPT ![np] = "UNUSED"]
          /\ child' = [child EXCEPT ![p] = 0]
          /\ Goto(p, "user")
          /\ UNCHANGED <<pgdir, image>>
    /\ UNCHANGED <<lock, sched_vars, pid, parent, chan, killed, name, nextpid,
                   yielding>>

ForkParent(c) ==
  \E p \in Proc : LET np == child[p] IN
    /\ Executes(c, p) /\ pc[p] = "copied"
    /\ parent' = [parent EXCEPT ![np] = p]
    /\ Goto(p, "parented")
    /\ UNCHANGED <<lock, sched_vars, state, pid, chan, killed, kstack, pgdir,
                   name, nextpid, yielding, child, image>>

\* np->state = RUNNABLE, without ptable.lock
ForkStart(c) ==
  \E p \in Proc : LET np == child[p] IN
    /\ Executes(c, p) /\ pc[p] = "parented"
    /\ state' = [state EXCEPT ![np] = "RUNNABLE"]
    /\ Goto(p, "started")
    /\ UNCHANGED <<lock, sched_vars, pid, parent, chan, killed, kstack, pgdir,
                   name, nextpid, yielding, child, image>>

\* safestrcpy(np->name, proc->name), when np may already be running
ForkName(c) ==
  \E p \in Proc : LET np == child[p] IN
    /\ Executes(c, p) /\ pc[p] = "started"
    /\ name' = [name EXCEPT ![np] = name[p]]
    /\ child' = [child EXCEPT ![p] = 0]
    /\ Goto(p, "user")
    /\ UNCHANGED <<lock, sched_vars, state, pid, parent, chan, killed, kstack,
                   pgdir, nextpid, yielding, image>>

-----------------------------------------------------------------------------
(* sleep(), wakeup() and kill()                                            *)

\* Mutant: the loop of wakeup1 misses the first slot.
Wakeup1_SkipsFirst(st, ch) ==
  [p \in Proc |-> IF p > 1 /\ st[p] = "SLEEPING" /\ chan[p] = ch
                  THEN "RUNNABLE" ELSE st[p]]

\* The process table after wakeup1(ch), from the states st.
Wakeup1(st, ch) ==
  [p \in Proc |-> IF st[p] = "SLEEPING" /\ chan[p] = ch THEN "RUNNABLE" ELSE st[p]]

\* sleep(ch, lk) from the acquisition of ptable.lock to sched()
Sleep(c) ==
  \E p \in Proc, ch \in Chan :
    /\ Executes(c, p) /\ pc[p] \in {"kernel", "exit"} /\ lock = NoCPU
    /\ lock' = c
    /\ chan' = [chan EXCEPT ![p] = ch]
    /\ state' = [state EXCEPT ![p] = "SLEEPING"]
    /\ Goto(p, IF pc[p] = "kernel" THEN "sleep" ELSE "exitsleep")
    /\ UNCHANGED <<sched_vars, pid, parent, killed, kstack, pgdir, name,
                   nextpid, yielding, child, image>>

\* The rest of sleep(): the caller goes on in its system call or in exit().
SleepReturn(c) ==
  \E p \in Proc :
    /\ SwitchedIn(c, p) /\ p \notin yielding /\ pc[p] \in {"sleep", "exitsleep"}
    /\ chan' = [chan EXCEPT ![p] = 0]
    /\ lock' = NoCPU
    /\ Goto(p, IF pc[p] = "sleep" THEN "kernel" ELSE "exit")
    /\ UNCHANGED <<sched_vars, state, pid, parent, killed, kstack, pgdir, name,
                   nextpid, yielding, child, image>>

\* wakeup(ch), from a system call or an interrupt handler of any CPU
Wakeup(ch) ==
  /\ lock = NoCPU
  /\ state' = Wakeup1(state, ch)
  /\ UNCHANGED <<lock, sched_vars, pid, parent, chan, killed, kstack, pgdir,
                 name, nextpid, thread_vars>>

\* kill(n) marks the first slot whose pid field is n, whatever its state.
Kill(c) ==
  \E p \in Proc, n \in 0..MaxPid :
    /\ Executes(c, p) /\ pc[p] = "kernel" /\ lock = NoCPU
    /\ LET named == {q \in Proc : pid[q] = n} IN
         \/ named = {} /\ UNCHANGED <<killed, state>>
         \/ \E q \in Proc :
              /\ IsFirst(q, named)
              /\ killed' = [killed EXCEPT ![q] = 1]
              /\ state' = [state EXCEPT ![q] =
                              IF @ = "SLEEPING" THEN "RUNNABLE" ELSE @]
    /\ Goto(p, "user")
    /\ UNCHANGED <<lock, sched_vars, pid, parent, chan, kstack, pgdir, name,
                   nextpid, yielding, child, image>>

-----------------------------------------------------------------------------
(* exit() and wait()                                                       *)

\* sys_exit, or trap's exit of a killed process on its way to user space.
\* The process closes its files and drops its directory (which may sleep);
\* init panics.
ExitBegin(c) ==
  \E p \in Proc :
    /\ Executes(c, p)
    /\ pc[p] = "kernel" \/ (pc[p] = "user" /\ killed[p] = 1)
    /\ Goto(p, IF p = initproc THEN "panic" ELSE "exit")
    /\ UNCHANGED <<lock, sched_vars, table_vars, yielding, child, image>>

\* panic() loops for ever.
PanicLoop(c) ==
  \E p \in Proc :
    /\ proc[c] = p /\ pc[p] = "panic"
    /\ UNCHANGED vars

\* Mutant: the loops of exit and wait miss the last slot.
Children_SkipsLast(p) == {q \in Proc : q < NPROC /\ parent[q] = p}

Children(p) == {q \in Proc : parent[q] = p}

\* wakeup1(proc->parent); reparent the children, waking init when one of
\* them is a zombie; become one.
ExitZombie(c) ==
  \E p \in Proc :
    /\ Executes(c, p) /\ pc[p] = "exit" /\ lock = NoCPU
    /\ lock' = c
    /\ LET woken == Wakeup1(state, parent[p])
           orphans == IF \E q \in Children(p) : woken[q] = "ZOMBIE"
                      THEN Wakeup1(woken, initproc) ELSE woken
       IN state' = [orphans EXCEPT ![p] = "ZOMBIE"]
    /\ parent' = [q \in Proc |-> IF q \in Children(p) THEN initproc ELSE parent[q]]
    /\ UNCHANGED <<sched_vars, pid, chan, killed, kstack, pgdir, name, nextpid,
                   thread_vars>>

\* One pass of wait's loop, with ptable.lock held: reap the first zombie
\* child and return, return -1, or sleep on the process itself.
WaitScan(c, p) ==
  LET zombies == {q \in Children(p) : state[q] = "ZOMBIE"} IN
  \/ /\ \E q \in Proc :
          /\ IsFirst(q, zombies)
          /\ kstack' = [kstack EXCEPT ![q] = 0]
          /\ pgdir' = [pgdir EXCEPT ![q] = 0]
          /\ state' = [state EXCEPT ![q] = "UNUSED"]
          /\ pid' = [pid EXCEPT ![q] = 0]
          /\ parent' = [parent EXCEPT ![q] = 0]
          /\ name' = [name EXCEPT ![q] = ""]
          /\ killed' = [killed EXCEPT ![q] = 0]
     /\ chan' = [chan EXCEPT ![p] = 0]
     /\ lock' = NoCPU
     /\ Goto(p, "user")
  \/ /\ zombies = {}
     /\ Children(p) = {} \/ killed[p] = 1
     /\ chan' = [chan EXCEPT ![p] = 0]
     /\ lock' = NoCPU
     /\ Goto(p, "user")
     /\ UNCHANGED <<state, pid, parent, killed, kstack, pgdir, name>>
  \/ /\ zombies = {} /\ Children(p) # {} /\ killed[p] = 0
     /\ chan' = [chan EXCEPT ![p] = p]
     /\ state' = [state EXCEPT ![p] = "SLEEPING"]
     /\ lock' = c
     /\ Goto(p, "wait")
     /\ UNCHANGED <<pid, parent, killed, kstack, pgdir, name>>

\* Mutant: wait() scans the table without acquiring ptable.lock.
Wait_NoAcquire(c) ==
  \E p \in Proc :
    /\ Executes(c, p) /\ pc[p] = "kernel"
    /\ WaitScan(c, p)
    /\ UNCHANGED <<sched_vars, nextpid, yielding, child, image>>

Wait(c) ==
  \E p \in Proc :
    /\ Executes(c, p) /\ pc[p] = "kernel" /\ lock = NoCPU
    /\ WaitScan(c, p)
    /\ UNCHANGED <<sched_vars, nextpid, yielding, child, image>>

\* Woken in wait: sleep() returns with ptable.lock still held.
WaitAgain(c) ==
  \E p \in Proc :
    /\ SwitchedIn(c, p) /\ p \notin yielding /\ pc[p] = "wait"
    /\ WaitScan(c, p)
    /\ UNCHANGED <<sched_vars, nextpid, yielding, child, image>>

-----------------------------------------------------------------------------
Scheduler(c) == \/ SchedAcquire(c) \/ SchedSkip(c) \/ SchedRun(c)
                \/ SchedRelease(c) \/ Swtch(c)
Resume(c) == YieldReturn(c) \/ Forkret(c) \/ SleepReturn(c) \/ WaitAgain(c)
Fork(c) == \/ ForkAlloc(c) \/ ForkKstack(c) \/ ForkCopyuvm(c)
           \/ ForkParent(c) \/ ForkStart(c) \/ ForkName(c)
Trap(c) == Syscall(c) \/ SyscallReturn(c) \/ Fault(c) \/ Exec(c)
Exit(c) == ExitBegin(c) \/ ExitZombie(c) \/ PanicLoop(c)

Next ==
  \/ \E c \in CPU : \/ Scheduler(c) \/ Resume(c) \/ Yield(c) \/ Trap(c)
                    \/ Fork(c) \/ Sleep(c) \/ Kill(c) \/ Exit(c) \/ Wait(c)
  \/ \E ch \in Chan : Wakeup(ch)

Spec == Init /\ [][Next]_vars

-----------------------------------------------------------------------------
(* Properties                                                              *)

TypeOK ==
  /\ lock \in CPU \cup {NoCPU}
  /\ proc \in [CPU -> Proc \cup {0}]
  /\ scan \in [CPU -> 0..NPROC + 1]
  /\ state \in [Proc -> ProcState]
  /\ pid \in [Proc -> Nat]
  /\ parent \in [Proc -> Proc \cup {0}]
  /\ chan \in [Proc -> Proc \cup Chan \cup {0}]
  /\ killed \in [Proc -> {0, 1}]
  /\ kstack \in [Proc -> {0, 1}]
  /\ pgdir \in [Proc -> {0, 1}]
  /\ name \in [Proc -> Prog \cup {""}]
  /\ nextpid \in Nat
  /\ pc \in [Proc -> PC]
  /\ yielding \in SUBSET Proc
  /\ child \in [Proc -> Proc \cup {0}]
  /\ image \in [Proc -> Prog]

\* No two CPUs run the same process, and a CPU runs on a kernel stack and a
\* page directory that are allocated: wait() never frees those of a zombie
\* that is still on its way through sched(), and the scheduler never picks
\* a process another CPU has not finished switching away from.
StackSafety ==
  /\ \A c, d \in CPU : proc[c] = proc[d] /\ proc[c] # 0 => c = d
  /\ \A c \in CPU : proc[c] # 0 => kstack[proc[c]] = 1 /\ pgdir[proc[c]] = 1
  /\ \A p \in Proc : state[p] = "RUNNING" => \E c \in CPU : proc[c] = p

\* Every started process but init has a parent that has not exited, so some
\* process can still reap it: exit() hands its children to init, also those
\* that fork() starts without holding ptable.lock.
Started == {"SLEEPING", "RUNNABLE", "RUNNING", "ZOMBIE"}
ParentAlive ==
  \A p \in Proc \ {initproc} : state[p] \in Started =>
    parent[p] # 0 /\ state[parent[p]] \in Started \ {"ZOMBIE"}

\* The kernel stack and page directory of a slot are held exactly while it
\* has a started process: fork's failure paths and wait() leak neither.
NoLeak ==
  \A p \in Proc : /\ state[p] = "UNUSED" => kstack[p] = 0 /\ pgdir[p] = 0
                  /\ state[p] \in Started => kstack[p] = 1 /\ pgdir[p] = 1

\* A process asleep in wait() has a child to wait for, none of its children
\* is a zombie and it has not been killed: no exit(), reparenting or kill()
\* slips between wait's scan and its sleep.
NoLostExit ==
  \A p \in Proc : state[p] = "SLEEPING" /\ pc[p] = "wait" =>
    /\ Children(p) # {} /\ killed[p] = 0
    /\ \A q \in Children(p) : state[q] # "ZOMBIE"

\* No two slots in use have the same pid.
UniquePid ==
  \A p, q \in Proc : state[p] # "UNUSED" /\ state[q] # "UNUSED" /\ pid[p] = pid[q]
                       => p = q

\* The strengthening that makes the invariants above inductive.
\* A CPU's scheduler is inside its loop exactly when it holds the lock.
SchedInv ==
  \A c \in CPU : /\ proc[c] = 0 => (scan[c] # 0 <=> lock = c)
                 /\ proc[c] # 0 => scan[c] = proc[c]

\* A process that is on a CPU is RUNNING, or that CPU holds the lock.
OnCPU ==
  \A c \in CPU : proc[c] # 0 =>
    \/ state[proc[c]] = "RUNNING"
    \/ lock = c /\ state[proc[c]] \in Started

\* What fork() has filled in so far of the slot it took: no other process
\* is creating the same slot.
Forking == {p \in Proc : pc[p] \in ForkPC \ {"started"}}
ForkInv ==
  /\ \A p \in Forking :
       /\ child[p] \in Proc /\ state[child[p]] = "EMBRYO"
       /\ kstack[child[p]] = IF pc[p] = "alloced" THEN 0 ELSE 1
       /\ pgdir[child[p]] = IF pc[p] \in {"copied", "parented"} THEN 1 ELSE 0
       /\ parent[child[p]] = IF pc[p] = "parented" THEN p ELSE 0
  /\ \A p, q \in Forking : child[p] = child[q] => p = q
  /\ \A p \in Proc : state[p] \in {"UNUSED", "EMBRYO", "ZOMBIE"} => pc[p] \notin ForkPC
  /\ \A p \in Proc : state[p] = "UNUSED" => parent[p] = 0
  /\ \A p \in Proc : parent[p] # p

InitAlive == /\ state[initproc] \in Started \ {"ZOMBIE"}
             /\ pc[initproc] \notin {"exit", "exitsleep"} /\ parent[initproc] = 0

WaitChan == \A p \in Proc : state[p] = "SLEEPING" /\ pc[p] = "wait" => chan[p] = p

PidInv == UniquePid /\ \A p \in Proc : pid[p] < nextpid

IInv == /\ TypeOK /\ SchedInv /\ OnCPU /\ StackSafety /\ NoLeak /\ ForkInv
        /\ InitAlive /\ ParentAlive /\ WaitChan /\ NoLostExit /\ PidInv

\* A zombie leaves the table only for the free list, by the hand of its
\* parent in wait() and under ptable.lock: neither kill() nor wakeup() nor
\* another process's exit() revives or frees it.
OnlyParentReaps ==
  [][\A p \in Proc : state[p] = "ZOMBIE" /\ state'[p] # "ZOMBIE" =>
       /\ state'[p] = "UNUSED"
       /\ \E c \in CPU : proc[c] = parent[p] /\ lock \in {c, NoCPU}]_vars

-----------------------------------------------------------------------------
(***************************************************************************)
(* Liveness, on one CPU: the scheduler and the kernel's way out of a       *)
(* switch go on, and a timer interrupt that is pending fires as soon as    *)
(* interrupts are on (so it is enough that they are on again and again).   *)
(* User programs and system calls get no fairness.                         *)
(***************************************************************************)
Fairness == \A c \in CPU : /\ WF_vars(Scheduler(c))
                           /\ WF_vars(Resume(c))
                           /\ SF_vars(Yield(c))
FairSpec == Spec /\ Fairness

Panicked == \E p \in Proc : pc[p] = "panic"

\* The round-robin scan gives every runnable process the CPU.
RunnableRuns ==
  \A p \in Proc : state[p] = "RUNNABLE" ~> state[p] = "RUNNING" \/ Panicked

\* A process in wait() that has a zombie child, or has been killed, returns.
WaitReturns ==
  \A p \in Proc :
    pc[p] = "wait" /\ (killed[p] = 1 \/ \E q \in Children(p) : state[q] = "ZOMBIE")
      ~> pc[p] # "wait" \/ Panicked
=============================================================================
