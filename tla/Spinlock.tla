------------------------------ MODULE Spinlock ------------------------------
(***************************************************************************)
(* Spin locks and interrupt masking (kernel/spinlock.c), and the kernel    *)
(* threads that use them: the scheduler of each CPU, processes that sched  *)
(* moves between CPUs, and interrupt handlers that run on the stack of     *)
(* whatever they interrupt.                                                *)
(*                                                                         *)
(* Threads run arbitrary kernel code that nests locks in the order of      *)
(* their ranks.  A step is what a CPU does between two points at which an  *)
(* interrupt or another CPU can meet it: pushcli reads eflags and only     *)
(* then disables interrupts; acquire takes the lock and only then says who *)
(* has it; release says that nobody has it and then frees it.              *)
(***************************************************************************)
EXTENDS Integers, FiniteSets, Sequences

CONSTANTS CPU,        \* the processors; each is also its scheduler's thread
          Thread,     \* the kernel threads of processes
          Lock,       \* the spin locks
          NoLock,     \* pushcli and popcli without a lock, as in switchuvm
          NoCPU,      \* lk->cpu of a lock that nobody has
          ptable,     \* ptable.lock
          Rank        \* the order in which the kernel nests locks

ASSUME SpinAssumption ==
  /\ CPU \cap Thread = {} /\ NoLock \notin Lock /\ NoCPU \notin CPU
  /\ ptable \in Lock /\ IsFiniteSet(Lock) /\ Rank \in [Lock -> Nat]

VARIABLES
  locked, lkcpu,        \* per lock: struct spinlock
  fl_if, ncli, intena,  \* per CPU: the interrupt flag FL_IF, struct cpu
  cur,                  \* per CPU: the thread it runs
  pc,                   \* per thread: where it is
  want,                 \* per thread: the lock it acquires or releases
  eflags,               \* per thread: the local variable of pushcli
  held,                 \* per thread: the locks it has
  frames,               \* per thread: what the handlers on its stack interrupted
  saved,                \* per thread: the local variable intena of sched
  was                   \* per thread: FL_IF at its outermost pushcli

lock_vars == <<locked, lkcpu>>
cpu_vars == <<fl_if, ncli, intena>>
code_vars == <<pc, want, eflags, frames>>
vars == <<lock_vars, cpu_vars, code_vars, cur, held, saved, was>>

Task == CPU \cup Thread
PC == {"top", "run", "cli", "spin", "got", "unlock", "popcli", "switched", "new",
       "forkret", "trapret", "panic"}
Frame == [pc : PC, want : Lock \cup {NoLock}, eflags : {0, 1}]

\* Every CPU starts in scheduler() with interrupts off.
Init ==
  /\ locked = [l \in Lock |-> 0] /\ lkcpu = [l \in Lock |-> NoCPU]
  /\ fl_if = [c \in CPU |-> 0] /\ ncli = [c \in CPU |-> 0]
  /\ intena = [c \in CPU |-> 0] /\ cur = [c \in CPU |-> c]
  /\ pc = [t \in Task |-> IF t \in CPU THEN "top" ELSE "new"]
  /\ want = [t \in Task |-> NoLock] /\ eflags = [t \in Task |-> 0]
  /\ held = [t \in Task |-> {}] /\ frames = [t \in Task |-> <<>>]
  /\ saved = [t \in Task |-> 0] /\ was = [t \in Task |-> 0]

Holding(c, l) == locked[l] = 1 /\ lkcpu[l] = c

Goto(t, l) == pc' = [pc EXCEPT ![t] = l]

\* The next lock that the code of t may take.  A scheduler takes ptable.lock,
\* and calls pushcli in switchuvm while it has it; a handler on its stack may
\* take any.
MayTake(t, l) ==
  /\ l \in Lock => \A h \in held[t] : Rank[h] < Rank[l]
  /\ t \in CPU /\ frames[t] = <<>> => l = IF held[t] = {} THEN ptable ELSE NoLock

-----------------------------------------------------------------------------
(* acquire and release                                                     *)

\* pushcli: eflags = readeflags().
Readeflags(c) ==
  LET t == cur[c] IN
  /\ pc[t] = "run"
  /\ \E l \in Lock \cup {NoLock} : MayTake(t, l) /\ want' = [want EXCEPT ![t] = l]
  /\ eflags' = [eflags EXCEPT ![t] = fl_if[c]] /\ Goto(t, "cli")
  /\ UNCHANGED <<lock_vars, cpu_vars, cur, held, frames, saved, was>>

\* Mutant: pushcli does not disable interrupts.
Cli_NoCli(c) ==
  LET t == cur[c] IN
  /\ pc[t] = "cli"
  /\ ncli' = [ncli EXCEPT ![c] = @ + 1]
  /\ IF ncli[c] = 0
     THEN intena' = [intena EXCEPT ![c] = eflags[t]] /\ was' = [was EXCEPT ![t] = eflags[t]]
     ELSE UNCHANGED <<intena, was>>
  /\ Goto(t, IF want[t] = NoLock THEN "popcli"
             ELSE IF Holding(c, want[t]) THEN "panic" ELSE "spin")
  /\ eflags' = [eflags EXCEPT ![t] = 0]
  /\ UNCHANGED <<lock_vars, fl_if, cur, want, held, frames, saved>>

\* The rest of pushcli, and acquire's check that the CPU does not have the
\* lock; nobody else can make that check true.
Cli(c) ==
  LET t == cur[c] IN
  /\ pc[t] = "cli"
  /\ fl_if' = [fl_if EXCEPT ![c] = 0] /\ ncli' = [ncli EXCEPT ![c] = @ + 1]
  /\ IF ncli[c] = 0
     THEN intena' = [intena EXCEPT ![c] = eflags[t]] /\ was' = [was EXCEPT ![t] = eflags[t]]
     ELSE UNCHANGED <<intena, was>>
  /\ Goto(t, IF want[t] = NoLock THEN "popcli"
             ELSE IF Holding(c, want[t]) THEN "panic" ELSE "spin")
  /\ eflags' = [eflags EXCEPT ![t] = 0]
  /\ UNCHANGED <<lock_vars, cur, want, held, frames, saved>>

\* Mutant: the lock is tested and set in two steps, or not tested at all.
Xchg_NoTest(c) ==
  LET t == cur[c] IN
  /\ pc[t] = "spin"
  /\ locked' = [locked EXCEPT ![want[t]] = 1] /\ Goto(t, "got")
  /\ UNCHANGED <<lkcpu, cpu_vars, cur, want, eflags, held, frames, saved, was>>

\* The exchange that finds the lock free.
Xchg(c) ==
  LET t == cur[c] IN
  /\ pc[t] = "spin" /\ locked[want[t]] = 0
  /\ locked' = [locked EXCEPT ![want[t]] = 1] /\ Goto(t, "got")
  /\ UNCHANGED <<lkcpu, cpu_vars, cur, want, eflags, held, frames, saved, was>>

\* lk->cpu = cpu.
Acquired(c) ==
  LET t == cur[c] IN
  /\ pc[t] = "got"
  /\ lkcpu' = [lkcpu EXCEPT ![want[t]] = c]
  /\ held' = [held EXCEPT ![t] = @ \cup {want[t]}] /\ Goto(t, "run")
  /\ want' = [want EXCEPT ![t] = NoLock]
  /\ UNCHANGED <<locked, cpu_vars, cur, eflags, frames, saved, was>>

\* release, up to lk->cpu = 0.
Release(c) ==
  LET t == cur[c] IN
  /\ pc[t] = "run"
  /\ \E l \in held[t] :
       IF ~Holding(c, l) THEN Goto(t, "panic") /\ UNCHANGED <<lkcpu, want, held>>
       ELSE /\ lkcpu' = [lkcpu EXCEPT ![l] = NoCPU] /\ want' = [want EXCEPT ![t] = l]
            /\ held' = [held EXCEPT ![t] = @ \ {l}] /\ Goto(t, "unlock")
  /\ UNCHANGED <<locked, cpu_vars, cur, eflags, frames, saved, was>>

\* The exchange that frees the lock.
Unlock(c) ==
  LET t == cur[c] IN
  /\ pc[t] = "unlock"
  /\ locked' = [locked EXCEPT ![want[t]] = 0] /\ Goto(t, "popcli")
  /\ want' = [want EXCEPT ![t] = NoLock]
  /\ UNCHANGED <<lkcpu, cpu_vars, cur, eflags, held, frames, saved, was>>

\* Interrupts after popcli has lowered the count to n.
AfterPop(c, n) == IF n = 0 /\ intena[c] = 1 THEN 1 ELSE fl_if[c]

\* popcli.  A scheduler that has released ptable.lock starts its loop again.
Popcli(c) ==
  LET t == cur[c] IN
  /\ pc[t] = "popcli"
  /\ IF fl_if[c] = 1 \/ ncli[c] < 1 THEN Goto(t, "panic") /\ UNCHANGED <<fl_if, ncli, was>>
     ELSE /\ ncli' = [ncli EXCEPT ![c] = @ - 1]
          /\ fl_if' = [fl_if EXCEPT ![c] = AfterPop(c, ncli[c] - 1)]
          /\ was' = [was EXCEPT ![t] = IF ncli[c] = 1 THEN 0 ELSE @]
          /\ Goto(t, IF t \in CPU /\ frames[t] = <<>> /\ held[t] = {} THEN "top" ELSE "run")
  /\ UNCHANGED <<lock_vars, intena, cur, want, eflags, held, frames, saved>>

-----------------------------------------------------------------------------
(* Interrupts                                                              *)

\* The CPU takes an interrupt: the gate clears FL_IF, and a handler starts.
Interrupt(c) ==
  LET t == cur[c] IN
  /\ fl_if[c] = 1 /\ fl_if' = [fl_if EXCEPT ![c] = 0]
  /\ frames' = [frames EXCEPT ![t] =
                  <<[pc |-> pc[t], want |-> want[t], eflags |-> eflags[t]]>> \o @]
  /\ Goto(t, "run")
  /\ want' = [want EXCEPT ![t] = NoLock] /\ eflags' = [eflags EXCEPT ![t] = 0]
  /\ UNCHANGED <<lock_vars, ncli, intena, cur, held, saved, was>>

\* The handler returns: iret restores the interrupted code and its FL_IF.
Iret(c) ==
  LET t == cur[c] IN
  /\ pc[t] = "run" /\ frames[t] # <<>> /\ held[t] = {}
  /\ fl_if' = [fl_if EXCEPT ![c] = 1]
  /\ Goto(t, Head(frames[t]).pc)
  /\ want' = [want EXCEPT ![t] = Head(frames[t]).want]
  /\ eflags' = [eflags EXCEPT ![t] = Head(frames[t]).eflags]
  /\ frames' = [frames EXCEPT ![t] = Tail(@)]
  /\ UNCHANGED <<lock_vars, ncli, intena, cur, held, saved, was>>

-----------------------------------------------------------------------------
(* Threads                                                                 *)

\* scheduler(): sti() at the top of the loop.
Sti(c) ==
  /\ cur[c] = c /\ pc[c] = "top"
  /\ fl_if' = [fl_if EXCEPT ![c] = 1] /\ Goto(c, "run")
  /\ UNCHANGED <<lock_vars, ncli, intena, cur, want, eflags, held, frames, saved, was>>

\* sched(), called by yield, sleep or exit with ptable.lock: the CPU goes back
\* to its scheduler, which has the lock now.  After exit the slot will hold a
\* new thread.
Sched(c) ==
  LET t == cur[c] IN
  /\ t \in Thread /\ pc[t] = "run" /\ held[t] = {ptable}
  /\ IF ~Holding(c, ptable) \/ ncli[c] # 1 \/ fl_if[c] = 1
     THEN Goto(t, "panic") /\ UNCHANGED <<cur, held, frames, saved>>
     ELSE /\ saved' = [saved EXCEPT ![t] = intena[c]]
          /\ cur' = [cur EXCEPT ![c] = c]
          /\ held' = [held EXCEPT ![t] = {}, ![c] = {ptable}]
          /\ \/ Goto(t, "switched") /\ UNCHANGED frames
             \/ Goto(t, "new") /\ frames' = [frames EXCEPT ![t] = <<>>]
  /\ UNCHANGED <<lock_vars, cpu_vars, want, eflags, was>>

\* Mutant: sched does not restore intena.
SchedRun_NoRestore(c) ==
  /\ cur[c] = c /\ pc[c] = "run" /\ held[c] = {ptable} /\ frames[c] = <<>>
  /\ \E t \in Thread :
       /\ pc[t] \in {"switched", "new"}
       /\ cur' = [cur EXCEPT ![c] = t]
       /\ held' = [held EXCEPT ![t] = {ptable}, ![c] = {}]
       /\ Goto(t, IF pc[t] = "switched" THEN "run" ELSE "forkret")
  /\ UNCHANGED <<lock_vars, cpu_vars, want, eflags, frames, saved, was>>

\* The scheduler switches to a thread, which goes on in sched() or, if it is
\* new, in forkret().
SchedRun(c) ==
  /\ cur[c] = c /\ pc[c] = "run" /\ held[c] = {ptable} /\ frames[c] = <<>>
  /\ \E t \in Thread :
       /\ pc[t] \in {"switched", "new"}
       /\ cur' = [cur EXCEPT ![c] = t]
       /\ held' = [held EXCEPT ![t] = {ptable}, ![c] = {}]
       /\ IF pc[t] = "switched"
          THEN Goto(t, "run") /\ intena' = [intena EXCEPT ![c] = saved[t]]
          ELSE Goto(t, "forkret") /\ UNCHANGED intena
       /\ saved' = [saved EXCEPT ![t] = 0]
  /\ UNCHANGED <<lock_vars, fl_if, ncli, want, eflags, frames, was>>

\* forkret(): release(&ptable.lock).
Forkret(c) ==
  LET t == cur[c] IN
  /\ pc[t] = "forkret"
  /\ IF ~Holding(c, ptable) \/ fl_if[c] = 1 \/ ncli[c] < 1
     THEN Goto(t, "panic") /\ UNCHANGED <<lock_vars, fl_if, ncli, held>>
     ELSE /\ lkcpu' = [lkcpu EXCEPT ![ptable] = NoCPU]
          /\ locked' = [locked EXCEPT ![ptable] = 0]
          /\ held' = [held EXCEPT ![t] = @ \ {ptable}]
          /\ ncli' = [ncli EXCEPT ![c] = @ - 1]
          /\ fl_if' = [fl_if EXCEPT ![c] = AfterPop(c, ncli[c] - 1)]
          /\ Goto(t, "trapret")
  /\ UNCHANGED <<intena, cur, want, eflags, frames, saved, was>>

\* trapret enters user space, where interrupts are on.
Trapret(c) ==
  LET t == cur[c] IN
  /\ pc[t] = "trapret"
  /\ fl_if' = [fl_if EXCEPT ![c] = 1] /\ Goto(t, "run")
  /\ UNCHANGED <<lock_vars, ncli, intena, cur, want, eflags, held, frames, saved, was>>

-----------------------------------------------------------------------------
Acquire(c) == Readeflags(c) \/ Cli(c) \/ Xchg(c) \/ Acquired(c)
Free(c) == Release(c) \/ Unlock(c) \/ Popcli(c)
Switch(c) == Sti(c) \/ Sched(c) \/ SchedRun(c) \/ Forkret(c) \/ Trapret(c)

Next == \E c \in CPU : Acquire(c) \/ Free(c) \/ Switch(c) \/ Interrupt(c) \/ Iret(c)

Spec == Init /\ [][Next]_vars

-----------------------------------------------------------------------------
(* Properties                                                              *)

TypeOK ==
  /\ locked \in [Lock -> {0, 1}] /\ lkcpu \in [Lock -> CPU \cup {NoCPU}]
  /\ fl_if \in [CPU -> {0, 1}] /\ ncli \in [CPU -> Nat] /\ intena \in [CPU -> {0, 1}]
  /\ cur \in [CPU -> Task] /\ pc \in [Task -> PC]
  /\ want \in [Task -> Lock \cup {NoLock}] /\ eflags \in [Task -> {0, 1}]
  /\ held \in [Task -> SUBSET Lock] /\ frames \in [Task -> Seq(Frame)]
  /\ saved \in [Task -> {0, 1}] /\ was \in [Task -> {0, 1}]

\* The locks that thread t has taken, in the middle of acquire and release too.
Owns(t) == held[t] \cup IF pc[t] \in {"got", "unlock"} THEN {want[t]} ELSE {}

\* Mutual exclusion: a lock that is taken belongs to exactly one thread.
Exclusion ==
  \A l \in Lock :
    /\ locked[l] = 1 <=> \E t \in Task : l \in Owns(t)
    /\ \A t, u \in Task : l \in Owns(t) /\ l \in Owns(u) => t = u

\* holding() is exact: it answers for the thread that asks, although threads
\* move between CPUs and ptable.lock between threads.
HoldingExact == \A c \in CPU : \A l \in Lock : Holding(c, l) <=> l \in held[cur[c]]

\* A thread that has a lock is running, and its CPU takes no interrupts: no
\* handler and no other thread of that CPU can wait for the lock in vain.
HoldersRun ==
  \A t \in Task : Owns(t) # {} => \E c \in CPU : cur[c] = t /\ fl_if[c] = 0

\* The panics of acquire, release, popcli and sched are unreachable.
NoPanic == \A t \in Task : pc[t] # "panic"

\* A handler is not interrupted itself, so one handler at a time uses a stack.
OneHandler == \A t \in Task : Len(frames[t]) <= 1

-----------------------------------------------------------------------------
(***************************************************************************)
(* The strengthening that makes the properties inductive.                  *)
(***************************************************************************)

\* Which threads run, and what a scheduler is doing while it does not.
Runs(t) == pc[t] \notin {"switched", "new"}

CurInv ==
  /\ \A c \in CPU : cur[c] \in Thread \cup {c} /\ Runs(cur[c])
  /\ \A c, d \in CPU : cur[c] = cur[d] => c = d
  /\ \A t \in Thread : pc[t] # "top" /\ (Runs(t) => \E c \in CPU : cur[c] = t)
  /\ \A t \in Thread : ~Runs(t) => held[t] = {}
  /\ \A c \in CPU :
       /\ pc[c] \notin {"switched", "new", "forkret", "trapret"}
       /\ cur[c] # c => pc[c] = "run" /\ held[c] = {} /\ frames[c] = <<>>

\* Struct spinlock says what threads have.
LockInv ==
  /\ \A t \in Task : \A l \in held[t] :
       locked[l] = 1 /\ lkcpu[l] \in CPU /\ cur[lkcpu[l]] = t
  /\ \A l \in Lock : lkcpu[l] \in CPU => l \in held[cur[lkcpu[l]]]
  /\ \A l \in Lock : locked[l] = 1 => \E t \in Task : l \in Owns(t)
  /\ \A t \in Task :
       /\ pc[t] \in {"spin", "got", "unlock"} => want[t] \in Lock
       /\ pc[t] \in {"got", "unlock"} => locked[want[t]] = 1 /\ lkcpu[want[t]] = NoCPU
       /\ pc[t] \in {"cli", "spin"} => want[t] \notin held[t]
  /\ \A t, u \in Task :
       pc[t] \in {"got", "unlock"} /\ pc[u] \in {"got", "unlock"} /\ want[t] = want[u] => t = u

\* ncli counts the locks of the running thread, one for an acquire, a release
\* or a switchuvm under way, and masks interrupts while it is not 0.
Pushed(t) == IF pc[t] \in {"spin", "got", "unlock", "popcli"} THEN 1 ELSE 0

MaskInv ==
  \A c \in CPU :
    /\ ncli[c] = Cardinality(held[cur[c]]) + Pushed(cur[c])
    /\ ncli[c] > 0 => fl_if[c] = 0
    /\ pc[cur[c]] \in {"top", "trapret"} => held[cur[c]] = {}
    /\ pc[cur[c]] = "forkret" => held[cur[c]] = {ptable}

\* A handler runs with interrupts off, and nothing it calls turns them on.
HandlerInv ==
  /\ \A t \in Task :
       /\ pc[t] \in {"top", "forkret", "trapret", "new"} => frames[t] = <<>>
       /\ frames[t] # <<>> =>
            /\ Len(frames[t]) = 1
            /\ frames[t][1].pc \in {"run", "cli"} \cup IF t \in CPU THEN {"top"} ELSE {"trapret"}
            /\ pc[t] = "cli" => eflags[t] = 0
            /\ pc[t] = "switched" => saved[t] = 0
  /\ \A c \in CPU : frames[cur[c]] # <<>> =>
       fl_if[c] = 0 /\ (ncli[c] > 0 => intena[c] = 0)

\* intena belongs to the thread that pushed first, wherever it runs.
IntenaInv ==
  /\ \A c \in CPU : cur[c] \in Thread /\ ncli[c] > 0 /\ pc[cur[c]] # "forkret"
       => intena[c] = was[cur[c]]
  /\ \A t \in Thread : pc[t] = "switched" => saved[t] = was[t]

IInv == TypeOK /\ NoPanic /\ CurInv /\ LockInv /\ MaskInv /\ HandlerInv /\ IntenaInv

-----------------------------------------------------------------------------
\* A thread leaves its outermost critical section with the interrupt flag it
\* entered with, on whatever CPU it is by then.
RestoresInterrupts ==
  [][\A c \in CPU : cur[c] \in Thread /\ pc[cur[c]] = "popcli" /\ ncli[c] = 1 /\ ncli'[c] = 0
       => fl_if'[c] = was[cur[c]]]_vars
=============================================================================
