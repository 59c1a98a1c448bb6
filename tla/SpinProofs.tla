----------------------------- MODULE SpinProofs -----------------------------
(***************************************************************************)
(* Proofs about Spinlock, for any CPUs, threads and locks.  Most actions   *)
(* change one CPU and the thread it runs; LocalStep says what is left to   *)
(* show for them, and QuietStep the same for the locks.  Then come the     *)
(* steps that switch a CPU from one thread to another, with ptable.lock in *)
(* hand, and the theorems.                                                 *)
(***************************************************************************)
EXTENDS Spinlock, FiniteSetTheorems, TLAPS

\* What FiniteSetTheorems says of the sets of locks that threads have.
LEMMA Count ==
  ASSUME NEW S \in SUBSET Lock
  PROVE  /\ Cardinality(S) \in Nat /\ (Cardinality(S) = 0 <=> S = {})
         /\ \A l \in Lock \ S : Cardinality(S \cup {l}) = Cardinality(S) + 1
         /\ \A l \in S : Cardinality(S \ {l}) = Cardinality(S) - 1
         /\ Cardinality({}) = 0 /\ Cardinality({ptable}) = 1
  <1>1. IsFiniteSet(S)
    BY SpinAssumption, FS_Subset, Zenon
  <1> QED
    BY <1>1, FS_EmptySet, FS_CardinalityType, FS_AddElement, FS_RemoveElement, FS_Singleton, Zenon

\* A sequence without elements is the empty one.
LEMMA NoFrame ==
  ASSUME NEW S, NEW s \in Seq(S), Len(s) = 0
  PROVE  s = <<>>
  OBVIOUS

-----------------------------------------------------------------------------
(* Steps of one CPU                                                        *)

\* What the invariant says of a CPU and the thread it runs.
At(c, t) ==
  /\ pc[t] \notin {"panic", "switched", "new"} /\ (t \in Thread => pc[t] # "top")
  /\ t \in CPU => pc[t] \notin {"forkret", "trapret"}
  /\ ncli[c] = Cardinality(held[t]) + Pushed(t) /\ (ncli[c] > 0 => fl_if[c] = 0)
  /\ pc[t] \in {"top", "trapret"} => held[t] = {}
  /\ pc[t] = "forkret" => held[t] = {ptable}
  /\ pc[t] \in {"top", "forkret", "trapret"} => frames[t] = <<>>
  /\ frames[t] # <<>> =>
       /\ Len(frames[t]) = 1
       /\ frames[t][1].pc \in {"run", "cli"} \cup IF t \in CPU THEN {"top"} ELSE {"trapret"}
       /\ pc[t] = "cli" => eflags[t] = 0
       /\ fl_if[c] = 0 /\ (ncli[c] > 0 => intena[c] = 0)
  /\ t \in Thread /\ ncli[c] > 0 /\ pc[t] # "forkret" => intena[c] = was[t]

\* A step of CPU c and thread t.
Local(c, t) ==
  /\ cur' = cur
  /\ \A d \in CPU \ {c} : fl_if'[d] = fl_if[d] /\ ncli'[d] = ncli[d] /\ intena'[d] = intena[d]
  /\ \A u \in Task \ {t} :
       /\ pc'[u] = pc[u] /\ want'[u] = want[u] /\ eflags'[u] = eflags[u]
       /\ held'[u] = held[u] /\ frames'[u] = frames[u]
       /\ saved'[u] = saved[u] /\ was'[u] = was[u]

\* The invariant as an invariant of each CPU.
LEMMA AtCur ==
  ASSUME IInv, NEW c \in CPU, NEW t \in Task, t = cur[c]
  PROVE  At(c, t)
  BY Zenon DEF IInv, TypeOK, NoPanic, CurInv, Runs, MaskInv, HandlerInv, IntenaInv, At, Task

\* A step of one CPU keeps the invariant if it does so for that CPU.
LEMMA LocalStep ==
  ASSUME IInv, NEW c \in CPU, NEW t \in Task, t = cur[c], Local(c, t), At(c, t)'
  PROVE  NoPanic' /\ CurInv' /\ MaskInv' /\ HandlerInv' /\ IntenaInv'
  <1>1. \A d \in CPU \ {c} : cur'[d] # t /\ cur[d] # t /\ cur[d] \in Task
    BY DEF IInv, TypeOK, CurInv, Local
  <1>2. NoPanic'
    BY Zenon DEF IInv, NoPanic, Local, At
  <1>3. CurInv'
    <2>1. \A d \in CPU : cur'[d] \in Thread \cup {d} /\ Runs(cur[d])'
      BY <1>1, Zenon DEF IInv, CurInv, Runs, Local, At
    <2>2. \A d, e \in CPU : cur'[d] = cur'[e] => d = e
      BY DEF IInv, CurInv, Local
    <2>3. \A u \in Thread : pc'[u] # "top" /\ (Runs(u)' => \E d \in CPU : cur'[d] = u)
      BY DEF IInv, CurInv, Runs, Local, At, Task
    <2>4. \A u \in Thread : ~Runs(u)' => held'[u] = {}
      BY Zenon DEF IInv, CurInv, Runs, Local, At, Task
    <2>5. \A d \in CPU :
            /\ pc'[d] \notin {"switched", "new", "forkret", "trapret"}
            /\ cur'[d] # d => pc'[d] = "run" /\ held'[d] = {} /\ frames'[d] = <<>>
      BY SpinAssumption DEF IInv, CurInv, Local, At, Task
    <2> QED
      BY <2>1, <2>2, <2>3, <2>4, <2>5, Zenon DEF CurInv
  <1>4. MaskInv'
    <2> SUFFICES ASSUME NEW d \in CPU
                 PROVE  /\ ncli'[d] = Cardinality(held'[cur'[d]]) + Pushed(cur[d])'
                        /\ ncli'[d] > 0 => fl_if'[d] = 0
                        /\ pc'[cur'[d]] \in {"top", "trapret"} => held'[cur'[d]] = {}
                        /\ pc'[cur'[d]] = "forkret" => held'[cur'[d]] = {ptable}
      BY Zenon DEF MaskInv
    <2>1. CASE d = c
      BY <2>1, Zenon DEF Local, At, Pushed
    <2>2. CASE d # c
      <3>1. /\ cur'[d] = cur[d] /\ held'[cur[d]] = held[cur[d]] /\ pc'[cur[d]] = pc[cur[d]]
            /\ ncli'[d] = ncli[d] /\ fl_if'[d] = fl_if[d]
        BY <1>1, <2>2, Zenon DEF Local
      <3>2. Pushed(cur[d])' = Pushed(cur[d])
        BY <3>1, Zenon DEF Pushed
      <3> QED
        BY <3>1, <3>2 DEF IInv, MaskInv
    <2> QED
      BY <2>1, <2>2, Zenon
  <1>5. HandlerInv'
    BY <1>1 DEF IInv, HandlerInv, Local, At
  <1>6. IntenaInv'
    BY <1>1 DEF IInv, IntenaInv, Local, At, Task
  <1> QED
    BY <1>2, <1>3, <1>4, <1>5, <1>6, Zenon

\* A step that takes and frees no lock.
LEMMA QuietStep ==
  ASSUME IInv, NEW c \in CPU, NEW t \in Task, Local(c, t), UNCHANGED <<locked, lkcpu, held>>,
         pc[t] \notin {"got", "unlock"}, pc'[t] \notin {"got", "unlock"},
         pc'[t] \in {"cli", "spin"} => want'[t] \notin held[t],
         pc'[t] = "spin" => want'[t] \in Lock
  PROVE  LockInv'
  <1>1. \A u \in Task : Owns(u)' = Owns(u)
    BY Zenon DEF Owns, Local
  <1> QED
    BY <1>1 DEF IInv, LockInv, Local

\* What the invariant says of the locks that the other threads want.
LEMMA OthersWant ==
  ASSUME IInv, NEW c \in CPU, NEW t \in Task, Local(c, t), NEW u \in Task, u # t
  PROVE  /\ pc'[u] = pc[u] /\ want'[u] = want[u] /\ held'[u] = held[u]
         /\ pc[u] \in {"spin", "got", "unlock"} => want[u] \in Lock
         /\ pc[u] \in {"got", "unlock"} => locked[want[u]] = 1 /\ lkcpu[want[u]] = NoCPU
         /\ pc[u] \in {"cli", "spin"} => want[u] \notin held[u]
  <1>1. pc'[u] = pc[u] /\ want'[u] = want[u] /\ held'[u] = held[u]
    BY Zenon DEF Local
  <1>2. LockInv
    BY Zenon DEF IInv
  <1> QED
    BY <1>1, <1>2, Zenon DEF LockInv

\* Two threads between xchg and lk->cpu, or between lk->cpu and the final
\* store, have two locks.
OneWants ==
  \A u, v \in Task : pc[u] \in {"got", "unlock"} /\ pc[v] \in {"got", "unlock"}
                     /\ want[u] = want[v] => u = v

\* A step after which t is not between those points keeps it so.
LEMMA WantsLess ==
  ASSUME IInv, NEW c \in CPU, NEW t \in Task, Local(c, t), pc'[t] \notin {"got", "unlock"}
  PROVE  OneWants'
  <1>1. \A u \in Task \ {t} : pc'[u] = pc[u] /\ want'[u] = want[u]
    BY Zenon DEF Local
  <1>2. OneWants
    BY Zenon DEF IInv, LockInv, OneWants
  <1> QED
    BY <1>1, <1>2, Zenon DEF OneWants

\* A step that takes t there with a lock that no other thread has there.
LEMMA WantsMore ==
  ASSUME IInv, NEW c \in CPU, NEW t \in Task, Local(c, t), NEW l \in Lock, want'[t] = l,
         \A u \in Task \ {t} : pc[u] \in {"got", "unlock"} => want[u] # l
  PROVE  OneWants'
  <1>1. \A u \in Task \ {t} : pc'[u] = pc[u] /\ want'[u] = want[u]
    BY Zenon DEF Local
  <1>2. OneWants
    BY Zenon DEF IInv, LockInv, OneWants
  <1> SUFFICES ASSUME NEW u \in Task, NEW v \in Task, pc'[u] \in {"got", "unlock"},
                      pc'[v] \in {"got", "unlock"}, want'[u] = want'[v]
               PROVE  u = v
    BY Zenon DEF OneWants
  <1>3. CASE u # t /\ v # t
    BY <1>1, <1>2, <1>3, Zenon DEF OneWants
  <1>4. CASE u = t /\ v # t
    BY <1>1, <1>4, Zenon
  <1>5. CASE u # t /\ v = t
    BY <1>1, <1>5, Zenon
  <1> QED
    BY <1>3, <1>4, <1>5, Zenon

-----------------------------------------------------------------------------
(* The actions of one CPU                                                  *)

\* pushcli's first instruction.
LEMMA ReadeflagsStep ==
  ASSUME IInv, NEW c \in CPU, Readeflags(c)
  PROVE  IInv'
  <1>0. PICK t \in Task : t = cur[c]
    BY Zenon DEF IInv, TypeOK
  <1> USE SpinAssumption
  <1>1. TypeOK'
    BY <1>0 DEF IInv, TypeOK, Readeflags, Goto, PC, lock_vars, cpu_vars
  <1>2. At(c, t)
    BY <1>0, AtCur, Zenon
  <1>3. Local(c, t) /\ UNCHANGED <<locked, lkcpu, held, ncli, intena, fl_if>>
    BY <1>0 DEF IInv, TypeOK, Local, Readeflags, Goto, lock_vars, cpu_vars
  <1>4. /\ pc[t] = "run" /\ pc'[t] = "cli" /\ eflags'[t] = fl_if[c]
        /\ frames'[t] = frames[t] /\ was'[t] = was[t]
        /\ want'[t] \notin held[t]
    BY <1>0 DEF IInv, TypeOK, Readeflags, MayTake, Goto
  <1>5. At(c, t)'
    BY <1>2, <1>3, <1>4, Zenon DEF At, Pushed
  <1>6. LockInv'
    BY <1>3, <1>4, QuietStep, Zenon
  <1> QED
    BY <1>0, <1>1, <1>3, <1>5, <1>6, LocalStep, Zenon DEF IInv

\* The rest of pushcli, and acquire's check.
LEMMA CliStep ==
  ASSUME IInv, NEW c \in CPU, Cli(c)
  PROVE  IInv'
  <1>0. PICK t \in Task : t = cur[c]
    BY Zenon DEF IInv, TypeOK
  <1> USE SpinAssumption
  <1>1. TypeOK'
    <2>1. ncli[c] + 1 \in Nat /\ eflags[t] \in {0, 1}
      BY DEF IInv, TypeOK
    <2>2. ncli' \in [CPU -> Nat] /\ fl_if' \in [CPU -> {0, 1}] /\ intena' \in [CPU -> {0, 1}]
      BY <1>0, <2>1, Zenon DEF IInv, TypeOK, Cli
    <2>3. was' \in [Task -> {0, 1}] /\ eflags' \in [Task -> {0, 1}] /\ pc' \in [Task -> PC]
      BY <1>0, <2>1, Zenon DEF IInv, TypeOK, Cli, Goto, PC
    <2> QED
      BY <2>2, <2>3, Zenon DEF IInv, TypeOK, Cli, lock_vars
  <1>2. At(c, t)
    BY <1>0, AtCur, Zenon
  <1>3. Local(c, t) /\ UNCHANGED <<locked, lkcpu, held>>
    BY <1>0 DEF IInv, TypeOK, Local, Cli, Goto, lock_vars, cpu_vars
  <1>4. /\ pc[t] = "cli" /\ fl_if'[c] = 0 /\ ncli'[c] = ncli[c] + 1
        /\ ncli[c] = 0 => intena'[c] = eflags[t] /\ was'[t] = eflags[t]
        /\ ncli[c] # 0 => intena'[c] = intena[c] /\ was'[t] = was[t]
        /\ frames'[t] = frames[t] /\ want'[t] = want[t]
        /\ pc'[t] = IF want[t] = NoLock THEN "popcli"
                    ELSE IF Holding(c, want[t]) THEN "panic" ELSE "spin"
    BY <1>0, Zenon DEF IInv, TypeOK, Cli, Goto
  <1>5. /\ want[t] \in Lock \cup {NoLock} /\ ncli[c] \in Nat /\ want[t] \notin held[t]
        /\ Cardinality(held[t]) \in Nat
    BY <1>0, <1>4, Count DEF IInv, TypeOK, LockInv
  <1>6. want[t] \in Lock => ~Holding(c, want[t])
    BY <1>0, <1>5 DEF IInv, LockInv, Holding
  <1>7. pc'[t] \in {"popcli", "spin"} /\ (pc'[t] = "spin" => want'[t] \in Lock)
    BY <1>4, <1>5, <1>6, Zenon
  <1>8. At(c, t)'
    BY <1>2, <1>3, <1>4, <1>5, <1>7 DEF At, Pushed
  <1>9. LockInv'
    BY <1>3, <1>4, <1>5, <1>7, QuietStep, Zenon
  <1> QED
    BY <1>0, <1>1, <1>3, <1>8, <1>9, LocalStep, Zenon DEF IInv

\* popcli.
LEMMA PopcliStep ==
  ASSUME IInv, NEW c \in CPU, Popcli(c)
  PROVE  IInv'
  <1>0. PICK t \in Task : t = cur[c]
    BY Zenon DEF IInv, TypeOK
  <1> USE SpinAssumption
  <1>2. At(c, t)
    BY <1>0, AtCur, Zenon
  <1>3. /\ pc[t] = "popcli" /\ held[t] \in SUBSET Lock /\ ncli[c] \in Nat /\ fl_if[c] \in {0, 1}
        /\ intena[c] \in {0, 1}
    BY <1>0, Zenon DEF IInv, TypeOK, Popcli
  <1>4. /\ ncli[c] >= 1 /\ ncli[c] = Cardinality(held[t]) + 1 /\ fl_if[c] = 0
        /\ Cardinality(held[t]) \in Nat
    BY <1>2, <1>3, Count DEF At, Pushed
  <1>5. /\ ncli' = [ncli EXCEPT ![c] = @ - 1]
        /\ fl_if' = [fl_if EXCEPT ![c] = AfterPop(c, ncli[c] - 1)]
        /\ was' = [was EXCEPT ![t] = IF ncli[c] = 1 THEN 0 ELSE @]
        /\ Goto(t, IF t \in CPU /\ frames[t] = <<>> /\ held[t] = {} THEN "top" ELSE "run")
        /\ UNCHANGED <<lock_vars, intena, cur, want, eflags, held, frames, saved>>
    BY <1>0, <1>3, <1>4 DEF Popcli
  <1>6. ncli[c] - 1 \in Nat /\ AfterPop(c, ncli[c] - 1) \in {0, 1}
    BY <1>3, <1>4 DEF AfterPop
  <1>7. TypeOK'
    BY <1>0, <1>5, <1>6, Zenon DEF IInv, TypeOK, Goto, PC, lock_vars
  <1>8. Local(c, t) /\ UNCHANGED <<locked, lkcpu, held>>
    BY <1>0, <1>5, Zenon DEF IInv, TypeOK, Local, Goto, lock_vars
  <1>9. /\ ncli'[c] = ncli[c] - 1 /\ intena'[c] = intena[c] /\ held'[t] = held[t]
        /\ fl_if'[c] = IF ncli[c] = 1 /\ intena[c] = 1 THEN 1 ELSE 0
        /\ ncli[c] # 1 => was'[t] = was[t]
        /\ frames'[t] = frames[t]
        /\ pc'[t] = IF t \in CPU /\ frames[t] = <<>> /\ held[t] = {} THEN "top" ELSE "run"
    BY <1>0, <1>3, <1>4, <1>5 DEF IInv, TypeOK, Goto, AfterPop
  <1>10. At(c, t)'
    BY <1>2, <1>3, <1>4, <1>9, SMTT(60) DEF At, Pushed, Task
  <1>11. LockInv'
    BY <1>3, <1>8, <1>9, QuietStep, Zenon
  <1> QED
    BY <1>0, <1>7, <1>8, <1>10, <1>11, LocalStep, Zenon DEF IInv

\* An interrupt arrives only when nothing is pushed and no handler runs.
LEMMA InterruptStep ==
  ASSUME IInv, NEW c \in CPU, Interrupt(c)
  PROVE  IInv'
  <1>0. PICK t \in Task : t = cur[c]
    BY Zenon DEF IInv, TypeOK
  <1> USE SpinAssumption
  <1> DEFINE f == [pc |-> pc[t], want |-> want[t], eflags |-> eflags[t]]
  <1>2. At(c, t)
    BY <1>0, AtCur, Zenon
  <1>3. /\ held[t] \in SUBSET Lock /\ ncli[c] \in Nat /\ fl_if[c] = 1 /\ f \in Frame
        /\ Cardinality(held[t]) \in Nat /\ (Cardinality(held[t]) = 0 => held[t] = {})
        /\ Cardinality({ptable}) = 1
    BY <1>0, Count, Zenon DEF IInv, TypeOK, Interrupt, Frame
  <1>4. ncli[c] = 0 /\ frames[t] = <<>> /\ Cardinality(held[t]) = 0 /\ held[t] = {} /\ Pushed(t) = 0
    BY <1>2, <1>3 DEF At, Pushed
  <1>5. pc[t] \in {"run", "cli"} \cup IF t \in CPU THEN {"top"} ELSE {"trapret"}
    <2>1. pc[t] \in PC
      BY Zenon DEF IInv, TypeOK
    <2> QED
      BY <1>2, <1>3, <1>4, <2>1 DEF At, PC, Pushed, Task
  <1>6. <<f>> \o frames[t] = <<f>> /\ <<f>> \in Seq(Frame) /\ Len(<<f>>) = 1 /\ <<f>>[1].pc = pc[t]
    BY <1>3, <1>4
  <1> HIDE DEF f
  <1>7. /\ fl_if' = [fl_if EXCEPT ![c] = 0] /\ frames' = [frames EXCEPT ![t] = <<f>>]
        /\ Goto(t, "run") /\ want' = [want EXCEPT ![t] = NoLock]
        /\ eflags' = [eflags EXCEPT ![t] = 0]
        /\ UNCHANGED <<lock_vars, ncli, intena, cur, held, saved, was>>
    BY <1>0, <1>6, Zenon DEF Interrupt, f
  <1>8. TypeOK'
    BY <1>6, <1>7, Zenon DEF IInv, TypeOK, Goto, PC, lock_vars
  <1>9. Local(c, t) /\ UNCHANGED <<locked, lkcpu, held>>
    BY <1>0, <1>7, Zenon DEF IInv, TypeOK, Local, Goto, lock_vars
  <1>10. /\ pc'[t] = "run" /\ frames'[t] = <<f>> /\ fl_if'[c] = 0 /\ ncli'[c] = 0 /\ held'[t] = {}
    BY <1>4, <1>7, Zenon DEF IInv, TypeOK, Goto
  <1>11. At(c, t)'
    BY <1>3, <1>4, <1>5, <1>6, <1>10, SMTT(60) DEF At, Pushed
  <1>12. LockInv'
    BY <1>5, <1>9, <1>10, QuietStep, Zenon
  <1> QED
    BY <1>0, <1>8, <1>9, <1>11, <1>12, LocalStep, Zenon DEF IInv

\* The interrupted code had no lock either.
LEMMA IretStep ==
  ASSUME IInv, NEW c \in CPU, Iret(c)
  PROVE  IInv'
  <1>0. PICK t \in Task : t = cur[c]
    BY Zenon DEF IInv, TypeOK
  <1> USE SpinAssumption
  <1>2. At(c, t)
    BY <1>0, AtCur, Zenon
  <1>3. /\ pc[t] = "run" /\ frames[t] # <<>> /\ held[t] = {} /\ frames[t] \in Seq(Frame)
        /\ Cardinality({}) = 0 /\ ncli[c] = 0
    BY <1>0, <1>2, Count DEF IInv, TypeOK, Iret, At, Pushed
  <1>4. Len(frames[t]) = 1 /\ Head(frames[t]) = frames[t][1] /\ Tail(frames[t]) = <<>>
    <2>1. Len(frames[t]) = 1
      BY <1>2, <1>3, Zenon DEF At
    <2>2. Head(frames[t]) = frames[t][1]
      BY <1>3
    <2>3. Tail(frames[t]) \in Seq(Frame) /\ Len(Tail(frames[t])) = 0
      BY <1>3, <2>1
    <2> QED
      BY <2>1, <2>2, <2>3, NoFrame, Zenon
  <1>5. PICK f \in Frame : f = frames[t][1]
    BY <1>3, <1>4
  <1>6. f.pc \in PC /\ f.want \in Lock \cup {NoLock} /\ f.eflags \in {0, 1}
    BY <1>5, Zenon DEF Frame
  <1>7. /\ fl_if' = [fl_if EXCEPT ![c] = 1] /\ Goto(t, f.pc)
        /\ want' = [want EXCEPT ![t] = f.want] /\ eflags' = [eflags EXCEPT ![t] = f.eflags]
        /\ frames' = [frames EXCEPT ![t] = <<>>]
        /\ UNCHANGED <<lock_vars, ncli, intena, cur, held, saved, was>>
    BY <1>0, <1>4, <1>5, Zenon DEF Iret
  <1>8. TypeOK'
    BY <1>6, <1>7 DEF IInv, TypeOK, Goto, lock_vars
  <1>9. Local(c, t) /\ UNCHANGED <<locked, lkcpu, held>>
    BY <1>0, <1>7, Zenon DEF IInv, TypeOK, Local, Goto, lock_vars
  <1>10. /\ pc'[t] = f.pc /\ frames'[t] = <<>> /\ fl_if'[c] = 1 /\ ncli'[c] = 0 /\ held'[t] = {}
         /\ f.pc \in {"run", "cli"} \cup IF t \in CPU THEN {"top"} ELSE {"trapret"}
    BY <1>2, <1>3, <1>5, <1>7, Zenon DEF IInv, TypeOK, Goto, At
  <1>11. At(c, t)'
    BY <1>3, <1>10, SMTT(60) DEF At, Pushed, Task
  <1>12. LockInv'
    BY <1>3, <1>9, <1>10, QuietStep, Zenon
  <1> QED
    BY <1>0, <1>8, <1>9, <1>11, <1>12, LocalStep, Zenon DEF IInv

\* The scheduler turns interrupts on while it has no lock.
LEMMA StiStep ==
  ASSUME IInv, NEW c \in CPU, Sti(c)
  PROVE  IInv'
  <1> USE SpinAssumption DEF Task
  <1>1. TypeOK'
    BY Zenon DEF IInv, TypeOK, Sti, Goto, PC, lock_vars
  <1>2. At(c, c) /\ cur[c] = c
    BY AtCur, Zenon DEF Sti
  <1>3. Local(c, c) /\ UNCHANGED <<locked, lkcpu, held, ncli, frames>>
    BY Zenon DEF IInv, TypeOK, Local, Sti, Goto, lock_vars
  <1>4. pc[c] = "top" /\ pc'[c] = "run" /\ Cardinality({}) = 0
    BY Count, Zenon DEF IInv, TypeOK, Sti, Goto
  <1>5. held'[c] = {} /\ frames'[c] = <<>> /\ ncli'[c] = 0
    <2>1. held[c] = {} /\ frames[c] = <<>> /\ Pushed(c) = 0
      BY <1>2, <1>4, Zenon DEF At, Pushed
    <2>2. ncli[c] = Cardinality({}) + 0
      BY <1>2, <2>1, Zenon DEF At
    <2> QED
      BY <1>3, <1>4, <2>1, <2>2
  <1>6. At(c, c)'
    BY <1>4, <1>5 DEF At, Pushed
  <1>7. LockInv'
    BY <1>3, <1>4, QuietStep, Zenon
  <1> QED
    BY <1>1, <1>2, <1>3, <1>6, <1>7, LocalStep, Zenon DEF IInv

\* A new process enters user space without a lock.
LEMMA TrapretStep ==
  ASSUME IInv, NEW c \in CPU, Trapret(c)
  PROVE  IInv'
  <1>0. PICK t \in Task : t = cur[c]
    BY Zenon DEF IInv, TypeOK
  <1> USE SpinAssumption
  <1>1. TypeOK'
    BY <1>0, Zenon DEF IInv, TypeOK, Trapret, Goto, PC, lock_vars
  <1>2. At(c, t)
    BY <1>0, AtCur, Zenon
  <1>3. Local(c, t) /\ UNCHANGED <<locked, lkcpu, held, ncli, frames>>
    BY <1>0, Zenon DEF IInv, TypeOK, Local, Trapret, Goto, lock_vars
  <1>4. pc[t] = "trapret" /\ pc'[t] = "run" /\ Cardinality({}) = 0
    BY <1>0, Count, Zenon DEF IInv, TypeOK, Trapret, Goto
  <1>5. held'[t] = {} /\ frames'[t] = <<>> /\ ncli'[c] = 0
    <2>1. held[t] = {} /\ frames[t] = <<>> /\ Pushed(t) = 0
      BY <1>2, <1>4, Zenon DEF At, Pushed
    <2>2. ncli[c] = Cardinality({}) + 0
      BY <1>2, <2>1, Zenon DEF At
    <2> QED
      BY <1>3, <1>4, <2>1, <2>2
  <1>6. At(c, t)'
    BY <1>4, <1>5 DEF At, Pushed
  <1>7. LockInv'
    BY <1>3, <1>4, QuietStep, Zenon
  <1> QED
    BY <1>0, <1>1, <1>3, <1>6, <1>7, LocalStep, Zenon DEF IInv

-----------------------------------------------------------------------------
(* Taking and freeing a lock                                               *)

\* Whoever finds the lock free is its only owner.
LEMMA XchgStep ==
  ASSUME IInv, NEW c \in CPU, Xchg(c)
  PROVE  IInv'
  <1>0. PICK t \in Task : t = cur[c]
    BY Zenon DEF IInv, TypeOK
  <1> USE SpinAssumption
  <1>1. PICK l \in Lock : l = want[t] /\ locked[l] = 0 /\ pc[t] = "spin"
    BY <1>0, Zenon DEF IInv, LockInv, Xchg
  <1>2. TypeOK'
    BY <1>0, <1>1, Zenon DEF IInv, TypeOK, Xchg, Goto, PC, cpu_vars
  <1>3. At(c, t)
    BY <1>0, AtCur, Zenon
  <1>4. Local(c, t) /\ UNCHANGED <<lkcpu, held, ncli, fl_if, intena, want, frames, was>>
    BY <1>0, Zenon DEF IInv, TypeOK, Local, Xchg, Goto, cpu_vars
  <1>5. pc'[t] = "got" /\ locked' = [locked EXCEPT ![l] = 1]
    BY <1>0, <1>1, Zenon DEF IInv, TypeOK, Xchg, Goto
  <1>6. At(c, t)'
    BY <1>1, <1>3, <1>4, <1>5, Zenon DEF At, Pushed
  <1>7. LockInv'
    <2>1. \A k \in Lock : locked'[k] = IF k = l THEN 1 ELSE locked[k]
      BY <1>5, Zenon DEF IInv, TypeOK
    <2>2. \A u \in Task : l \notin Owns(u) /\ l \notin held[u]
      BY <1>1 DEF IInv, LockInv, Owns
    <2>3. lkcpu[l] = NoCPU
      BY <2>2 DEF IInv, TypeOK, LockInv
    <2>4. Owns(t)' = Owns(t) \cup {l} /\ \A u \in Task \ {t} : Owns(u)' = Owns(u)
      BY <1>1, <1>4, <1>5, Zenon DEF Owns, Local
    <2>5. \A u \in Task : \A k \in held'[u] :
            locked'[k] = 1 /\ lkcpu'[k] \in CPU /\ cur'[lkcpu'[k]] = u
      <3> SUFFICES ASSUME NEW u \in Task, NEW k \in held[u]
                   PROVE  locked'[k] = 1 /\ lkcpu[k] \in CPU /\ cur[lkcpu[k]] = u
        BY <1>4 DEF Local
      <3>1. k \in Lock /\ locked[k] = 1 /\ lkcpu[k] \in CPU /\ cur[lkcpu[k]] = u
        BY Zenon DEF IInv, TypeOK, LockInv
      <3> QED
        BY <2>1, <3>1, Zenon
    <2>6. \A k \in Lock : locked'[k] = 1 => \E u \in Task : k \in Owns(u)'
      <3> SUFFICES ASSUME NEW k \in Lock, locked'[k] = 1
                   PROVE  \E u \in Task : k \in Owns(u)'
        BY Zenon
      <3>1. CASE k = l
        BY <2>4, <3>1, Zenon
      <3>2. CASE k # l
        <4>1. PICK u \in Task : k \in Owns(u)
          BY <2>1, <3>2, Zenon DEF IInv, LockInv
        <4> QED
          BY <2>4, <4>1, Zenon
      <3> QED
        BY <3>1, <3>2, Zenon
    <2>7. \A u \in Task :
            /\ pc'[u] \in {"spin", "got", "unlock"} => want'[u] \in Lock
            /\ pc'[u] \in {"got", "unlock"} => locked'[want'[u]] = 1 /\ lkcpu'[want'[u]] = NoCPU
            /\ pc'[u] \in {"cli", "spin"} => want'[u] \notin held'[u]
      <3> TAKE u \in Task
      <3>1. CASE u = t
        BY <1>1, <1>4, <1>5, <2>1, <2>3, <3>1 DEF IInv, LockInv
      <3>2. CASE u # t
        BY <1>1, <1>4, <1>5, <2>1, <2>3, <3>2, OthersWant
      <3> QED
        BY <3>1, <3>2, Zenon
    <2>8. OneWants'
      <3>1. \A u \in Task \ {t} : pc[u] \in {"got", "unlock"} => want[u] # l
        BY <2>2, Zenon DEF Owns
      <3> QED
        BY <1>1, <1>4, <3>1, WantsMore, Zenon
    <2>9. \A k \in Lock : lkcpu'[k] \in CPU => k \in held'[cur'[lkcpu'[k]]]
      BY <1>4, Zenon DEF IInv, LockInv, Local
    <2> QED
      BY <2>5, <2>6, <2>7, <2>8, <2>9, Zenon DEF LockInv, OneWants
  <1> QED
    BY <1>0, <1>2, <1>4, <1>6, <1>7, LocalStep, Zenon DEF IInv

\* lk->cpu names the CPU of the owner.
LEMMA AcquiredStep ==
  ASSUME IInv, NEW c \in CPU, Acquired(c)
  PROVE  IInv'
  <1>0. PICK t \in Task : t = cur[c]
    BY Zenon DEF IInv, TypeOK
  <1> USE SpinAssumption
  <1>1. PICK l \in Lock : l = want[t] /\ locked[l] = 1 /\ lkcpu[l] = NoCPU /\ pc[t] = "got"
    BY <1>0, Zenon DEF IInv, LockInv, Acquired
  <1>2. /\ lkcpu' = [lkcpu EXCEPT ![l] = c] /\ held' = [held EXCEPT ![t] = @ \cup {l}]
        /\ Goto(t, "run") /\ want' = [want EXCEPT ![t] = NoLock]
        /\ UNCHANGED <<locked, cpu_vars, cur, eflags, frames, saved, was>>
    BY <1>0, <1>1, Zenon DEF Acquired
  <1>3. TypeOK'
    BY <1>1, <1>2, Zenon DEF IInv, TypeOK, Goto, PC, cpu_vars
  <1>4. At(c, t)
    BY <1>0, AtCur, Zenon
  <1>5. Local(c, t) /\ UNCHANGED <<locked, ncli, fl_if, intena, frames, was>>
    BY <1>0, <1>2, Zenon DEF IInv, TypeOK, Local, Goto, cpu_vars
  <1>6. pc'[t] = "run" /\ held'[t] = held[t] \cup {l} /\ held[t] \in SUBSET Lock
    BY <1>2, Zenon DEF IInv, TypeOK, Goto
  <1>7. \A u \in Task : l \notin held[u]
    BY <1>1, Zenon DEF IInv, LockInv
  <1>8. /\ Cardinality(held'[t]) = Cardinality(held[t]) + 1
        /\ Cardinality(held[t]) \in Nat
    BY <1>6, <1>7, Count
  <1>9. At(c, t)'
    BY <1>1, <1>4, <1>5, <1>6, <1>8, SMTT(60) DEF At, Pushed
  <1>10. LockInv'
    <2>1. \A k \in Lock : lkcpu'[k] = IF k = l THEN c ELSE lkcpu[k]
      BY <1>2, Zenon DEF IInv, TypeOK
    <2>2. \A u \in Task : Owns(u)' = Owns(u)
      BY <1>1, <1>5, <1>6, Zenon DEF Owns, Local
    <2>3. \A u \in Task : \A k \in held'[u] :
            locked'[k] = 1 /\ lkcpu'[k] \in CPU /\ cur'[lkcpu'[k]] = u
      <3> SUFFICES ASSUME NEW u \in Task, NEW k \in held'[u]
                   PROVE  locked[k] = 1 /\ lkcpu'[k] \in CPU /\ cur[lkcpu'[k]] = u
        BY <1>5, Zenon DEF Local
      <3>1. CASE k = l
        <4>1. u = t
          BY <1>5, <1>7, <3>1, Zenon DEF Local
        <4> QED
          BY <1>0, <1>1, <2>1, <3>1, <4>1, Zenon
      <3>2. CASE k # l
        <4>1. k \in held[u]
          BY <1>5, <1>6, <3>2, Zenon DEF Local
        <4>2. k \in Lock /\ locked[k] = 1 /\ lkcpu[k] \in CPU /\ cur[lkcpu[k]] = u
          BY <4>1, Zenon DEF IInv, TypeOK, LockInv
        <4> QED
          BY <2>1, <3>2, <4>2, Zenon
      <3> QED
        BY <3>1, <3>2, Zenon
    <2>4. \A k \in Lock : lkcpu'[k] \in CPU => k \in held'[cur'[lkcpu'[k]]]
      <3> SUFFICES ASSUME NEW k \in Lock, lkcpu'[k] \in CPU
                   PROVE  k \in held'[cur[lkcpu'[k]]]
        BY <1>5, Zenon DEF Local
      <3>1. CASE k = l
        BY <1>0, <1>6, <2>1, <3>1, Zenon
      <3>2. CASE k # l
        <4>1. k \in held[cur[lkcpu[k]]] /\ cur[lkcpu[k]] \in Task /\ lkcpu'[k] = lkcpu[k]
          BY <2>1, <3>2, Zenon DEF IInv, TypeOK, LockInv
        <4> QED
          BY <1>5, <1>6, <4>1 DEF Local
      <3> QED
        BY <3>1, <3>2, Zenon
    <2>5. \A u \in Task \ {t} : pc[u] \in {"got", "unlock"} => want[u] # l
      BY <1>1, Zenon DEF IInv, LockInv
    <2>6. \A u \in Task :
            /\ pc'[u] \in {"spin", "got", "unlock"} => want'[u] \in Lock
            /\ pc'[u] \in {"got", "unlock"} => locked'[want'[u]] = 1 /\ lkcpu'[want'[u]] = NoCPU
            /\ pc'[u] \in {"cli", "spin"} => want'[u] \notin held'[u]
      <3> TAKE u \in Task
      <3>1. CASE u = t
        BY <1>5, <1>6, <2>1, <2>5, <3>1, Zenon DEF IInv, LockInv
      <3>2. CASE u # t
        <4>1. want[u] = l => pc[u] \notin {"got", "unlock"}
          BY <2>5, <3>2, Zenon
        <4>2. UNCHANGED locked
          BY <1>5, Zenon
        <4> QED
          BY <1>5, <2>1, <3>2, <4>1, <4>2, OthersWant
      <3> QED
        BY <3>1, <3>2, Zenon
    <2>7. OneWants'
      BY <1>5, <1>6, WantsLess, Zenon
    <2>8. \A k \in Lock : locked'[k] = 1 => \E u \in Task : k \in Owns(u)'
      BY <1>5, <2>2 DEF IInv, LockInv
    <2> QED
      BY <2>3, <2>4, <2>6, <2>7, <2>8, Zenon DEF LockInv, OneWants
  <1> QED
    BY <1>0, <1>3, <1>5, <1>9, <1>10, LocalStep, Zenon DEF IInv

\* The owner gives the lock's name back before the lock.
LEMMA ReleaseStep ==
  ASSUME IInv, NEW c \in CPU, Release(c)
  PROVE  IInv'
  <1>0. PICK t \in Task : t = cur[c]
    BY Zenon DEF IInv, TypeOK
  <1> USE SpinAssumption
  <1>1. PICK l \in held[t] :
          IF ~Holding(c, l) THEN Goto(t, "panic") /\ UNCHANGED <<lkcpu, want, held>>
          ELSE /\ lkcpu' = [lkcpu EXCEPT ![l] = NoCPU] /\ want' = [want EXCEPT ![t] = l]
               /\ held' = [held EXCEPT ![t] = @ \ {l}] /\ Goto(t, "unlock")
    BY <1>0, Zenon DEF Release
  <1>2. /\ l \in Lock /\ locked[l] = 1 /\ lkcpu[l] = c /\ pc[t] = "run"
        /\ held[t] \in SUBSET Lock
    BY <1>0, <1>1, SMTT(60) DEF IInv, TypeOK, LockInv, CurInv, Release
  <1>3. /\ lkcpu' = [lkcpu EXCEPT ![l] = NoCPU] /\ want' = [want EXCEPT ![t] = l]
        /\ held' = [held EXCEPT ![t] = @ \ {l}] /\ Goto(t, "unlock")
        /\ UNCHANGED <<locked, cpu_vars, cur, eflags, frames, saved, was>>
    BY <1>1, <1>2, Zenon DEF Holding, Release
  <1>4. TypeOK'
    BY <1>2, <1>3, Zenon DEF IInv, TypeOK, Goto, PC, cpu_vars
  <1>5. At(c, t)
    BY <1>0, AtCur, Zenon
  <1>6. Local(c, t) /\ UNCHANGED <<locked, ncli, fl_if, intena, frames, was>>
    BY <1>0, <1>3, Zenon DEF IInv, TypeOK, Local, Goto, cpu_vars
  <1>7. pc'[t] = "unlock" /\ held'[t] = held[t] \ {l} /\ want'[t] = l
    BY <1>3, Zenon DEF IInv, TypeOK, Goto
  <1>8. /\ Cardinality(held'[t]) = Cardinality(held[t]) - 1
        /\ Cardinality(held[t]) \in Nat
    BY <1>1, <1>2, <1>7, Count, SMTT(60)
  <1>9. At(c, t)'
    BY <1>2, <1>5, <1>6, <1>7, <1>8, SMTT(60) DEF At, Pushed
  <1>10. LockInv'
    <2>1. \A k \in Lock : lkcpu'[k] = IF k = l THEN NoCPU ELSE lkcpu[k]
      BY <1>3, Zenon DEF IInv, TypeOK
    <2>2. \A u \in Task : Owns(u)' = Owns(u)
      <3> TAKE u \in Task
      <3>1. CASE u = t
        BY <1>1, <1>2, <1>7, <3>1, Zenon DEF Owns
      <3>2. CASE u # t
        BY <1>6, <3>2, Zenon DEF Owns, Local
      <3> QED
        BY <3>1, <3>2, Zenon
    <2>3. \A u \in Task \ {t} : l \notin held[u]
      BY <1>0, <1>2, Zenon DEF IInv, LockInv
    <2>4. \A u \in Task : \A k \in held'[u] :
            locked'[k] = 1 /\ lkcpu'[k] \in CPU /\ cur'[lkcpu'[k]] = u
      <3> SUFFICES ASSUME NEW u \in Task, NEW k \in held'[u]
                   PROVE  locked[k] = 1 /\ lkcpu'[k] \in CPU /\ cur[lkcpu'[k]] = u
        BY <1>6, Zenon DEF Local
      <3>1. k \in held[u] /\ k # l
        BY <1>6, <1>7, <2>3 DEF Local
      <3>2. k \in Lock /\ locked[k] = 1 /\ lkcpu[k] \in CPU /\ cur[lkcpu[k]] = u
        BY <3>1, Zenon DEF IInv, TypeOK, LockInv
      <3> QED
        BY <2>1, <3>1, <3>2, Zenon
    <2>5. \A k \in Lock : lkcpu'[k] \in CPU => k \in held'[cur'[lkcpu'[k]]]
      <3> SUFFICES ASSUME NEW k \in Lock, lkcpu'[k] \in CPU
                   PROVE  k \in held'[cur[lkcpu'[k]]]
        BY <1>6, Zenon DEF Local
      <3>1. k # l /\ lkcpu'[k] = lkcpu[k]
        BY <2>1, Zenon
      <3>2. k \in held[cur[lkcpu[k]]] /\ cur[lkcpu[k]] \in Task
        BY <3>1 DEF IInv, TypeOK, LockInv
      <3> QED
        <4>1. CASE cur[lkcpu[k]] = t
          BY <1>7, <3>1, <3>2, <4>1, Zenon
        <4>2. CASE cur[lkcpu[k]] # t
          BY <1>6, <3>1, <3>2, <4>2 DEF Local
        <4> QED
          BY <4>1, <4>2, Zenon
    <2>6. \A u \in Task : pc[u] \in {"got", "unlock"} => want[u] # l
      BY <1>2 DEF IInv, LockInv
    <2>7. \A u \in Task :
            /\ pc'[u] \in {"spin", "got", "unlock"} => want'[u] \in Lock
            /\ pc'[u] \in {"got", "unlock"} => locked'[want'[u]] = 1 /\ lkcpu'[want'[u]] = NoCPU
            /\ pc'[u] \in {"cli", "spin"} => want'[u] \notin held'[u]
      <3> TAKE u \in Task
      <3>1. CASE u = t
        BY <1>2, <1>6, <1>7, <2>1, <3>1, Zenon DEF IInv, LockInv
      <3>2. CASE u # t
        BY <1>6, <2>1, <3>2, OthersWant
      <3> QED
        BY <3>1, <3>2, Zenon
    <2>8. OneWants'
      BY <1>2, <1>6, <1>7, <2>6, WantsMore
    <2>9. \A k \in Lock : locked'[k] = 1 => \E u \in Task : k \in Owns(u)'
      BY <1>6, <2>2 DEF IInv, LockInv
    <2> QED
      BY <2>4, <2>5, <2>7, <2>8, <2>9, Zenon DEF LockInv, OneWants
  <1> QED
    BY <1>0, <1>4, <1>6, <1>9, <1>10, LocalStep, Zenon DEF IInv

\* The lock is free and has no owner.
LEMMA UnlockStep ==
  ASSUME IInv, NEW c \in CPU, Unlock(c)
  PROVE  IInv'
  <1>0. PICK t \in Task : t = cur[c]
    BY Zenon DEF IInv, TypeOK
  <1> USE SpinAssumption
  <1>1. PICK l \in Lock : l = want[t] /\ locked[l] = 1 /\ lkcpu[l] = NoCPU /\ pc[t] = "unlock"
    BY <1>0, Zenon DEF IInv, LockInv, Unlock
  <1>2. TypeOK'
    BY <1>0, <1>1, Zenon DEF IInv, TypeOK, Unlock, Goto, PC, cpu_vars
  <1>3. At(c, t)
    BY <1>0, AtCur, Zenon
  <1>4. Local(c, t) /\ UNCHANGED <<lkcpu, held, ncli, fl_if, intena, frames, was>>
    BY <1>0, Zenon DEF IInv, TypeOK, Local, Unlock, Goto, cpu_vars
  <1>5. pc'[t] = "popcli" /\ locked' = [locked EXCEPT ![l] = 0]
    BY <1>0, <1>1, Zenon DEF IInv, TypeOK, Unlock, Goto
  <1>6. At(c, t)'
    BY <1>1, <1>3, <1>4, <1>5, Zenon DEF At, Pushed
  <1>7. LockInv'
    <2>1. \A k \in Lock : locked'[k] = IF k = l THEN 0 ELSE locked[k]
      BY <1>5, Zenon DEF IInv, TypeOK
    <2>2. \A u \in Task : l \notin held[u]
      BY <1>1, Zenon DEF IInv, LockInv
    <2>3. \A u \in Task \ {t} : pc[u] \in {"got", "unlock"} => want[u] # l
      BY <1>1, Zenon DEF IInv, LockInv
    <2>4. \A u \in Task : Owns(u)' = Owns(u) \ {l}
      BY <1>1, <1>4, <1>5, <2>2, <2>3 DEF Owns, Local
    <2>5. \A u \in Task : \A k \in held'[u] :
            locked'[k] = 1 /\ lkcpu'[k] \in CPU /\ cur'[lkcpu'[k]] = u
      <3> SUFFICES ASSUME NEW u \in Task, NEW k \in held[u]
                   PROVE  locked'[k] = 1 /\ lkcpu[k] \in CPU /\ cur[lkcpu[k]] = u
        BY <1>4 DEF Local
      <3>1. k \in Lock /\ k # l /\ locked[k] = 1 /\ lkcpu[k] \in CPU /\ cur[lkcpu[k]] = u
        BY <2>2 DEF IInv, TypeOK, LockInv
      <3> QED
        BY <2>1, <3>1, Zenon
    <2>6. \A k \in Lock : locked'[k] = 1 => \E u \in Task : k \in Owns(u)'
      <3> SUFFICES ASSUME NEW k \in Lock, locked'[k] = 1
                   PROVE  \E u \in Task : k \in Owns(u)'
        BY Zenon
      <3>1. k # l /\ locked[k] = 1
        BY <2>1
      <3>2. PICK u \in Task : k \in Owns(u)
        BY <3>1, Zenon DEF IInv, LockInv
      <3> QED
        BY <2>4, <3>1, <3>2, Zenon
    <2>7. \A u \in Task :
            /\ pc'[u] \in {"spin", "got", "unlock"} => want'[u] \in Lock
            /\ pc'[u] \in {"got", "unlock"} => locked'[want'[u]] = 1 /\ lkcpu'[want'[u]] = NoCPU
            /\ pc'[u] \in {"cli", "spin"} => want'[u] \notin held'[u]
      <3> TAKE u \in Task
      <3>1. CASE u = t
        BY <1>4, <1>5, <2>1, <2>3, <3>1, Zenon DEF IInv, LockInv
      <3>2. CASE u # t
        BY <1>4, <2>1, <2>3, <3>2, OthersWant
      <3> QED
        BY <3>1, <3>2, Zenon
    <2>8. OneWants'
      BY <1>4, <1>5, WantsLess, Zenon
    <2>9. \A k \in Lock : lkcpu'[k] \in CPU => k \in held'[cur'[lkcpu'[k]]]
      BY <1>4, Zenon DEF IInv, LockInv, Local
    <2> QED
      BY <2>5, <2>6, <2>7, <2>8, <2>9, Zenon DEF LockInv, OneWants
  <1> QED
    BY <1>0, <1>2, <1>4, <1>6, <1>7, LocalStep, Zenon DEF IInv

-----------------------------------------------------------------------------
(* Switching between threads                                               *)

\* forkret frees the lock that the scheduler took.
LEMMA ForkretStep ==
  ASSUME IInv, NEW c \in CPU, Forkret(c)
  PROVE  IInv'
  <1>0. PICK t \in Task : t = cur[c]
    BY Zenon DEF IInv, TypeOK
  <1> USE SpinAssumption
  <1>1. At(c, t)
    BY <1>0, AtCur, Zenon
  <1>2. /\ pc[t] = "forkret" /\ held[t] = {ptable} /\ frames[t] = <<>> /\ t \notin CPU
        /\ Cardinality({ptable}) = 1 /\ Cardinality({}) = 0
    BY <1>0, <1>1, Count, Zenon DEF At, Forkret
  <1>3. ncli[c] = 1 /\ fl_if[c] = 0 /\ intena[c] \in {0, 1}
    BY <1>1, <1>2 DEF At, Pushed, IInv, TypeOK
  <1>4. locked[ptable] = 1 /\ lkcpu[ptable] = c
    BY <1>0, <1>2 DEF IInv, TypeOK, LockInv, CurInv
  <1>5. /\ lkcpu' = [lkcpu EXCEPT ![ptable] = NoCPU] /\ locked' = [locked EXCEPT ![ptable] = 0]
        /\ held' = [held EXCEPT ![t] = {}] /\ ncli' = [ncli EXCEPT ![c] = 0]
        /\ fl_if' = [fl_if EXCEPT ![c] = AfterPop(c, 0)] /\ Goto(t, "trapret")
        /\ UNCHANGED <<intena, cur, want, eflags, frames, saved, was>>
    <2>1. held[t] \ {ptable} = {} /\ ncli[c] - 1 = 0
      BY <1>2, <1>3
    <2> QED
      BY <1>0, <1>2, <1>3, <1>4, <2>1 DEF Forkret, Holding
  <1>6. AfterPop(c, 0) \in {0, 1}
    BY <1>3, Zenon DEF AfterPop
  <1>7. TypeOK'
    BY <1>5, <1>6, Zenon DEF IInv, TypeOK, Goto, PC
  <1>8. Local(c, t)
    BY <1>0, <1>5, Zenon DEF IInv, TypeOK, Local, Goto
  <1>9. pc'[t] = "trapret" /\ held'[t] = {} /\ ncli'[c] = 0 /\ frames'[t] = <<>>
    BY <1>2, <1>5, Zenon DEF IInv, TypeOK, Goto
  <1>10. At(c, t)'
    BY <1>2, <1>9 DEF At, Pushed
  <1>11. LockInv'
    <2>1. \A k \in Lock : /\ lkcpu'[k] = IF k = ptable THEN NoCPU ELSE lkcpu[k]
                          /\ locked'[k] = IF k = ptable THEN 0 ELSE locked[k]
      BY <1>5, Zenon DEF IInv, TypeOK
    <2>2. \A u \in Task \ {t} : ptable \notin held[u]
      BY <1>0, <1>4, Zenon DEF IInv, LockInv
    <2>3. \A u \in Task : pc[u] \in {"got", "unlock"} => want[u] # ptable
      BY <1>4 DEF IInv, LockInv
    <2>4. \A u \in Task : Owns(u)' = Owns(u) \ {ptable}
      BY <1>2, <1>5, <1>8, <1>9, <2>2, <2>3 DEF Owns, Local
    <2>5. \A u \in Task : \A k \in held'[u] :
            locked'[k] = 1 /\ lkcpu'[k] \in CPU /\ cur'[lkcpu'[k]] = u
      <3> SUFFICES ASSUME NEW u \in Task, NEW k \in held'[u]
                   PROVE  locked'[k] = 1 /\ lkcpu'[k] \in CPU /\ cur[lkcpu'[k]] = u
        BY <1>5, Zenon
      <3>1. k \in held[u] /\ k # ptable
        BY <1>8, <1>9, <2>2, Zenon DEF Local
      <3>2. k \in Lock /\ locked[k] = 1 /\ lkcpu[k] \in CPU /\ cur[lkcpu[k]] = u
        BY <3>1, Zenon DEF IInv, TypeOK, LockInv
      <3> QED
        BY <2>1, <3>1, <3>2, Zenon
    <2>6. \A k \in Lock : lkcpu'[k] \in CPU => k \in held'[cur'[lkcpu'[k]]]
      <3> SUFFICES ASSUME NEW k \in Lock, lkcpu'[k] \in CPU
                   PROVE  k \in held'[cur[lkcpu'[k]]]
        BY <1>5, Zenon
      <3>1. k # ptable /\ lkcpu'[k] = lkcpu[k]
        BY <2>1, Zenon
      <3>2. k \in held[cur[lkcpu[k]]] /\ cur[lkcpu[k]] \in Task
        BY <3>1 DEF IInv, TypeOK, LockInv
      <3> QED
        BY <1>2, <1>8, <3>1, <3>2 DEF Local
    <2>7. \A k \in Lock : locked'[k] = 1 => \E u \in Task : k \in Owns(u)'
      BY <2>1, <2>4 DEF IInv, LockInv
    <2>8. \A u \in Task :
            /\ pc'[u] \in {"spin", "got", "unlock"} => want'[u] \in Lock
            /\ pc'[u] \in {"got", "unlock"} => locked'[want'[u]] = 1 /\ lkcpu'[want'[u]] = NoCPU
            /\ pc'[u] \in {"cli", "spin"} => want'[u] \notin held'[u]
      <3> TAKE u \in Task
      <3>1. CASE u = t
        BY <1>8, <1>9, <2>1, <2>3, <3>1, Zenon DEF IInv, LockInv
      <3>2. CASE u # t
        BY <1>8, <1>9, <2>1, <2>3, <3>2 DEF IInv, LockInv, Local
      <3> QED
        BY <3>1, <3>2, Zenon
    <2>9. \A u, v \in Task : pc'[u] \in {"got", "unlock"} /\ pc'[v] \in {"got", "unlock"}
                             /\ want'[u] = want'[v] => u = v
      BY <1>8, <1>9 DEF IInv, LockInv, Local
    <2> QED
      BY <2>5, <2>6, <2>7, <2>8, <2>9, Zenon DEF LockInv
  <1> QED
    BY <1>0, <1>7, <1>8, <1>10, <1>11, LocalStep, Zenon DEF IInv

\* A switch of CPU c from thread s to thread t, which gets ptable.lock from s.
Switched(c, s, t) ==
  /\ s # t /\ cur[c] = s /\ cur' = [cur EXCEPT ![c] = t]
  /\ held[s] = {ptable} /\ held[t] = {}
  /\ held' = [held EXCEPT ![s] = {}, ![t] = {ptable}]
  /\ \A u \in Task \ {s, t} : pc'[u] = pc[u]
  /\ \A u \in {s, t} : pc[u] \notin {"cli", "spin", "got", "unlock"}
                       /\ pc'[u] \notin {"cli", "spin", "got", "unlock"}
  /\ UNCHANGED <<locked, lkcpu, fl_if, ncli, want, eflags, was>>

\* The lock goes with the CPU.
LEMMA SwitchedLock ==
  ASSUME IInv, NEW c \in CPU, NEW s \in Task, NEW t \in Task, Switched(c, s, t)
  PROVE  LockInv'
  <1> USE SpinAssumption
  <1>1. /\ held'[s] = {} /\ held'[t] = {ptable}
        /\ \A u \in Task \ {s, t} : held'[u] = held[u]
    BY Zenon DEF IInv, TypeOK, Switched
  <1>2. cur'[c] = t /\ \A d \in CPU \ {c} : cur'[d] = cur[d] /\ cur[d] # s /\ cur[d] \in Task
    BY DEF IInv, TypeOK, CurInv, Switched
  <1>3. lkcpu[ptable] = c /\ locked[ptable] = 1
    BY DEF IInv, TypeOK, LockInv, CurInv, Switched
  <1>4. \A u \in Task : u # s /\ u # t => Owns(u)' = Owns(u)
    BY <1>1, Zenon DEF Switched, Owns
  <1>5. Owns(s) = {ptable} /\ Owns(t) = {} /\ Owns(t)' = {ptable}
    BY <1>1, Zenon DEF Switched, Owns
  <1>6. \A u \in Task : \A k \in held'[u] :
          locked'[k] = 1 /\ lkcpu'[k] \in CPU /\ cur'[lkcpu'[k]] = u
    <2> SUFFICES ASSUME NEW u \in Task, NEW k \in held'[u]
                 PROVE  locked[k] = 1 /\ lkcpu[k] \in CPU /\ cur'[lkcpu[k]] = u
      BY DEF Switched
    <2>1. CASE u = t
      BY <1>1, <1>2, <1>3, <2>1, Zenon
    <2>2. CASE u # t
      <3>1. u # s /\ k \in held[u]
        BY <1>1, <2>2, Zenon
      <3>2. locked[k] = 1 /\ lkcpu[k] \in CPU /\ cur[lkcpu[k]] = u
        BY <3>1, Zenon DEF IInv, LockInv
      <3> QED
        BY <1>2, <3>1, <3>2, Zenon DEF Switched
    <2> QED
      BY <2>1, <2>2, Zenon
  <1>7. \A k \in Lock : lkcpu'[k] \in CPU => k \in held'[cur'[lkcpu'[k]]]
    <2> SUFFICES ASSUME NEW k \in Lock, lkcpu[k] \in CPU
                 PROVE  k \in held'[cur'[lkcpu[k]]]
      BY Zenon DEF Switched
    <2>1. k \in held[cur[lkcpu[k]]]
      BY Zenon DEF IInv, LockInv
    <2>2. CASE lkcpu[k] = c
      BY <1>1, <1>2, <2>1, <2>2, Zenon DEF Switched
    <2>3. CASE lkcpu[k] # c
      <3>1. cur'[lkcpu[k]] = cur[lkcpu[k]] /\ cur[lkcpu[k]] \in Task \ {s, t}
        BY <1>2, <2>1, <2>3, Zenon DEF Switched
      <3> QED
        BY <1>1, <2>1, <3>1, Zenon
    <2> QED
      BY <2>2, <2>3, Zenon
  <1>8. \A k \in Lock : locked'[k] = 1 => \E u \in Task : k \in Owns(u)'
    <2> SUFFICES ASSUME NEW k \in Lock, locked[k] = 1
                 PROVE  \E u \in Task : k \in Owns(u)'
      BY Zenon DEF Switched
    <2>1. PICK u \in Task : k \in Owns(u)
      BY Zenon DEF IInv, LockInv
    <2> QED
      BY <1>4, <1>5, <2>1, Zenon
  <1>9. \A u \in Task :
          /\ pc'[u] \in {"spin", "got", "unlock"} => want'[u] \in Lock
          /\ pc'[u] \in {"got", "unlock"} => locked'[want'[u]] = 1 /\ lkcpu'[want'[u]] = NoCPU
          /\ pc'[u] \in {"cli", "spin"} => want'[u] \notin held'[u]
    <2> TAKE u \in Task
    <2>1. CASE u \in {s, t}
      BY <2>1, Zenon DEF Switched
    <2>2. CASE u \notin {s, t}
      BY <1>1, <2>2, Zenon DEF IInv, LockInv, Switched
    <2> QED
      BY <2>1, <2>2, Zenon
  <1>10. \A u, v \in Task : pc'[u] \in {"got", "unlock"} /\ pc'[v] \in {"got", "unlock"}
                            /\ want'[u] = want'[v] => u = v
    BY DEF IInv, LockInv, Switched
  <1> QED
    BY <1>6, <1>7, <1>8, <1>9, <1>10, Zenon DEF LockInv

\* A CPU changes to a thread that no other CPU runs.
LEMMA StillApart ==
  ASSUME NEW f, NEW g, NEW c \in CPU, NEW x, g[c] = x,
         \A d \in CPU \ {c} : g[d] = f[d] /\ f[d] # x,
         \A d, e \in CPU : f[d] = f[e] => d = e
  PROVE  \A d, e \in CPU : g[d] = g[e] => d = e
  BY Zenon

\* Interrupts are masked at depth one.
LEMMA OnePushed == (\A n : n = 1 => n > 0) /\ 1 = 1 + 0
  OBVIOUS

\* What HandlerInv says of one thread.
Quiet(u) ==
  /\ pc[u] \in {"top", "forkret", "trapret", "new"} => frames[u] = <<>>
  /\ frames[u] # <<>> =>
       /\ Len(frames[u]) = 1
       /\ frames[u][1].pc \in {"run", "cli"} \cup IF u \in CPU THEN {"top"} ELSE {"trapret"}
       /\ pc[u] = "cli" => eflags[u] = 0
       /\ pc[u] = "switched" => saved[u] = 0

\* HandlerInv, thread by thread.
LEMMA HandlerQuiet == HandlerInv => \A u \in Task : Quiet(u)
  BY Zenon DEF HandlerInv, Quiet

\* The same after a step.
LEMMA HandlerQuietNext ==
  ASSUME \A u \in Task : Quiet(u)',
         \A d \in CPU : frames'[cur'[d]] # <<>> => fl_if'[d] = 0 /\ (ncli'[d] > 0 => intena'[d] = 0)
  PROVE  HandlerInv'
  BY Zenon DEF HandlerInv, Quiet

\* sched() keeps intena in the thread that leaves.
LEMMA SchedStep ==
  ASSUME IInv, NEW c \in CPU, Sched(c)
  PROVE  IInv'
  <1>0. PICK t \in Thread : t = cur[c]
    BY Zenon DEF Sched
  <1> USE SpinAssumption
  <1> t \in Task /\ c \in Task /\ t # c
    BY Zenon DEF Task
  <1>1. At(c, t)
    BY <1>0, AtCur, Zenon
  <1>2. /\ pc[t] = "run" /\ held[t] = {ptable} /\ Cardinality({ptable}) = 1
        /\ pc[c] = "run" /\ held[c] = {} /\ frames[c] = <<>>
    BY <1>0, Count, Zenon DEF Sched, IInv, CurInv
  <1>3. ncli[c] = 1 /\ fl_if[c] = 0 /\ intena[c] \in {0, 1}
    BY <1>1, <1>2 DEF At, Pushed, IInv, TypeOK
  <1>4. Holding(c, ptable)
    BY <1>0, <1>2 DEF IInv, TypeOK, LockInv, CurInv, Holding
  <1>5. /\ saved' = [saved EXCEPT ![t] = intena[c]] /\ cur' = [cur EXCEPT ![c] = c]
        /\ held' = [held EXCEPT ![t] = {}, ![c] = {ptable}]
        /\ \/ Goto(t, "switched") /\ UNCHANGED frames
           \/ Goto(t, "new") /\ frames' = [frames EXCEPT ![t] = <<>>]
        /\ UNCHANGED <<lock_vars, cpu_vars, want, eflags, was>>
    BY <1>0, <1>3, <1>4 DEF Sched
  <1>6. TypeOK'
    <2>1. pc' \in [Task -> PC] /\ frames' \in [Task -> Seq(Frame)]
      <3>1. CASE Goto(t, "switched") /\ UNCHANGED frames
        BY <3>1, Zenon DEF IInv, TypeOK, Goto, PC
      <3>2. CASE Goto(t, "new") /\ frames' = [frames EXCEPT ![t] = <<>>]
        BY <3>2 DEF IInv, TypeOK, Goto, PC
      <3> QED
        BY <1>5, <3>1, <3>2, Zenon
    <2>2. /\ saved' \in [Task -> {0, 1}] /\ cur' \in [CPU -> Task]
          /\ held' \in [Task -> SUBSET Lock]
      BY <1>3, <1>5, Zenon DEF IInv, TypeOK
    <2> QED
      BY <1>5, <2>1, <2>2, Zenon DEF IInv, TypeOK, lock_vars, cpu_vars
  <1>7. /\ pc'[t] \in {"switched", "new"} /\ \A u \in Task \ {t} : pc'[u] = pc[u]
        /\ cur'[c] = c /\ \A d \in CPU \ {c} : cur'[d] = cur[d]
        /\ held'[t] = {} /\ held'[c] = {ptable} /\ \A u \in Task \ {t, c} : held'[u] = held[u]
        /\ saved'[t] = intena[c] /\ \A u \in Task \ {t} : saved'[u] = saved[u]
        /\ \A u \in Task \ {t} : frames'[u] = frames[u]
        /\ frames'[t] = IF pc'[t] = "new" THEN <<>> ELSE frames[t]
        /\ UNCHANGED <<locked, lkcpu, fl_if, ncli, intena, want, eflags, was>>
    BY <1>5, Zenon DEF IInv, TypeOK, Goto, lock_vars, cpu_vars
  <1>8. \A d \in CPU \ {c} : cur[d] \in Task \ {t, c} /\ cur[d] \in Thread \cup {d}
    BY <1>0 DEF IInv, CurInv, Task
  <1>80. \A d \in CPU \ {c} :
          /\ cur'[d] = cur[d] /\ pc'[cur[d]] = pc[cur[d]] /\ held'[cur[d]] = held[cur[d]]
    <2> TAKE d \in CPU \ {c}
    <2>1. PICK v \in Task \ {t, c} : v = cur[d]
      BY <1>8, Zenon
    <2>2. pc'[v] = pc[v]
      BY <1>7, Zenon
    <2>3. held'[v] = held[v]
      BY <1>7, Zenon
    <2>4. cur'[d] = cur[d]
      BY <1>7, Zenon
    <2> QED
      BY <2>1, <2>2, <2>3, <2>4, Zenon
  <1>9. NoPanic'
    BY <1>7, Zenon DEF IInv, NoPanic
  <1>10. CurInv'
    <2>1. \A d \in CPU : cur'[d] \in Thread \cup {d} /\ pc'[cur'[d]] \notin {"switched", "new"}
      <3> TAKE d \in CPU
      <3>1. CASE d = c
        BY <1>2, <1>7, <3>1, Zenon
      <3>2. CASE d # c
        <4>1. cur'[d] = cur[d] /\ pc'[cur[d]] = pc[cur[d]]
          BY <1>80, <3>2, Zenon
        <4> QED
          BY <1>8, <3>2, <4>1, Zenon DEF IInv, CurInv, Runs
      <3> QED
        BY <3>1, <3>2, Zenon
    <2>2. \A d, e \in CPU : cur'[d] = cur'[e] => d = e
      <3>1. \A d, e \in CPU : cur[d] = cur[e] => d = e
        BY Zenon DEF IInv, CurInv
      <3>2. cur'[c] = c /\ \A d \in CPU \ {c} : cur'[d] = cur[d] /\ cur[d] # c
        BY <1>7, <1>8, Zenon
      <3> QED
        BY <3>1, <3>2, StillApart, Zenon
    <2>3. \A u \in Thread : /\ pc'[u] # "top"
                            /\ pc'[u] \notin {"switched", "new"} => \E d \in CPU : cur'[d] = u
      BY <1>0, <1>7 DEF IInv, CurInv, Runs, Task
    <2>4. \A u \in Thread : pc'[u] \in {"switched", "new"} => held'[u] = {}
      BY <1>7 DEF IInv, CurInv, Runs, Task
    <2>5. \A d \in CPU :
            /\ pc'[d] \notin {"switched", "new", "forkret", "trapret"}
            /\ cur'[d] # d => pc'[d] = "run" /\ held'[d] = {} /\ frames'[d] = <<>>
      BY <1>7 DEF IInv, CurInv, Task
    <2> QED
      BY <2>1, <2>2, <2>3, <2>4, <2>5, Zenon DEF CurInv, Runs
  <1>11. LockInv'
    <2>1. Switched(c, t, c)
      BY <1>0, <1>2, <1>5, <1>7 DEF Switched
    <2> QED
      BY <2>1, SwitchedLock, Zenon
  <1>12. MaskInv'
    <2> SUFFICES ASSUME NEW d \in CPU
                 PROVE  /\ ncli[d] = Cardinality(held'[cur'[d]]) + Pushed(cur[d])'
                        /\ ncli[d] > 0 => fl_if[d] = 0
                        /\ pc'[cur'[d]] \in {"top", "trapret"} => held'[cur'[d]] = {}
                        /\ pc'[cur'[d]] = "forkret" => held'[cur'[d]] = {ptable}
      BY <1>7, Zenon DEF MaskInv
    <2>1. CASE d = c
      <3>1. held'[cur'[d]] = {ptable} /\ Pushed(cur[d])' = 0 /\ pc'[cur'[d]] = "run"
        <4>1. cur'[d] = c /\ pc'[c] = "run" /\ held'[c] = {ptable}
          BY <1>2, <1>7, <2>1, Zenon
        <4> QED
          BY <4>1, Zenon DEF Pushed
      <3> QED
        <4>1. Cardinality(held'[cur'[d]]) = 1 /\ Pushed(cur[d])' = 0 /\ ncli[d] = 1 /\ fl_if[d] = 0
          BY <1>2, <1>3, <2>1, <3>1, Zenon
        <4>2. ncli[d] = Cardinality(held'[cur'[d]]) + Pushed(cur[d])'
          BY <4>1, OnePushed, Zenon
        <4> QED
          BY <3>1, <4>1, <4>2, Zenon
    <2>2. CASE d # c
      <3>1. cur'[d] = cur[d] /\ pc'[cur[d]] = pc[cur[d]] /\ held'[cur[d]] = held[cur[d]]
        BY <1>80, <2>2, Zenon
      <3>2. Pushed(cur[d])' = Pushed(cur[d])
        BY <3>1, Zenon DEF Pushed
      <3> QED
        BY <3>1, <3>2, Zenon DEF IInv, MaskInv
    <2> QED
      BY <2>1, <2>2, Zenon
  <1>13. HandlerInv'
    <2>1. frames[t] # <<>> => intena[c] = 0
      BY <1>1, <1>3, SMTT(60) DEF At
    <2>2. \A d \in CPU : frames'[cur'[d]] # <<>> =>
            fl_if[d] = 0 /\ (ncli[d] > 0 => intena[d] = 0)
      <3> TAKE d \in CPU
      <3>1. CASE d = c
        BY <1>2, <1>7, <3>1, Zenon
      <3>2. CASE d # c
        <4>1. cur'[d] = cur[d] /\ frames'[cur[d]] = frames[cur[d]]
          BY <1>7, <1>8, <3>2, Zenon
        <4> QED
          BY <4>1, Zenon DEF IInv, HandlerInv
      <3> QED
        BY <3>1, <3>2, Zenon
    <2>3. \A u \in Task : frames'[u] # <<>> => frames'[u] = frames[u]
      BY <1>7, Zenon
    <2>4. \A u \in Task : Quiet(u) => Quiet(u)'
      <3> SUFFICES ASSUME NEW u \in Task, Quiet(u)
                   PROVE  Quiet(u)'
        BY Zenon
      <3>1. CASE u = t
        <4>1. pc'[t] \notin {"top", "forkret", "trapret", "cli"} /\ (pc'[t] = "new" => frames'[t] = <<>>)
          BY <1>7, Zenon
        <4>2. frames'[t] # <<>> => saved'[t] = 0
          BY <1>7, <2>1, <2>3, Zenon
        <4> QED
          BY <2>3, <3>1, <4>1, <4>2, Zenon DEF Quiet
      <3>2. CASE u # t
        <4>1. pc'[u] = pc[u] /\ saved'[u] = saved[u] /\ frames'[u] = frames[u] /\ eflags'[u] = eflags[u]
          BY <1>7, <3>2, Zenon
        <4> QED
          BY <4>1, Zenon DEF Quiet
      <3> QED
        BY <3>1, <3>2, Zenon
    <2>5. fl_if' = fl_if /\ ncli' = ncli /\ intena' = intena
      BY <1>7, Zenon
    <2> QED
      BY <2>2, <2>4, <2>5, HandlerQuiet, HandlerQuietNext, Zenon DEF IInv
  <1>14. IntenaInv'
    <2>1. intena[c] = was[t]
      BY <1>0, <1>2, <1>3, OnePushed, Zenon DEF IInv, IntenaInv
    <2>2. \A d \in CPU : cur'[d] \in Thread /\ ncli[d] > 0 /\ pc'[cur'[d]] # "forkret"
            => intena[d] = was[cur'[d]]
      <3> TAKE d \in CPU
      <3>1. CASE d = c
        BY <1>7, <3>1, Zenon DEF Task
      <3>2. CASE d # c
        <4>1. cur'[d] = cur[d] /\ pc'[cur[d]] = pc[cur[d]]
          BY <1>80, <3>2, Zenon
        <4> QED
          BY <4>1, Zenon DEF IInv, IntenaInv
      <3> QED
        BY <3>1, <3>2, Zenon
    <2>3. \A u \in Thread : pc'[u] = "switched" => saved'[u] = was[u]
      BY <1>7, <2>1, Zenon DEF IInv, IntenaInv, Task
    <2> QED
      BY <1>7, <2>2, <2>3, Zenon DEF IntenaInv
  <1> QED
    BY <1>6, <1>9, <1>10, <1>11, <1>12, <1>13, <1>14, Zenon DEF IInv

\* A thread that comes back has its own intena; a new one starts in forkret.
LEMMA SchedRunStep ==
  ASSUME IInv, NEW c \in CPU, SchedRun(c)
  PROVE  IInv'
  <1> USE SpinAssumption
  <1>0. PICK t \in Thread :
          /\ pc[t] \in {"switched", "new"} /\ cur' = [cur EXCEPT ![c] = t]
          /\ held' = [held EXCEPT ![t] = {ptable}, ![c] = {}]
          /\ IF pc[t] = "switched"
             THEN Goto(t, "run") /\ intena' = [intena EXCEPT ![c] = saved[t]]
             ELSE Goto(t, "forkret") /\ UNCHANGED intena
          /\ saved' = [saved EXCEPT ![t] = 0]
    BY Zenon DEF SchedRun
  <1> t \in Task /\ c \in Task /\ t # c
    BY Zenon DEF Task
  <1>1. At(c, c) /\ cur[c] = c
    BY AtCur, Zenon DEF SchedRun
  <1>2. /\ pc[c] = "run" /\ held[c] = {ptable} /\ frames[c] = <<>> /\ Cardinality({ptable}) = 1
        /\ held[t] = {}
    BY <1>0, Count, Zenon DEF SchedRun, IInv, CurInv, Runs
  <1>3. ncli[c] = 1 /\ fl_if[c] = 0 /\ saved[t] \in {0, 1}
    BY <1>1, <1>2 DEF At, Pushed, IInv, TypeOK
  <1>4. TypeOK'
    <2>1. pc' \in [Task -> PC] /\ intena' \in [CPU -> {0, 1}]
      BY <1>0, <1>3, Zenon DEF IInv, TypeOK, Goto, PC
    <2>2. /\ saved' \in [Task -> {0, 1}] /\ cur' \in [CPU -> Task]
          /\ held' \in [Task -> SUBSET Lock]
      BY <1>0, Zenon DEF IInv, TypeOK
    <2> QED
      BY <2>1, <2>2, Zenon DEF IInv, TypeOK, SchedRun, lock_vars
  <1>5. /\ pc'[t] = (IF pc[t] = "switched" THEN "run" ELSE "forkret")
        /\ \A u \in Task \ {t} : pc'[u] = pc[u]
        /\ cur'[c] = t /\ \A d \in CPU \ {c} : cur'[d] = cur[d]
        /\ held'[t] = {ptable} /\ held'[c] = {} /\ \A u \in Task \ {t, c} : held'[u] = held[u]
        /\ \A u \in Task \ {t} : saved'[u] = saved[u]
        /\ pc[t] = "switched" => intena'[c] = saved[t]
        /\ \A d \in CPU \ {c} : intena'[d] = intena[d]
        /\ UNCHANGED <<locked, lkcpu, fl_if, ncli, want, eflags, frames, was>>
    BY <1>0 DEF IInv, TypeOK, SchedRun, Goto, lock_vars
  <1>6. \A d \in CPU \ {c} : cur[d] \in Task \ {t, c} /\ cur[d] \in Thread \cup {d}
    <2>1. /\ \A d \in CPU : cur[d] \in Thread \cup {d} /\ Runs(cur[d])
          /\ \A d, e \in CPU : cur[d] = cur[e] => d = e
      BY Zenon DEF IInv, CurInv
    <2>2. ~Runs(t)
      BY <1>0, Zenon DEF Runs
    <2> QED
      BY <1>1, <2>1, <2>2, Zenon DEF Task
  <1>60. \A d \in CPU \ {c} :
          /\ cur'[d] = cur[d] /\ pc'[cur[d]] = pc[cur[d]] /\ held'[cur[d]] = held[cur[d]]
          /\ intena'[d] = intena[d]
    <2> TAKE d \in CPU \ {c}
    <2>1. PICK v \in Task \ {t, c} : v = cur[d]
      BY <1>6, Zenon
    <2>2. pc'[v] = pc[v]
      BY <1>5, Zenon
    <2>3. held'[v] = held[v]
      BY <1>5, Zenon
    <2>4. cur'[d] = cur[d] /\ intena'[d] = intena[d]
      BY <1>5, Zenon
    <2> QED
      BY <2>1, <2>2, <2>3, <2>4, Zenon
  <1>7. NoPanic'
    BY <1>5, Zenon DEF IInv, NoPanic
  <1>8. CurInv'
    <2>1. \A d \in CPU : cur'[d] \in Thread \cup {d} /\ pc'[cur'[d]] \notin {"switched", "new"}
      <3> TAKE d \in CPU
      <3>1. CASE d = c
        BY <1>5, <3>1, Zenon
      <3>2. CASE d # c
        <4>1. cur'[d] = cur[d] /\ pc'[cur[d]] = pc[cur[d]]
          BY <1>60, <3>2, Zenon
        <4> QED
          BY <1>6, <3>2, <4>1, Zenon DEF IInv, CurInv, Runs
      <3> QED
        BY <3>1, <3>2, Zenon
    <2>2. \A d, e \in CPU : cur'[d] = cur'[e] => d = e
      <3>1. \A d, e \in CPU : cur[d] = cur[e] => d = e
        BY Zenon DEF IInv, CurInv
      <3>2. cur'[c] = t /\ \A d \in CPU \ {c} : cur'[d] = cur[d] /\ cur[d] # t
        BY <1>5, <1>6, Zenon
      <3> QED
        BY <3>1, <3>2, StillApart, Zenon
    <2>3. \A u \in Thread : /\ pc'[u] # "top"
                            /\ pc'[u] \notin {"switched", "new"} => \E d \in CPU : cur'[d] = u
      <3> TAKE u \in Thread
      <3>1. CASE u = t
        BY <1>5, <3>1, Zenon
      <3>2. CASE u # t
        <4>1. pc'[u] = pc[u] /\ u # c
          BY <1>5, <3>2, SpinAssumption, Zenon DEF Task
        <4>2. pc[u] \notin {"switched", "new"} => \E d \in CPU \ {c} : cur[d] = u
          BY <1>1, <4>1, Zenon DEF IInv, CurInv, Runs
        <4>3. \A d \in CPU \ {c} : cur'[d] = cur[d]
          BY <1>5, Zenon
        <4>4. pc[u] # "top"
          BY Zenon DEF IInv, CurInv
        <4> QED
          BY <4>1, <4>2, <4>3, <4>4, Zenon
      <3> QED
        BY <3>1, <3>2, Zenon
    <2>4. \A u \in Thread : pc'[u] \in {"switched", "new"} => held'[u] = {}
      <3> SUFFICES ASSUME NEW u \in Thread, pc'[u] \in {"switched", "new"}
                   PROVE  held'[u] = {}
        BY Zenon
      <3>1. u # t /\ u # c /\ u \in Task
        BY <1>5, Zenon DEF Task
      <3>2. pc'[u] = pc[u] /\ held'[u] = held[u]
        BY <1>5, <3>1, Zenon
      <3> QED
        BY <3>2, Zenon DEF IInv, CurInv, Runs
    <2>5. \A d \in CPU :
            /\ pc'[d] \notin {"switched", "new", "forkret", "trapret"}
            /\ cur'[d] # d => pc'[d] = "run" /\ held'[d] = {} /\ frames'[d] = <<>>
      <3> TAKE d \in CPU
      <3>1. CASE d = c
        BY <1>2, <1>5, <3>1, Zenon
      <3>2. CASE d # c
        <4>1. d # t /\ d \in Task
          BY Zenon DEF Task
        <4>2. pc'[d] = pc[d] /\ held'[d] = held[d] /\ frames'[d] = frames[d] /\ cur'[d] = cur[d]
          BY <1>5, <3>2, <4>1, Zenon
        <4> QED
          BY <4>2, Zenon DEF IInv, CurInv
      <3> QED
        BY <3>1, <3>2, Zenon
    <2> QED
      BY <2>1, <2>2, <2>3, <2>4, <2>5, Zenon DEF CurInv, Runs
  <1>9. LockInv'
    <2>1. held' = [held EXCEPT ![c] = {}, ![t] = {ptable}]
      BY <1>0, Zenon DEF IInv, TypeOK
    <2>2. Switched(c, c, t)
      <3>1. /\ pc'[t] \in {"run", "forkret"} /\ cur' = [cur EXCEPT ![c] = t]
            /\ \A u \in Task \ {t} : pc'[u] = pc[u]
            /\ UNCHANGED <<locked, lkcpu, fl_if, ncli, want, eflags, was>>
        BY <1>0, <1>5, Zenon
      <3>2. pc[t] \notin {"cli", "spin", "got", "unlock"} /\ pc'[c] = "run"
        BY <1>0, <1>2, <3>1, Zenon
      <3>3. \A u \in {c, t} : pc[u] \notin {"cli", "spin", "got", "unlock"}
                              /\ pc'[u] \notin {"cli", "spin", "got", "unlock"}
        BY <1>2, <3>1, <3>2, Zenon
      <3> QED
        BY <1>1, <1>2, <2>1, <3>1, <3>3, Zenon DEF Switched
    <2> QED
      BY <2>2, SwitchedLock, Zenon
  <1>10. MaskInv'
    <2> SUFFICES ASSUME NEW d \in CPU
                 PROVE  /\ ncli[d] = Cardinality(held'[cur'[d]]) + Pushed(cur[d])'
                        /\ ncli[d] > 0 => fl_if[d] = 0
                        /\ pc'[cur'[d]] \in {"top", "trapret"} => held'[cur'[d]] = {}
                        /\ pc'[cur'[d]] = "forkret" => held'[cur'[d]] = {ptable}
      BY <1>5, Zenon DEF MaskInv
    <2>1. CASE d = c
      <3>1. held'[cur'[d]] = {ptable} /\ Pushed(cur[d])' = 0 /\ pc'[cur'[d]] \in {"run", "forkret"}
        BY <1>5, <2>1, Zenon DEF Pushed
      <3> QED
        <4>1. Cardinality(held'[cur'[d]]) = 1 /\ Pushed(cur[d])' = 0 /\ ncli[d] = 1 /\ fl_if[d] = 0
          BY <1>2, <1>3, <2>1, <3>1, Zenon
        <4>2. ncli[d] = Cardinality(held'[cur'[d]]) + Pushed(cur[d])'
          BY <4>1, OnePushed, Zenon
        <4> QED
          BY <3>1, <4>1, <4>2, Zenon
    <2>2. CASE d # c
      <3>1. cur'[d] = cur[d] /\ pc'[cur[d]] = pc[cur[d]] /\ held'[cur[d]] = held[cur[d]]
        BY <1>60, <2>2, Zenon
      <3>2. Pushed(cur[d])' = Pushed(cur[d])
        BY <3>1, Zenon DEF Pushed
      <3> QED
        BY <3>1, <3>2, Zenon DEF IInv, MaskInv
    <2> QED
      BY <2>1, <2>2, Zenon
  <1>11. HandlerInv'
    <2>1. pc[t] = "new" => frames[t] = <<>>
      BY Zenon DEF IInv, HandlerInv
    <2>2. pc[t] = "switched" /\ frames[t] # <<>> => saved[t] = 0
      BY Zenon DEF IInv, HandlerInv
    <2>3. \A d \in CPU : frames[cur'[d]] # <<>> =>
            fl_if[d] = 0 /\ (ncli[d] > 0 => intena'[d] = 0)
      <3> TAKE d \in CPU
      <3>1. CASE d = c
        BY <1>0, <1>3, <1>5, <2>1, <2>2, <3>1, Zenon
      <3>2. CASE d # c
        <4>1. cur'[d] = cur[d] /\ intena'[d] = intena[d]
          BY <1>5, <3>2, Zenon
        <4> QED
          BY <4>1, Zenon DEF IInv, HandlerInv
      <3> QED
        BY <3>1, <3>2, Zenon
    <2>4. \A u \in Task : Quiet(u) => Quiet(u)'
      <3> SUFFICES ASSUME NEW u \in Task, Quiet(u)
                   PROVE  Quiet(u)'
        BY Zenon
      <3>0. frames' = frames /\ eflags' = eflags
        BY <1>5, Zenon
      <3>1. CASE u = t
        <4>1. pc'[t] \notin {"top", "trapret", "new", "cli", "switched"}
              /\ (pc'[t] = "forkret" => pc[t] = "new")
          BY <1>0, <1>5, Zenon
        <4> QED
          BY <2>1, <3>0, <3>1, <4>1, Zenon DEF Quiet
      <3>2. CASE u # t
        <4>1. pc'[u] = pc[u] /\ saved'[u] = saved[u]
          BY <1>5, <3>2, Zenon
        <4> QED
          BY <3>0, <4>1, Zenon DEF Quiet
      <3> QED
        BY <3>1, <3>2, Zenon
    <2>5. fl_if' = fl_if /\ ncli' = ncli /\ frames' = frames
      BY <1>5, Zenon
    <2> QED
      BY <2>3, <2>4, <2>5, HandlerQuiet, HandlerQuietNext, Zenon DEF IInv
  <1>12. IntenaInv'
    <2>1. \A d \in CPU : cur'[d] \in Thread /\ ncli[d] > 0 /\ pc'[cur'[d]] # "forkret"
            => intena'[d] = was[cur'[d]]
      <3> TAKE d \in CPU
      <3>1. CASE d = c
        <4>1. cur'[c] = t /\ (pc'[t] # "forkret" => pc[t] = "switched" /\ intena'[c] = saved[t])
          BY <1>5, Zenon
        <4>2. pc[t] = "switched" => saved[t] = was[t]
          BY Zenon DEF IInv, IntenaInv
        <4> QED
          BY <3>1, <4>1, <4>2, Zenon
      <3>2. CASE d # c
        <4>1. cur'[d] = cur[d] /\ intena'[d] = intena[d] /\ pc'[cur[d]] = pc[cur[d]]
          BY <1>60, <3>2, Zenon
        <4> QED
          BY <4>1, Zenon DEF IInv, IntenaInv
      <3> QED
        BY <3>1, <3>2, Zenon
    <2>2. \A u \in Thread : pc'[u] = "switched" => saved'[u] = was[u]
      BY <1>5, Zenon DEF IInv, IntenaInv, Task
    <2> QED
      BY <1>5, <2>1, <2>2, Zenon DEF IntenaInv
  <1> QED
    BY <1>4, <1>7, <1>8, <1>9, <1>10, <1>11, <1>12, Zenon DEF IInv

-----------------------------------------------------------------------------
(* The invariant and what follows from it                                  *)

\* Every step preserves the invariant.
LEMMA NextInv == IInv /\ [Next]_vars => IInv'
  <1> SUFFICES ASSUME IInv, [Next]_vars PROVE IInv'
    BY Zenon
  <1>1. CASE UNCHANGED vars
    <2> USE <1>1 DEF vars, lock_vars, cpu_vars, code_vars
    <2>1. TypeOK' /\ NoPanic' /\ CurInv'
      BY Zenon DEF IInv, TypeOK, NoPanic, CurInv, Runs
    <2>2. LockInv'
      BY Zenon DEF IInv, LockInv, Owns
    <2>3. MaskInv' /\ HandlerInv' /\ IntenaInv'
      BY Zenon DEF IInv, MaskInv, Pushed, HandlerInv, IntenaInv
    <2> QED
      BY <2>1, <2>2, <2>3, Zenon DEF IInv
  <1>2. CASE Next
    <2> PICK c \in CPU : Acquire(c) \/ Free(c) \/ Switch(c) \/ Interrupt(c) \/ Iret(c)
      BY <1>2, Zenon DEF Next
    <2>1. CASE Acquire(c)
      BY <2>1, ReadeflagsStep, CliStep, XchgStep, AcquiredStep, Zenon DEF Acquire
    <2>2. CASE Free(c)
      BY <2>2, ReleaseStep, UnlockStep, PopcliStep, Zenon DEF Free
    <2>3. CASE Switch(c)
      BY <2>3, StiStep, SchedStep, SchedRunStep, ForkretStep, TrapretStep, Zenon DEF Switch
    <2> QED
      BY <2>1, <2>2, <2>3, InterruptStep, IretStep, Zenon
  <1> QED
    BY <1>1, <1>2, Zenon

\* The CPUs start in scheduler() without locks.
LEMMA InitInv == Init => IInv
  <1> SUFFICES ASSUME Init PROVE IInv
    BY Zenon
  <1> USE SpinAssumption DEF Task
  <1>1. TypeOK
    BY DEF Init, TypeOK, PC
  <1>2. \A c \in CPU : cur[c] = c /\ pc[c] = "top" /\ held[c] = {} /\ frames[c] = <<>> /\ ncli[c] = 0
    BY Zenon DEF Init
  <1>3. \A t \in Thread : pc[t] = "new" /\ held[t] = {} /\ frames[t] = <<>>
    BY Zenon DEF Init
  <1>4. NoPanic /\ CurInv
    BY <1>2, <1>3 DEF NoPanic, CurInv, Runs
  <1>5. LockInv
    BY <1>2, <1>3 DEF LockInv, Init
  <1>6. MaskInv
    <2>1. Cardinality({}) = 0
      BY Count, Zenon
    <2>2. \A c \in CPU : Cardinality(held[cur[c]]) = 0 /\ Pushed(cur[c]) = 0
      BY <1>2, <2>1, Zenon DEF Pushed
    <2> QED
      BY <1>2, <2>2, SMTT(60) DEF MaskInv
  <1>7. HandlerInv /\ IntenaInv
    BY <1>2, <1>3, Zenon DEF HandlerInv, IntenaInv
  <1> QED
    BY <1>1, <1>4, <1>5, <1>6, <1>7, Zenon DEF IInv

\* IInv holds in every reachable state of any number of CPUs, threads and locks.
THEOREM Invariance == Spec => []IInv
  BY InitInv, NextInv, PTL DEF Spec

\* A lock that is taken has exactly one owner, in acquire and release too.
THEOREM MutualExclusion == Spec => []Exclusion
  <1>1. IInv => Exclusion
    <2> SUFFICES ASSUME IInv, NEW l \in Lock
                 PROVE  /\ locked[l] = 1 <=> \E t \in Task : l \in Owns(t)
                        /\ \A t, u \in Task : l \in Owns(t) /\ l \in Owns(u) => t = u
      BY Zenon DEF Exclusion
    <2>1. \A t \in Task : l \in Owns(t) => locked[l] = 1
      BY DEF IInv, LockInv, Owns
    <2>2. ASSUME NEW t \in Task, NEW u \in Task, l \in Owns(t), l \in Owns(u) PROVE t = u
      <3>1. CASE lkcpu[l] = NoCPU
        <4>1. l \notin held[t] /\ l \notin held[u]
          BY <3>1, SpinAssumption, Zenon DEF IInv, LockInv
        <4> QED
          BY <2>2, <4>1 DEF IInv, LockInv, Owns
      <3>2. CASE lkcpu[l] # NoCPU
        BY <2>2, <3>2 DEF IInv, LockInv, Owns
      <3> QED
        BY <3>1, <3>2, Zenon
    <2> QED
      BY <2>1, <2>2, Zenon DEF IInv, LockInv
  <1> QED
    BY <1>1, Invariance, PTL

\* holding() answers exactly for the thread that the CPU runs.
THEOREM HoldingCorrect == Spec => []HoldingExact
  <1>1. IInv => HoldingExact
    BY DEF IInv, TypeOK, LockInv, CurInv, HoldingExact, Holding
  <1> QED
    BY <1>1, Invariance, PTL

\* Whoever owns a lock runs, on a CPU that takes no interrupts.
THEOREM HoldersMasked == Spec => []HoldersRun
  <1>1. IInv => HoldersRun
    <2> SUFFICES ASSUME IInv, NEW t \in Task, Owns(t) # {}
                 PROVE  \E c \in CPU : cur[c] = t /\ fl_if[c] = 0
      BY Zenon DEF HoldersRun
    <2>1. held[t] # {} \/ pc[t] \in {"got", "unlock"}
      BY Zenon DEF Owns
    <2>2. PICK c \in CPU : cur[c] = t
      <3>1. CASE t \in Thread
        BY <2>1, <3>1, Zenon DEF IInv, CurInv, Runs
      <3>2. CASE t \in CPU
        BY <2>1, <3>2, Zenon DEF IInv, CurInv
      <3> QED
        BY <3>1, <3>2, Zenon DEF Task
    <2>3. held[t] \in SUBSET Lock /\ ncli[c] = Cardinality(held[t]) + Pushed(t)
      BY <2>2, Zenon DEF IInv, TypeOK, MaskInv
    <2>4. Cardinality(held[t]) \in Nat /\ (Cardinality(held[t]) = 0 => held[t] = {})
      BY <2>3, Count, Zenon
    <2>5. ncli[c] > 0
      BY <2>1, <2>3, <2>4 DEF Pushed
    <2> QED
      BY <2>2, <2>5, Zenon DEF IInv, MaskInv
  <1> QED
    BY <1>1, Invariance, PTL

\* No panic of acquire, release, popcli or sched is reachable.
THEOREM PanicFree == Spec => []NoPanic
  BY Invariance, PTL DEF IInv

\* A handler is not interrupted itself.
THEOREM HandlersDoNotNest == Spec => []OneHandler
  <1>1. IInv => OneHandler
    <2> SUFFICES ASSUME IInv, NEW t \in Task PROVE Len(frames[t]) <= 1
      BY Zenon DEF OneHandler
    <2>1. CASE frames[t] = <<>>
      BY <2>1
    <2>2. CASE frames[t] # <<>>
      <3>1. Len(frames[t]) = 1
        BY <2>2, Zenon DEF IInv, HandlerInv
      <3> QED
        BY <3>1
    <2> QED
      BY <2>1, <2>2, Zenon
  <1> QED
    BY <1>1, Invariance, PTL

\* The outermost popcli of a process restores the interrupt flag it had.
THEOREM InterruptsRestored == Spec => RestoresInterrupts
  <1> DEFINE Restored ==
        \A c \in CPU : cur[c] \in Thread /\ pc[cur[c]] = "popcli" /\ ncli[c] = 1 /\ ncli'[c] = 0
          => fl_if'[c] = was[cur[c]]
  <1>1. ASSUME IInv, Next PROVE Restored
    <2> SUFFICES ASSUME NEW c \in CPU, NEW t \in Thread, t = cur[c], pc[t] = "popcli",
                        ncli[c] = 1, ncli'[c] = 0
                 PROVE  fl_if'[c] = was[t]
      BY Zenon
    <2>1. /\ intena[c] = was[t] /\ fl_if[c] = 0 /\ was[t] \in {0, 1} /\ ncli \in [CPU -> Nat]
          /\ fl_if \in [CPU -> {0, 1}] /\ t # c
      BY <1>1, SpinAssumption DEF IInv, TypeOK, MaskInv, IntenaInv, Task
    <2>2. PICK d \in CPU : Acquire(d) \/ Free(d) \/ Switch(d) \/ Interrupt(d) \/ Iret(d)
      BY <1>1, Zenon DEF Next
    <2>3. d = c
      <3> SUFFICES ASSUME d # c PROVE ncli'[c] = ncli[c]
        OBVIOUS
      <3>1. CASE Acquire(d)
        BY <2>1, <3>1, Zenon DEF Acquire, Readeflags, Cli, Xchg, Acquired, cpu_vars
      <3>2. CASE Free(d)
        BY <2>1, <3>2, Zenon DEF Free, Release, Unlock, Popcli, cpu_vars
      <3>3. CASE Switch(d)
        BY <2>1, <3>3, Zenon DEF Switch, Sti, Sched, SchedRun, Forkret, Trapret, cpu_vars
      <3>4. CASE Interrupt(d) \/ Iret(d)
        BY <3>4, Zenon DEF Interrupt, Iret
      <3> QED
        BY <2>2, <3>1, <3>2, <3>3, <3>4, Zenon
    <2>4. Popcli(c)
      <3>1. ~Interrupt(c) /\ ~Iret(c)
        BY <2>1 DEF Interrupt, Iret
      <3>2. ~Acquire(c)
        BY <2>1, Zenon DEF Acquire, Readeflags, Cli, Xchg, Acquired
      <3>3. ~Switch(c)
        BY <2>1, Zenon DEF Switch, Sti, Sched, SchedRun, Forkret, Trapret
      <3> QED
        BY <2>1, <2>2, <2>3, <3>1, <3>2, <3>3, Zenon DEF Free, Release, Unlock
    <2>5. fl_if' = [fl_if EXCEPT ![c] = AfterPop(c, ncli[c] - 1)]
      <3>1. ~(fl_if[c] = 1 \/ ncli[c] < 1)
        BY <2>1
      <3> QED
        BY <2>4, <3>1, Zenon DEF Popcli
    <2> QED
      BY <2>1, <2>5 DEF AfterPop
  <1>2. ASSUME IInv, UNCHANGED vars PROVE [Restored]_vars
    BY <1>2, Zenon
  <1>3. IInv /\ [Next]_vars => [Restored]_vars
    BY <1>1, <1>2, Zenon
  <1> QED
    BY <1>3, Invariance, PTL DEF Spec, RestoresInterrupts
=============================================================================
