------------------------------- MODULE Memory -------------------------------
(* Physical pages (kernel/kalloc.c), address spaces (kernel/vm.c) and the    *)
(* calls that build, grow, copy and free them: sbrk, fork, exec, exit and    *)
(* wait (kernel/proc.c, kernel/exec.c).                                      *)
(*                                                                           *)
(* One action is one kalloc or kfree, a critical section of kmem.lock, with  *)
(* the private work around it: nobody else sees a process's page table, or   *)
(* one it is building.  Pages are counted, not named: which one kalloc       *)
(* returns matters to nobody.  Sizes are in units of which a page has        *)
(* PGSIZE, so that a size may end inside a page.                             *)
EXTENDS Integers, FiniteSets, FiniteSetsExt

CONSTANTS
  Proc, First,   \* processes; the one userinit makes
  NPAGE,         \* physical pages
  PGSIZE,        \* units of a page
  USERTOP,       \* end of user memory
  KTABS,         \* page tables that setupkvm fills
  NSEG           \* bound on the program headers of a file

ASSUME MemoryAssumption ==
  /\ IsFiniteSet(Proc) /\ First \in Proc
  /\ {PGSIZE, KTABS, USERTOP} \subseteq Nat \ {0} /\ USERTOP % PGSIZE = 0
  /\ {NPAGE, NSEG} \subseteq Nat /\ NPAGE > KTABS + 3

VARIABLES
  free,     \* length of the free list
  vm, sz,   \* address space and size of each process
  kstack,   \* kernel stacks of each process: 0 or 1
  tmp,      \* address space in the hands of a call: being built or freed
  pc, loc,  \* where each process is, and its locals
  leaked,   \* history: pages that nobody will ever free
  emptied,  \* history: processes that sbrk has shrunk to 0
  stopped   \* "no", or the panic that stopped the machine

held == <<vm, sz, kstack>>
vars == <<free, vm, sz, kstack, tmp, pc, loc, leaked, emptied, stopped>>

UPage == 0..(USERTOP \div PGSIZE - 1)

\* Mutant: rounds down.
PGROUNDUP_Down(n) == (n \div PGSIZE) * PGSIZE

PGROUNDUP(n) == ((n + PGSIZE - 1) \div PGSIZE) * PGSIZE
PagesOf(lo, hi) == {u \in UPage : PGROUNDUP(lo) <= u * PGSIZE /\ u * PGSIZE < hi}

\* An address space: its directory, its page tables (the first of them is
\* the one for user memory) and the user pages it maps.
NoVm == [dir |-> 0, tabs |-> 0, pages |-> {}]
Count(v) == v.dir + v.tabs + Cardinality(v.pages)

\* The C locals; own: allocuvm and deallocuvm work on the process itself, not
\* on tmp; ret: where to go on after them; stack: a kernel stack to free, 0 or 1.
NoLocals == [a |-> 0, old |-> 0, new |-> 0, own |-> FALSE, ret |-> "idle",
             size |-> 0, segs |-> 0, child |-> First, stack |-> 0]

\* After kinit and inituvm: the free list has what the first process does not.
FirstVm == [dir |-> 1, tabs |-> KTABS, pages |-> {0}]
FreeList == NPAGE - Count(FirstVm) - 1

\* After userinit: one process with one page.
Init ==
  /\ vm = [p \in Proc |-> IF p = First THEN FirstVm ELSE NoVm]
  /\ sz = [p \in Proc |-> IF p = First THEN PGSIZE ELSE 0]
  /\ kstack = [p \in Proc |-> IF p = First THEN 1 ELSE 0]
  /\ free = FreeList /\ tmp = [p \in Proc |-> NoVm]
  /\ pc = [p \in Proc |-> IF p = First THEN "idle" ELSE "unused"] /\ loc = [p \in Proc |-> NoLocals]
  /\ leaked = 0 /\ emptied = {} /\ stopped = "no"

-----------------------------------------------------------------------------
At(p, where) == stopped = "no" /\ pc[p] = where
Goto(p, where, l) == pc' = [pc EXCEPT ![p] = where] /\ loc' = [loc EXCEPT ![p] = l]
Done(p) == Goto(p, "idle", NoLocals)
Panic(why) ==
  stopped' = why /\ UNCHANGED <<free, held, tmp, pc, loc, leaked, emptied>>

kalloc == free > 0 /\ free' = free - 1
kfree == free' = free + 1

Space(p) == IF loc[p].own THEN vm[p] ELSE tmp[p]
SetPages(p, pages) ==
  IF loc[p].own THEN vm' = [vm EXCEPT ![p].pages = pages] /\ UNCHANGED tmp
  ELSE tmp' = [tmp EXCEPT ![p].pages = pages] /\ UNCHANGED vm

\* allocuvm starts from old; ret is where it goes on when it has worked.
Start(l, old, new, ret) == [l EXCEPT !.a = PGROUNDUP(old), !.old = old, !.new = new, !.ret = ret]

\* One round of allocuvm.  It does not look at the result of mappages, and
\* need not: the table that mappages wants is one of setupkvm's.  ("page lost"
\* marks where it would be wrong.)
Allocuvm(p) ==
  LET l == loc[p]  u == l.a \div PGSIZE IN
  /\ At(p, "alloc") /\ l.a < l.new
  /\ \/ free > 0 /\ Space(p).tabs = 0 /\ Panic("page lost")
     \/ free > 0 /\ Space(p).tabs > 0 /\ u \in Space(p).pages /\ Panic("remap")
     \/ /\ Space(p).tabs > 0 /\ u \notin Space(p).pages
        /\ kalloc /\ SetPages(p, Space(p).pages \cup {u})
        /\ Goto(p, "alloc", [l EXCEPT !.a = @ + PGSIZE])
        /\ UNCHANGED <<sz, kstack, leaked, emptied, stopped>>
     \/ /\ free = 0 /\ Goto(p, "undo", [l EXCEPT !.a = 0])
        /\ UNCHANGED <<free, held, tmp, leaked, emptied, stopped>>

AllocuvmDone(p) ==
  LET l == loc[p] IN
  /\ At(p, "alloc") /\ l.a >= l.new
  /\ IF l.own THEN sz' = [sz EXCEPT ![p] = l.new] /\ Done(p)
     ELSE Goto(p, l.ret, [l EXCEPT !.a = 0, !.old = 0, !.new = 0, !.size = l.new]) /\ UNCHANGED sz
  /\ UNCHANGED <<free, vm, kstack, tmp, leaked, emptied, stopped>>

\* One round of deallocuvm, for the pages of hi down to lo.
Deallocuvm(p, lo, hi) ==
  LET mapped == PagesOf(lo, hi) \cap Space(p).pages IN
  /\ mapped # {} /\ kfree /\ SetPages(p, Space(p).pages \ {Min(mapped)})
  /\ UNCHANGED <<sz, kstack, pc, loc, leaked, emptied, stopped>>
Deallocated(p, lo, hi) == PagesOf(lo, hi) \cap Space(p).pages = {}

\* Mutant: what allocuvm got before memory ran out stays mapped.
Undo_Skips(p) ==
  LET l == loc[p] IN
  /\ At(p, "undo")
  /\ IF l.own THEN Done(p) ELSE Goto(p, "freevm", NoLocals)
  /\ UNCHANGED <<free, held, tmp, leaked, emptied, stopped>>

\* allocuvm gives back what it got before memory ran out.
Undo(p) ==
  LET l == loc[p] IN
  /\ At(p, "undo")
  /\ \/ Deallocuvm(p, l.old, l.new)
     \/ /\ Deallocated(p, l.old, l.new)
        /\ IF l.own THEN Done(p) ELSE Goto(p, "freevm", NoLocals)
        /\ UNCHANGED <<free, held, tmp, leaked, emptied, stopped>>

-----------------------------------------------------------------------------
\* sbrk.  (A size past USERTOP, and one that wraps below 0, change nothing.)
Growproc(p) ==
  /\ At(p, "idle")
  /\ \E new \in (0..USERTOP) \ {sz[p]} :
       Goto(p, IF new > sz[p] THEN "alloc" ELSE "shrink",
            [Start(NoLocals, sz[p], new, "idle") EXCEPT !.own = TRUE])
  /\ UNCHANGED <<free, held, tmp, leaked, emptied, stopped>>

\* A new size of 0 looks like an error: the pages are gone, sz stays.
Shrink(p) ==
  LET l == loc[p] IN
  /\ At(p, "shrink")
  /\ \/ Deallocuvm(p, l.new, l.old)
     \/ /\ Deallocated(p, l.new, l.old) /\ Done(p)
        /\ sz' = IF l.new = 0 THEN sz ELSE [sz EXCEPT ![p] = l.new]
        /\ emptied' = IF l.new = 0 THEN emptied \cup {p} ELSE emptied
        /\ UNCHANGED <<free, vm, kstack, tmp, leaked, stopped>>

-----------------------------------------------------------------------------
\* setupkvm: the directory, then the tables.  When memory runs out it returns
\* without freeing them.
Setupkvm(p) ==
  LET l == loc[p]  v == tmp[p] IN
  /\ At(p, "setup")
  /\ \/ /\ v.tabs < KTABS /\ kalloc
        /\ tmp' = [tmp EXCEPT ![p] = IF v.dir = 0 THEN [v EXCEPT !.dir = 1] ELSE [v EXCEPT !.tabs = @ + 1]]
        /\ UNCHANGED <<held, pc, loc, leaked, emptied, stopped>>
     \/ /\ v.tabs < KTABS /\ free = 0
        /\ leaked' = leaked + Count(v) /\ tmp' = [tmp EXCEPT ![p] = NoVm]
        /\ IF l.ret = "copy" THEN Goto(p, "kstack", l) ELSE Done(p)
        /\ UNCHANGED <<free, held, emptied, stopped>>
     \/ /\ v.tabs = KTABS /\ Goto(p, l.ret, l)
        /\ UNCHANGED <<free, held, tmp, leaked, emptied, stopped>>

\* The end of a failed fork and of wait: the slot of the child is free.
FreeSlot(p) ==
  pc' = [pc EXCEPT ![p] = "idle", ![loc[p].child] = "unused"] /\ loc' = [loc EXCEPT ![p] = NoLocals]

\* freevm of tmp: the user's pages, the tables, the directory.
Freevm(p) ==
  LET v == tmp[p] IN
  /\ At(p, "freevm")
  /\ \/ Deallocuvm(p, 0, USERTOP)
     \/ /\ Deallocated(p, 0, USERTOP) /\ v.tabs > 0
        /\ kfree /\ tmp' = [tmp EXCEPT ![p].tabs = @ - 1]
        /\ UNCHANGED <<held, pc, loc, leaked, emptied, stopped>>
     \/ /\ Deallocated(p, 0, USERTOP) /\ v.tabs = 0
        /\ kfree /\ tmp' = [tmp EXCEPT ![p] = NoVm]
        /\ \/ loc[p].stack = 1 /\ Goto(p, "kstack", loc[p])
           \/ loc[p].stack = 0 /\ loc[p].ret # "reap" /\ Done(p)
           \/ loc[p].stack = 0 /\ loc[p].ret = "reap" /\ FreeSlot(p)
        /\ UNCHANGED <<held, leaked, emptied, stopped>>

-----------------------------------------------------------------------------
\* wait keeps ptable.lock while it frees what the child had.
Unlocked == \A p \in Proc : loc[p].ret # "reap"

\* fork: a slot and a kernel stack, or neither ...
fork(p) ==
  /\ At(p, "idle") /\ Unlocked
  /\ \E c \in Proc :
       /\ pc[c] = "unused" /\ kalloc
       /\ pc' = [pc EXCEPT ![p] = "setup", ![c] = "embryo"]
       /\ loc' = [loc EXCEPT ![p] = [NoLocals EXCEPT !.ret = "copy", !.child = c, !.stack = 1]]
  /\ UNCHANGED <<held, tmp, leaked, emptied, stopped>>

\* ... a copy of each page, or none ...
Copyuvm(p) ==
  LET l == loc[p]  u == l.a \div PGSIZE IN
  /\ At(p, "copy") /\ l.a < sz[p]
  /\ \/ u \notin vm[p].pages /\ Panic("copyuvm: page not present")
     \/ /\ u \in vm[p].pages /\ kalloc /\ SetPages(p, tmp[p].pages \cup {u})
        /\ Goto(p, "copy", [l EXCEPT !.a = @ + PGSIZE])
        /\ UNCHANGED <<sz, kstack, leaked, emptied, stopped>>
     \/ /\ u \in vm[p].pages /\ free = 0 /\ Goto(p, "freevm", [l EXCEPT !.a = 0])
        /\ UNCHANGED <<free, held, tmp, leaked, emptied, stopped>>

\* ... and the child can run.
ForkDone(p) ==
  LET l == loc[p] IN
  /\ At(p, "copy") /\ l.a >= sz[p]
  /\ vm' = [vm EXCEPT ![l.child] = tmp[p]] /\ tmp' = [tmp EXCEPT ![p] = NoVm]
  /\ sz' = [sz EXCEPT ![l.child] = sz[p]] /\ kstack' = [kstack EXCEPT ![l.child] = l.stack]
  /\ pc' = [pc EXCEPT ![p] = "idle", ![l.child] = "idle"] /\ loc' = [loc EXCEPT ![p] = NoLocals]
  /\ emptied' = IF p \in emptied THEN emptied \cup {l.child} ELSE emptied
  /\ UNCHANGED <<free, leaked, stopped>>

\* Mutant: a failed fork keeps the kernel stack.
Kstack_NoFree(p) ==
  /\ At(p, "kstack")
  /\ IF loc[p].ret = "reap" THEN kfree /\ Goto(p, "freevm", [loc[p] EXCEPT !.stack = 0])
     ELSE FreeSlot(p) /\ UNCHANGED free
  /\ UNCHANGED <<held, tmp, leaked, emptied, stopped>>

\* A failed fork, and wait, free the kernel stack.
Kstack(p) ==
  /\ At(p, "kstack") /\ kfree
  /\ IF loc[p].ret = "reap" THEN Goto(p, "freevm", [loc[p] EXCEPT !.stack = 0]) ELSE FreeSlot(p)
  /\ UNCHANGED <<held, tmp, leaked, emptied, stopped>>

exit(p) ==
  /\ At(p, "idle") /\ Unlocked /\ p # First /\ Goto(p, "zombie", NoLocals)
  /\ UNCHANGED <<free, held, tmp, leaked, emptied, stopped>>

\* wait, by the parent or by init, who has inherited the zombie.
wait(p) ==
  /\ At(p, "idle") /\ Unlocked
  /\ \E c \in Proc \ {p} :
       /\ pc[c] = "zombie"
       /\ pc' = [pc EXCEPT ![p] = "kstack", ![c] = "reaped"]
       /\ loc' = [loc EXCEPT ![p] = [NoLocals EXCEPT !.stack = kstack[c], !.child = c, !.ret = "reap"]]
       /\ tmp' = [tmp EXCEPT ![p] = vm[c]] /\ vm' = [vm EXCEPT ![c] = NoVm]
       /\ sz' = [sz EXCEPT ![c] = 0] /\ kstack' = [kstack EXCEPT ![c] = 0]
       /\ emptied' = emptied \ {c}
  /\ UNCHANGED <<free, leaked, stopped>>

-----------------------------------------------------------------------------
\* exec of a file that is a program.
exec(p) ==
  /\ At(p, "idle") /\ Goto(p, "setup", [NoLocals EXCEPT !.ret = "segment"])
  /\ UNCHANGED <<free, held, tmp, leaked, emptied, stopped>>

Bad(p) == Goto(p, "freevm", NoLocals)

\* The next program header: unreadable or wrong, a segment that ends at new,
\* or none; then the stack, a page of its own.
Segment(p) ==
  LET l == loc[p]  top == PGROUNDUP(l.size) IN
  /\ At(p, "segment")
  /\ \/ Bad(p)
     \/ \E new \in 1..USERTOP : LET m == [l EXCEPT !.segs = @ + 1] IN
          /\ l.segs < NSEG
          /\ IF new < l.size THEN Goto(p, "load", m)
             ELSE Goto(p, "alloc", Start(m, l.size, new, "load"))
     \/ /\ top + PGSIZE <= USERTOP /\ Goto(p, "alloc", Start(l, top, top + PGSIZE, "args"))
  /\ UNCHANGED <<free, held, tmp, leaked, emptied, stopped>>

\* loaduvm reads the file into pages that must be there.
Loaduvm(p) ==
  /\ At(p, "load")
  /\ \/ ~(PagesOf(0, loc[p].size) \subseteq tmp[p].pages) /\ Panic("loaduvm: page not mapped")
     \/ /\ PagesOf(0, loc[p].size) \subseteq tmp[p].pages
        /\ Bad(p) \/ Goto(p, "segment", [loc[p] EXCEPT !.ret = "idle"])
        /\ UNCHANGED <<free, held, tmp, leaked, emptied, stopped>>

\* The arguments go to the stack, or are too many; then the new image takes
\* the place of the old one, which is freed.
Args(p) ==
  LET l == loc[p] IN
  /\ At(p, "args")
  /\ \/ Bad(p) /\ UNCHANGED <<held, tmp, emptied>>
     \/ /\ vm' = [vm EXCEPT ![p] = tmp[p]] /\ tmp' = [tmp EXCEPT ![p] = vm[p]]
        /\ sz' = [sz EXCEPT ![p] = l.size] /\ Goto(p, "freevm", NoLocals)
        /\ emptied' = emptied \ {p} /\ UNCHANGED kstack
  /\ UNCHANGED <<free, leaked, stopped>>

-----------------------------------------------------------------------------
Growing(p) == Growproc(p) \/ Allocuvm(p) \/ AllocuvmDone(p) \/ Undo(p) \/ Shrink(p)
Forking(p) == fork(p) \/ Copyuvm(p) \/ ForkDone(p) \/ Kstack(p) \/ exit(p) \/ wait(p)
Loading(p) == exec(p) \/ Setupkvm(p) \/ Segment(p) \/ Loaduvm(p) \/ Args(p) \/ Freevm(p)

Next == \E p \in Proc : Growing(p) \/ Forking(p) \/ Loading(p)
Spec == Init /\ [][Next]_vars

-----------------------------------------------------------------------------
Rest == {"idle", "unused", "embryo", "zombie", "reaped"}

\* The type invariant.
TypeOK ==
  /\ free \in 0..NPAGE /\ leaked \in 0..NPAGE /\ sz \in [Proc -> 0..USERTOP]
  /\ {vm, tmp} \subseteq [Proc -> [dir : {0, 1}, tabs : 0..KTABS, pages : SUBSET UPage]]
  /\ kstack \in [Proc -> {0, 1}]

\* The sum of a function on processes: one pair for each unit.
Total(f) == Cardinality(UNION {{p} \X (1..f[p]) : p \in Proc})

\* Pages are conserved: each is on the free list, in an address space, a
\* kernel stack or in the hands of a call under way; a process at rest holds
\* nothing else.  None is freed twice, and none forgotten, except those that
\* setupkvm loses.
Conserved ==
  LET by == [p \in Proc |-> Count(vm[p]) + kstack[p]
               + (IF pc[p] \in Rest THEN 0 ELSE Count(tmp[p]) + loc[p].stack)]
  IN  TypeOK /\ free + leaked + Total(by) = NPAGE

\* A process has exactly the pages its size covers, whatever sequence of
\* sbrk, fork and exec failed or worked before: except after sbrk to 0.
Mapped ==
  \A p \in Proc \ emptied : ~loc[p].own =>
    vm[p].pages = PagesOf(0, sz[p])

\* No page is mapped twice, lost by mappages or missing when loaduvm and
\* copyuvm want it: except that fork panics after sbrk to 0.
NoPanic == stopped = "no" \/ (stopped = "copyuvm: page not present" /\ emptied # {})
=============================================================================
