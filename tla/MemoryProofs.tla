---------------------------- MODULE MemoryProofs ----------------------------
(* Theorems about Memory: pages are conserved, a process has exactly the     *)
(* pages its size covers, and no panic of vm.c happens but the one that      *)
(* follows sbrk to 0.                                                        *)
EXTENDS MemoryImages

-----------------------------------------------------------------------------
(* The steps of exit, fork and wait.                                         *)

\* exit leaves everything to wait.
LEMMA ExitStep ==
  ASSUME IInv, NEW p \in Proc, exit(p)
  PROVE  IInv'
PROOF
  <1>1. /\ pc[p] = "idle" /\ stopped = "no" /\ Goto(p, "zombie", NoLocals)
        /\ free' = free /\ held' = held /\ tmp' = tmp /\ leaked' = leaked /\ emptied' = emptied
        /\ stopped' = stopped
    BY Zenon DEF exit, At
  <1>2. pc'[p] = "zombie" /\ loc'[p] = NoLocals /\ vm' = vm /\ sz' = sz /\ kstack' = kstack
    BY <1>1, GotoFacts, Zenon DEF held
  <1>3. LocalsOK(p)' /\ ImageOK(p)'
    BY <1>1, <1>2, IdleFacts, NoLocalsType, Zenon DEF LocalsOK, ImageOK, Rest, Bare
  <1>4. TmpOK(p)' /\ PagesOK(p)'
    BY <1>1, <1>2, IdleFacts, NoLocalsType, Zenon DEF TmpOK, PagesOK
  <1>5. Good(p)'
    BY <1>3, <1>4, Zenon DEF Good
  <1> QED BY <1>1, <1>5, IdleFacts, NoLocalsType, Jump, Zenon DEF Where, Rest

\* fork takes a slot and a kernel stack.
LEMMA ForkStep ==
  ASSUME IInv, NEW p \in Proc, fork(p)
  PROVE  IInv'
PROOF
  <1>1. PICK c \in Proc :
          /\ pc[c] = "unused" /\ kalloc
          /\ pc' = [pc EXCEPT ![p] = "setup", ![c] = "embryo"]
          /\ loc' = [loc EXCEPT ![p] = [NoLocals EXCEPT !.ret = "copy", !.child = c, !.stack = 1]]
    BY Zenon DEF fork
  <1>2. /\ pc[p] = "idle" /\ stopped = "no" /\ held' = held /\ tmp' = tmp /\ leaked' = leaked
        /\ emptied' = emptied /\ stopped' = stopped /\ vm' = vm /\ sz' = sz /\ kstack' = kstack
    BY Zenon DEF fork, At, held
  <1>3. PICK l : l = [NoLocals EXCEPT !.ret = "copy", !.child = c, !.stack = 1]
    BY Zenon
  <1>4. /\ l \in LocType /\ l.ret = "copy" /\ l.child = c /\ l.stack = 1 /\ l.own = FALSE
        /\ l.a = 0 /\ l.size = 0
    BY <1>3, NoLocalsType, Zenon DEF LocType, NoLocals, Rets
  <1>5. p # c /\ pc'[p] = "setup" /\ pc'[c] = "embryo" /\ loc'[p] = l /\ loc'[c] = loc[c]
    BY <1>1, <1>2, <1>3, Zenon DEF IInv, Types
  <1>6. \A q \in Proc \ {p, c} : Same(q)
    BY <1>1, <1>2, Zenon DEF IInv, Types, Same
  <1>7. free \in Nat /\ free' \in Nat /\ free' + 1 = free /\ leaked \in Nat
    BY <1>1, Typed DEF kalloc
  <1>8. Types'
    BY <1>1, <1>2, <1>3, <1>4, <1>7, Zenon DEF IInv, Types, Where, Rest
  <1>9. \A q \in Proc : ChildOK(q)'
    BY <1>1, <1>2, <1>4, <1>5, <1>6, ChildTaken, Zenon
  <1>10. Good(p)'
    <2>1. LocalsOK(p)' /\ ImageOK(p)'
      BY <1>2, <1>4, <1>5, IdleFacts, Zenon DEF LocalsOK, ImageOK, Rest, Bare
    <2>2. TmpOK(p)' /\ PagesOK(p)'
      BY <1>2, <1>4, <1>5, IdleFacts DEF TmpOK, PagesOK, NoVm
    <2> QED BY <2>1, <2>2, Zenon DEF Good
  <1>11. Good(c)'
    <2>1. Good(c) /\ loc[c] = NoLocals /\ tmp[c] = NoVm
      BY <1>1, Typed, Zenon DEF Good, LocalsOK, Rest
    <2>2. LocalsOK(c)' /\ ImageOK(c)'
      BY <1>1, <1>2, <1>5, <2>1, NoLocalsType, Zenon DEF Good, LocalsOK, ImageOK, Rest, Bare
    <2>3. TmpOK(c)' /\ PagesOK(c)'
      BY <1>1, <1>2, <1>5, <2>1, NoLocalsType, Zenon DEF Good, TmpOK, PagesOK
    <2> QED BY <2>2, <2>3, Zenon DEF Good
  <1>12. KeptBy(p, c)
    <2>1. By \in [Proc -> Nat]
      BY <1>8, ByBoth, Zenon
    <2>2. By'[c] = By[c]
      BY <1>2, <1>5, Zenon DEF By
    <2>3. Count(vm[p]) + kstack[p] + Count(tmp[p]) \in Nat
      <3>1. Count(vm[p]) \in Nat /\ kstack[p] \in Nat /\ Count(tmp[p]) \in Nat
        BY Typed, CountFacts
      <3> QED BY <3>1
    <2>4. By[p] = Count(vm[p]) + kstack[p] + Count(tmp[p]) + 0
      BY <1>2, IdleFacts, NoLocalsType, Zenon DEF By
    <2>5. By'[p] = Count(vm[p]) + kstack[p] + Count(tmp[p]) + 1
      BY <1>2, <1>4, <1>5, Zenon DEF By
    <2>6. By'[p] = By[p] + 1 /\ By[p] \in Nat /\ By[c] \in Nat
      BY <2>1, <2>3, <2>4, <2>5
    <2>7. PICK x \in Nat, y \in Nat : x = By[p] /\ y = By[c]
      BY <2>6, Zenon
    <2>8. PICK f \in Nat : f = free'
      BY <1>7, Zenon
    <2>9. free = f + 1
      BY <1>7, <2>8, Zenon
    <2>10. f + leaked + (x + 1) + y = f + 1 + leaked + x + y
      BY <1>7
    <2> QED BY <1>2, <2>2, <2>6, <2>7, <2>8, <2>9, <2>10, Zenon DEF KeptBy
  <1>13. NoPanic'
    BY <1>2, Zenon DEF NoPanic
  <1> QED BY <1>5, <1>6, <1>8, <1>9, <1>10, <1>11, <1>12, <1>13, TwoProc, Zenon

\* A process in copyuvm.
LEMMA CopyFacts ==
  ASSUME IInv, NEW p \in Proc, pc[p] = "copy"
  PROVE  /\ LocalsOK(p) /\ ImageOK(p) /\ loc[p] \in LocType /\ tmp[p] \in VmType /\ Space(p) = tmp[p]
         /\ ~loc[p].own /\ loc[p].ret = "copy" /\ loc[p].stack = 1 /\ tmp[p].dir = 1
         /\ tmp[p].tabs = KTABS /\ tmp[p].pages = Below(loc[p].a)
         /\ Aligned(loc[p].a) /\ loc[p].a < sz[p] + PGSIZE /\ loc[p].a \in Nat
         /\ vm[p].pages \subseteq Below(sz[p]) /\ (p \notin emptied => vm[p].pages = Below(sz[p]))
PROOF
  <1>1. Good(p) /\ loc[p] \in LocType /\ tmp[p] \in VmType /\ loc[p].a \in Nat
    BY Typed, Zenon DEF LocType
  <1>2. ~loc[p].own /\ loc[p].ret = "copy" /\ loc[p].stack = 1 /\ Space(p) = tmp[p]
    BY <1>1, Zenon DEF Good, LocalsOK, Space
  <1>3. tmp[p].dir = 1 /\ tmp[p].tabs = KTABS
    BY <1>1, <1>2, Zenon DEF Good, TmpOK
  <1> QED BY <1>1, <1>2, <1>3, Zenon DEF Good, PagesOK

\* copyuvm finds the pages it copies, unless sbrk has emptied the process.
LEMMA CopyuvmStep ==
  ASSUME IInv, NEW p \in Proc, Copyuvm(p)
  PROVE  IInv'
PROOF
  <1> DEFINE u == loc[p].a \div PGSIZE
             m == [loc[p] EXCEPT !.a = @ + PGSIZE]
             k == [loc[p] EXCEPT !.a = 0]
  <1>1. pc[p] = "copy" /\ stopped = "no" /\ loc[p].a < sz[p]
    BY Zenon DEF Copyuvm, At
  <1>2. /\ sz[p] \in Nat /\ sz[p] <= USERTOP /\ USERTOP \in Nat /\ PGSIZE \in Nat \ {0} /\ free \in Nat
        /\ leaked \in Nat /\ loc[p].a \in Nat /\ Aligned(loc[p].a)
    BY <1>1, Typed, CopyFacts, MemoryAssumption
  <1>3. /\ u \in UPage /\ u \notin Below(loc[p].a) /\ Below(loc[p].a + PGSIZE) = Below(loc[p].a) \cup {u}
        /\ Aligned(loc[p].a + PGSIZE) /\ u \in Below(sz[p])
    BY <1>1, <1>2, NextPage
  <1>4. CASE u \notin vm[p].pages
    <2>1. stopped' = "copyuvm: page not present" /\ UNCHANGED <<free, held, tmp, pc, loc, leaked, emptied>>
      BY <1>4, Zenon DEF Copyuvm, Panic
    <2>2. p \in emptied
      BY <1>1, <1>3, <1>4, CopyFacts, Zenon
    <2>3. NoPanic'
      BY <2>1, <2>2, Zenon DEF NoPanic
    <2>4. /\ free' = free /\ vm' = vm /\ sz' = sz /\ kstack' = kstack /\ tmp' = tmp /\ pc' = pc
          /\ loc' = loc /\ leaked' = leaked /\ emptied' = emptied
      BY <2>1, Zenon DEF held
    <2>5. Types' /\ (\A q \in Proc \ {p} : Same(q)) /\ Same(p)
      BY <2>4, Zenon DEF IInv, Types, Same
    <2>6. Good(p)'
      BY <2>5, Typed, Frame, Zenon
    <2>7. \A q \in Proc : ChildOK(q)'
      BY <2>4, Zenon DEF IInv, ChildOK, HasChild
    <2>8. Kept(p)
      BY <2>4, Zenon DEF Kept, By
    <2> QED BY <2>3, <2>5, <2>6, <2>7, <2>8, OneProc, Zenon
  <1>5. CASE /\ u \in vm[p].pages /\ kalloc /\ SetPages(p, tmp[p].pages \cup {u})
             /\ Goto(p, "copy", m)
             /\ UNCHANGED <<sz, kstack, leaked, emptied, stopped>>
    <2>1. /\ m \in LocType /\ m.a = loc[p].a + PGSIZE /\ m.own = loc[p].own
          /\ m.ret = loc[p].ret /\ m.stack = loc[p].stack /\ m.child = loc[p].child
      BY <1>1, <1>2, CopyFacts DEF LocType
    <2>2. pc'[p] = "copy" /\ loc'[p] = m
      BY <1>5, GotoFacts, Zenon
    <2> HIDE DEF m
    <2>3. PICK pages \in SUBSET UPage : pages = tmp[p].pages \cup {u}
      BY <1>1, <1>3, CopyFacts, Zenon DEF VmType
    <2> HIDE DEF u
    <2>4. SetPages(p, pages) /\ loc'[p].own = loc[p].own
      BY <1>5, <2>1, <2>2, <2>3, Zenon
    <2>5. tmp'[p] = [tmp[p] EXCEPT !.pages = pages] /\ vm'[p] = vm[p] /\ Space(p)' = tmp'[p]
      BY <1>1, <2>4, CopyFacts, SetFacts, Zenon DEF Space
    <2>6. tmp'[p].pages = Below(m.a) /\ tmp'[p].dir = 1 /\ tmp'[p].tabs = KTABS
      BY <1>1, <1>3, <2>1, <2>3, <2>5, CopyFacts DEF VmType
    <2>7. LocalsOK(p)'
      BY <1>1, <2>1, <2>2, CopyFacts, Zenon DEF LocalsOK, Rest
    <2>8. ImageOK(p)'
      BY <1>1, <1>5, <2>2, <2>5, CopyFacts DEF ImageOK, Bare
    <2>9. TmpOK(p)'
      BY <2>2, <2>6, Zenon DEF TmpOK
    <2>10. PagesOK(p)'
      <3>1. m.a < sz[p] + PGSIZE
        BY <1>1, <1>2, <2>1
      <3> QED BY <1>1, <1>3, <1>5, <2>1, <2>2, <2>5, <2>6, <3>1, CopyFacts, Zenon DEF PagesOK
    <2>11. Good(p)' /\ Space(p) = tmp[p]
      BY <1>1, <2>7, <2>8, <2>9, <2>10, CopyFacts, Zenon DEF Good
    <2>12. free' \in Nat /\ KeptIn(p, pages)
      <3>1. Count([tmp[p] EXCEPT !.pages = tmp[p].pages \cup {u}]) = Count(tmp[p]) + 1 /\ Count(tmp[p]) \in Nat
        BY <1>1, <1>3, CopyFacts, CountFacts, Zenon
      <3>2. free' \in Nat /\ free' + 1 = free
        BY <1>2, <1>5 DEF kalloc
      <3> QED BY <1>2, <2>3, <2>11, <3>1, <3>2 DEF KeptIn
    <2> QED BY <1>1, <1>5, <2>1, <2>4, <2>11, <2>12, Mapping, Zenon
  <1>6. CASE /\ u \in vm[p].pages /\ free = 0 /\ Goto(p, "freevm", k)
             /\ UNCHANGED <<free, held, tmp, leaked, emptied, stopped>>
    <2>1. /\ k \in LocType /\ k.own = loc[p].own /\ k.ret = loc[p].ret /\ k.stack = loc[p].stack
          /\ k.child = loc[p].child
      BY <1>1, <1>2, CopyFacts DEF LocType
    <2>2. pc'[p] = "freevm" /\ loc'[p] = k /\ vm' = vm /\ sz' = sz /\ kstack' = kstack
      BY <1>6, GotoFacts, Zenon DEF held
    <2> HIDE DEF k
    <2>3. LocalsOK(p)' /\ ImageOK(p)'
      BY <1>1, <1>6, <2>1, <2>2, CopyFacts, Zenon DEF LocalsOK, ImageOK, Rest, Bare
    <2>4. TmpOK(p)' /\ PagesOK(p)'
      BY <1>1, <1>6, <2>1, <2>2, CopyFacts, Zenon DEF TmpOK, PagesOK
    <2>5. Good(p)'
      BY <2>3, <2>4, Zenon DEF Good
    <2> QED BY <1>1, <1>6, <2>1, <2>5, Jump, Zenon DEF Where
  <1> QED BY <1>4, <1>5, <1>6, Zenon DEF Copyuvm

\* The child of fork has the copy, which covers the size of its parent.
LEMMA ForkDoneStep ==
  ASSUME IInv, NEW p \in Proc, ForkDone(p)
  PROVE  IInv'
PROOF
  <1>1. pc[p] = "copy" /\ stopped = "no" /\ loc[p].a >= sz[p] /\ HasChild(p)
    BY CopyFacts, Zenon DEF ForkDone, At, HasChild
  <1>2. PICK c \in Proc : c = loc[p].child
    BY <1>1, ChildFacts, Zenon
  <1>3. /\ c # p /\ pc[c] = "embryo" /\ loc[c] = NoLocals /\ tmp[c] = NoVm
        /\ vm[c] = NoVm /\ kstack[c] = 0 /\ sz[c] = 0 /\ c \notin emptied
    BY <1>1, <1>2, ChildFacts, CopyFacts, Zenon
  <1>4. /\ vm' = [vm EXCEPT ![c] = tmp[p]] /\ tmp' = [tmp EXCEPT ![p] = NoVm]
        /\ sz' = [sz EXCEPT ![c] = sz[p]] /\ kstack' = [kstack EXCEPT ![c] = 1]
        /\ pc' = [pc EXCEPT ![p] = "idle", ![c] = "idle"] /\ loc' = [loc EXCEPT ![p] = NoLocals]
        /\ emptied' = IF p \in emptied THEN emptied \cup {c} ELSE emptied
        /\ free' = free /\ leaked' = leaked /\ stopped' = stopped
    BY <1>1, <1>2, CopyFacts, Zenon DEF ForkDone
  <1>5. /\ tmp[p] \in VmType /\ NoVm \in VmType /\ sz[p] \in 0..USERTOP /\ sz[p] \in Nat
        /\ PGSIZE \in Nat /\ loc[p].a \in Nat
    BY <1>1, CopyFacts, Typed, MemoryAssumption DEF NoVm, VmType
  <1>6. /\ pc'[p] = "idle" /\ pc'[c] = "idle" /\ loc'[p] = NoLocals /\ loc'[c] = NoLocals
        /\ vm'[c] = tmp[p] /\ vm'[p] = vm[p] /\ tmp'[p] = NoVm /\ tmp'[c] = NoVm
        /\ sz'[c] = sz[p] /\ sz'[p] = sz[p] /\ kstack'[c] = 1 /\ kstack'[p] = kstack[p]
        /\ p \in emptied' <=> p \in emptied
    BY <1>3, <1>4, Zenon DEF IInv, Types
  <1>7. \A q \in Proc \ {p, c} : Same(q)
    BY <1>4, Zenon DEF IInv, Types, Same
  <1>8. Types'
    BY <1>4, <1>5, NoLocalsType, Zenon DEF IInv, Types, Where, Rest
  <1>9. \A q \in Proc : ChildOK(q)'
    BY <1>1, <1>2, <1>3, <1>6, <1>7, ChildGiven, NoLocalsType, Zenon DEF HasChild
  <1>10. Good(p)'
    <2>1. LocalsOK(p)' /\ TmpOK(p)'
      BY <1>6, NoLocalsType, Zenon DEF LocalsOK, TmpOK, Rest
    <2>2. ImageOK(p)' /\ PagesOK(p)'
      BY <1>1, <1>6, CopyFacts, NoLocalsType, Zenon DEF ImageOK, PagesOK, Bare
    <2> QED BY <2>1, <2>2, Zenon DEF Good
  <1>11. Good(c)'
    <2>1. LocalsOK(c)' /\ TmpOK(c)'
      BY <1>6, NoLocalsType, Zenon DEF LocalsOK, TmpOK, Rest
    <2>2. ImageOK(c)'
      BY <1>1, <1>6, CopyFacts, Zenon DEF ImageOK, Bare
    <2>3. tmp[p].pages = Below(sz[p])
      BY <1>1, <1>5, CopyFacts, BelowSame, Zenon
    <2>4. PagesOK(c)'
      BY <1>6, <2>3, NoLocalsType, Zenon DEF PagesOK
    <2> QED BY <2>1, <2>2, <2>4, Zenon DEF Good
  <1>12. KeptBy(p, c)
    <2>1. Count(NoVm) = 0
      BY FS_EmptySet DEF NoVm, Count
    <2>2. PICK x \in Nat, y \in Nat : x = Count(vm[p]) + kstack[p] /\ y = Count(tmp[p])
      <3>1. Count(vm[p]) \in Nat /\ kstack[p] \in Nat /\ Count(tmp[p]) \in Nat
        BY Typed, CountFacts
      <3> QED BY <3>1
    <2>3. By[p] = x + y + 1 /\ By[c] = 0 + 0 + 0 + 0
      BY <1>1, <1>3, <2>1, <2>2, CopyFacts, NoLocalsType, Zenon DEF By
    <2>4. By'[p] = x + 0 + 0 /\ By'[c] = y + 1 + 0 + 0
      BY <1>6, <2>1, <2>2, NoLocalsType, Zenon DEF By
    <2>5. free \in Nat /\ leaked \in Nat
      BY Typed, Zenon
    <2>6. free + leaked + (x + 0 + 0) + (y + 1 + 0 + 0) = free + leaked + (x + y + 1) + (0 + 0 + 0 + 0)
      BY <2>5
    <2> QED BY <1>4, <2>3, <2>4, <2>6, Zenon DEF KeptBy
  <1>13. NoPanic'
    BY <1>1, <1>4, Zenon DEF NoPanic
  <1> QED BY <1>3, <1>7, <1>8, <1>9, <1>10, <1>11, <1>12, <1>13, TwoProc, Zenon

\* wait takes what the zombie had into its own hands.
LEMMA WaitStep ==
  ASSUME IInv, NEW p \in Proc, wait(p)
  PROVE  IInv'
PROOF
  <1>1. PICK c \in Proc \ {p} :
          /\ pc[c] = "zombie"
          /\ pc' = [pc EXCEPT ![p] = "kstack", ![c] = "reaped"]
          /\ loc' = [loc EXCEPT ![p] = [NoLocals EXCEPT !.stack = kstack[c], !.child = c, !.ret = "reap"]]
          /\ tmp' = [tmp EXCEPT ![p] = vm[c]] /\ vm' = [vm EXCEPT ![c] = NoVm]
          /\ sz' = [sz EXCEPT ![c] = 0] /\ kstack' = [kstack EXCEPT ![c] = 0]
          /\ emptied' = emptied \ {c}
    BY Zenon DEF wait
  <1>2. pc[p] = "idle" /\ stopped = "no" /\ free' = free /\ leaked' = leaked /\ stopped' = stopped
    BY Zenon DEF wait, At
  <1>3. /\ Good(c) /\ loc[c] = NoLocals /\ tmp[c] = NoVm /\ vm[c].dir = 1 /\ vm[c].tabs = KTABS
        /\ kstack[c] = 1 /\ vm[c] \in VmType
    BY <1>1, Typed, Zenon DEF Good, LocalsOK, ImageOK, Rest, Bare
  <1>4. PICK l : l = [NoLocals EXCEPT !.stack = kstack[c], !.child = c, !.ret = "reap"]
    BY Zenon
  <1>5. l \in LocType /\ l.ret = "reap" /\ l.child = c /\ l.stack = 1 /\ l.own = FALSE
    BY <1>1, <1>3, <1>4, NoLocalsType, Zenon DEF LocType, NoLocals, Rets
  <1>6. /\ pc'[p] = "kstack" /\ pc'[c] = "reaped" /\ loc'[p] = l /\ loc'[c] = NoLocals
        /\ vm'[c] = NoVm /\ vm'[p] = vm[p] /\ tmp'[p] = vm[c] /\ tmp'[c] = NoVm
        /\ sz'[c] = 0 /\ sz'[p] = sz[p] /\ kstack'[c] = 0 /\ kstack'[p] = kstack[p]
        /\ c \notin emptied' /\ (p \in emptied' <=> p \in emptied)
    BY <1>1, <1>3, <1>4, Zenon DEF IInv, Types
  <1>7. \A q \in Proc \ {p, c} : Same(q)
    BY <1>1, Zenon DEF IInv, Types, Same
  <1>8. Types'
    <2>1. NoVm \in VmType /\ 0 \in 0..USERTOP
      BY MemoryAssumption DEF NoVm, VmType
    <2> QED BY <1>1, <1>2, <1>3, <1>4, <1>5, <2>1, Zenon DEF IInv, Types, Where, Rest
  <1>9. \A q \in Proc : ChildOK(q)'
    <2>1. /\ pc[c] \in {"unused", "zombie"} /\ loc'[p].child = c /\ loc'[p].ret \in {"copy", "reap"}
          /\ pc'[c] = (IF loc'[p].ret = "copy" THEN "embryo" ELSE "reaped") /\ loc'[c] = loc[c]
      BY <1>1, <1>3, <1>5, <1>6, Zenon
    <2> QED BY <1>2, <1>7, <2>1, ChildTaken, Zenon
  <1>10. Good(p)'
    <2>1. LocalsOK(p)' /\ TmpOK(p)'
      BY <1>3, <1>5, <1>6, Zenon DEF LocalsOK, TmpOK, Rest
    <2>2. ImageOK(p)' /\ PagesOK(p)'
      BY <1>2, <1>5, <1>6, IdleFacts DEF ImageOK, PagesOK, Bare
    <2> QED BY <2>1, <2>2, Zenon DEF Good
  <1>11. Good(c)'
    <2>1. LocalsOK(c)' /\ TmpOK(c)' /\ ImageOK(c)'
      BY <1>6, NoLocalsType, Zenon DEF LocalsOK, TmpOK, ImageOK, Rest, Bare
    <2>2. PagesOK(c)'
      BY <1>6, Ends, NoLocalsType DEF PagesOK, NoVm
    <2> QED BY <2>1, <2>2, Zenon DEF Good
  <1>12. KeptBy(p, c)
    <2>1. Count(NoVm) = 0
      BY FS_EmptySet DEF NoVm, Count
    <2>2. PICK x \in Nat, y \in Nat : x = Count(vm[p]) + kstack[p] /\ y = Count(vm[c])
      <3>1. Count(vm[p]) \in Nat /\ kstack[p] \in Nat /\ Count(vm[c]) \in Nat
        BY <1>1, Typed, CountFacts
      <3> QED BY <3>1
    <2>3. By[p] = x + 0 + 0 /\ By[c] = y + 1 + 0 + 0
      BY <1>1, <1>2, <1>3, <2>1, <2>2, IdleFacts, NoLocalsType, Zenon DEF By
    <2>4. By'[p] = x + y + 1 /\ By'[c] = 0 + 0 + 0 + 0
      BY <1>1, <1>5, <1>6, <2>1, <2>2, NoLocalsType, Zenon DEF By
    <2>5. free \in Nat /\ leaked \in Nat
      BY Typed, Zenon
    <2>6. free + leaked + (x + y + 1) + (0 + 0 + 0 + 0) = free + leaked + (x + 0 + 0) + (y + 1 + 0 + 0)
      BY <2>5
    <2> QED BY <1>2, <2>3, <2>4, <2>6, Zenon DEF KeptBy
  <1>13. NoPanic'
    BY <1>2, Zenon DEF NoPanic
  <1> QED BY <1>1, <1>7, <1>8, <1>9, <1>10, <1>11, <1>12, <1>13, TwoProc, Zenon

-----------------------------------------------------------------------------
(* The theorems.                                                             *)

\* The image that userinit leaves satisfies IInv.
LEMMA Start0 == Init => IInv
PROOF
  <1> SUFFICES ASSUME Init
               PROVE  IInv
    BY Zenon
  <1>1. /\ KTABS \in Nat \ {0} /\ PGSIZE \in Nat \ {0} /\ USERTOP \in Nat \ {0} /\ NPAGE \in Nat
        /\ NPAGE > KTABS + 3 /\ First \in Proc
    BY MemoryAssumption, Zenon
  <1>2. PGSIZE \in 0..USERTOP /\ Below(PGSIZE) = {0} /\ 0 \in UPage
    <2>1. Aligned(0) /\ 0 \in Nat /\ 0 < USERTOP /\ 0 \div PGSIZE = 0 /\ 0 + PGSIZE = PGSIZE
      BY <1>1, DivMult DEF Aligned
    <2>2. Below(PGSIZE) = {0} /\ 0 \in UPage
      BY <2>1, NextPage, Ends
    <2>3. 1 * PGSIZE <= USERTOP
      <3>1. PICK k \in Nat : USERTOP = k * PGSIZE
        BY UserTop, Zenon
      <3>2. k # 0
        BY <1>1, <3>1
      <3>3. PICK d \in Nat : k = d + 1
        BY <3>2
      <3>4. k * PGSIZE = d * PGSIZE + PGSIZE /\ d * PGSIZE >= 0
        BY <1>1, <3>3
      <3> QED BY <1>1, <3>1, <3>4
    <2> QED BY <1>1, <2>2, <2>3
  <1>3. FirstVm \in VmType /\ NoVm \in VmType /\ NoLocals \in LocType
    BY <1>1, <1>2, NoLocalsType DEF FirstVm, NoVm, VmType
  <1>4. Count(FirstVm) = KTABS + 2 /\ Count(NoVm) = 0
    <2>1. Cardinality({0}) = 1 /\ Cardinality({}) = 0
      BY FS_Singleton, FS_EmptySet, Zenon
    <2> QED BY <1>1, <2>1 DEF FirstVm, NoVm, Count
  <1>5. FreeList \in Nat /\ FreeList + (KTABS + 3) = NPAGE
    BY <1>1, <1>4 DEF FreeList
  <1>6. Types
    BY <1>1, <1>2, <1>3, <1>5 DEF Init, Types, Where, Rest
  <1>7. ASSUME NEW p \in Proc
        PROVE  Good(p) /\ ChildOK(p)
    <2>1. /\ loc[p] = NoLocals /\ tmp[p] = NoVm /\ emptied = {}
          /\ p = First => pc[p] = "idle" /\ vm[p] = FirstVm /\ sz[p] = PGSIZE /\ kstack[p] = 1
          /\ p # First => pc[p] = "unused" /\ vm[p] = NoVm /\ sz[p] = 0 /\ kstack[p] = 0
      BY Zenon DEF Init
    <2>2. LocalsOK(p) /\ ImageOK(p) /\ TmpOK(p)
      BY <2>1, NoLocalsType DEF LocalsOK, ImageOK, TmpOK, Rest, Bare, FirstVm
    <2>3. PagesOK(p)
      BY <1>2, <2>1, NoLocalsType, Ends DEF PagesOK, FirstVm, NoVm
    <2>4. ChildOK(p)
      BY <2>1, NoLocalsType, Zenon DEF ChildOK, HasChild
    <2> QED BY <2>2, <2>3, <2>4, Zenon DEF Good
  <1>8. Total(By) = KTABS + 3
    <2> DEFINE z == [p \in Proc |-> 0]
    <2>1. By \in [Proc -> Nat] /\ z \in [Proc -> Nat]
      BY <1>6, ByType DEF By, Types
    <2>2. \A q \in Proc \ {First} : By[q] = z[q]
      BY <1>4, NoLocalsType DEF By, Init
    <2>3. By[First] = KTABS + 3
      BY <1>1, <1>4, NoLocalsType DEF By, Init
    <2>4. Total(z) = 0
      <3>1. UNION {{p} \X (1..z[p]) : p \in Proc} = {}
        OBVIOUS
      <3> QED BY <3>1, FS_EmptySet, Zenon DEF Total
    <2>5. Total(By) \in Nat /\ Total(By) + z[First] = Total(z) + By[First]
      BY <1>1, <2>1, <2>2, TotalOne, Zenon
    <2> QED BY <1>1, <2>3, <2>4, <2>5
  <1>9. free + leaked + Total(By) = NPAGE
    BY <1>1, <1>5, <1>8 DEF Init
  <1>10. NoPanic
    BY Zenon DEF Init, NoPanic
  <1> QED BY <1>6, <1>7, <1>9, <1>10, Zenon DEF IInv

\* Every step of sbrk, fork, exec, exit and wait preserves IInv.
LEMMA Steps == IInv /\ [Next]_vars => IInv'
PROOF
  <1> SUFFICES ASSUME IInv, [Next]_vars
               PROVE  IInv'
    BY Zenon
  <1>1. ASSUME NEW p \in Proc, Growing(p)
        PROVE  IInv'
    BY <1>1, GrowprocStep, AllocuvmStep, AllocuvmDoneStep, UndoStep, ShrinkStep, Zenon DEF Growing
  <1>2. ASSUME NEW p \in Proc, Forking(p)
        PROVE  IInv'
    BY <1>2, ForkStep, CopyuvmStep, ForkDoneStep, KstackStep, ExitStep, WaitStep, Zenon DEF Forking
  <1>3. ASSUME NEW p \in Proc, Loading(p)
        PROVE  IInv'
    BY <1>3, ExecStep, SetupkvmStep, SegmentStep, LoaduvmStep, ArgsStep, FreevmStep, Zenon DEF Loading
  <1>4. CASE UNCHANGED vars
    <2>1. /\ free' = free /\ vm' = vm /\ sz' = sz /\ kstack' = kstack /\ tmp' = tmp /\ pc' = pc
          /\ loc' = loc /\ leaked' = leaked /\ emptied' = emptied /\ stopped' = stopped
      BY <1>4, Zenon DEF vars
    <2>2. \A q \in Proc : Good(q)'
      BY <2>1, Frame, Zenon DEF Same, IInv
    <2>3. \A q \in Proc : ChildOK(q)'
      BY <2>1, Zenon DEF IInv, ChildOK, HasChild
    <2>4. Types' /\ NoPanic'
      BY <2>1, Zenon DEF IInv, Types, NoPanic
    <2>5. By' = By
      BY <2>1, Zenon DEF By
    <2>6. (free + leaked + Total(By) = NPAGE)'
      BY <2>1, <2>5, Zenon DEF IInv
    <2> QED BY <2>2, <2>3, <2>4, <2>6, Zenon DEF IInv
  <1> QED BY <1>1, <1>2, <1>3, <1>4, Zenon DEF Next

\* IInv holds in every reachable state: at each point of sbrk, fork, exec, exit
\* and wait the locals, the image in hand and the process's own image fit
\* together, and the pages of all processes add up (kalloc.c, vm.c, exec.c).
THEOREM MemoryInvariance == Spec => []IInv
PROOF
  <1> QED BY Start0, Steps, PTL DEF Spec

\* No page is lost or freed twice: for every number of processes and pages,
\* the free list, the images, the kernel stacks and what setupkvm has leaked
\* make up the machine's memory (kalloc.c, vm.c, proc.c).
THEOREM PagesConserved == Spec => []Conserved
PROOF
  <1>1. IInv => Conserved
    <2> SUFFICES ASSUME IInv
                 PROVE  Conserved
      BY Zenon
    <2> DEFINE by == [p \in Proc |-> Count(vm[p]) + kstack[p]
                        + (IF pc[p] \in Rest THEN 0 ELSE Count(tmp[p]) + loc[p].stack)]
    <2>1. by = By
      <3>1. ASSUME NEW p \in Proc
            PROVE  by[p] = By[p]
        <4>1. Count(NoVm) = 0
          BY FS_EmptySet DEF NoVm, Count
        <4>2. Count(vm[p]) \in Nat /\ kstack[p] \in Nat /\ Count(tmp[p]) \in Nat /\ loc[p].stack \in Nat
          BY Typed, CountFacts DEF LocType
        <4>3. pc[p] \in Rest => loc[p] = NoLocals /\ tmp[p] = NoVm
          BY Typed, Zenon DEF Good, LocalsOK
        <4> QED BY <4>1, <4>2, <4>3, NoLocalsType DEF By
      <3> QED BY <3>1, Zenon DEF By
    <2>2. free + leaked + Total(By) = NPAGE
      BY Zenon DEF IInv
    <2>3. TypeOK
      <3>1. free \in Nat /\ leaked \in Nat /\ NPAGE \in Nat
        BY MemoryAssumption, Zenon DEF IInv, Types
      <3>2. Total(By) \in Nat
        <4>1. By \in [Proc -> Nat] /\ First \in Proc
          BY ByType, MemoryAssumption DEF By, IInv, Types
        <4> QED BY <4>1, TotalOne, Zenon
      <3>3. free \in 0..NPAGE /\ leaked \in 0..NPAGE
        BY <2>2, <3>1, <3>2
      <3> QED BY <3>3, Zenon DEF TypeOK, IInv, Types, VmType
    <2> QED BY <2>1, <2>2, <2>3, Zenon DEF Conserved
  <1> QED BY <1>1, MemoryInvariance, PTL

\* A process that is in no call that changes its own size has exactly the
\* pages its size covers, unless sbrk has shrunk it to 0 (growproc, allocuvm,
\* deallocuvm, copyuvm and exec).
THEOREM SizeIsMapped == Spec => []Mapped
PROOF
  <1>1. IInv => Mapped
    <2> SUFFICES ASSUME IInv, NEW p \in Proc \ emptied, ~loc[p].own
                 PROVE  vm[p].pages = PagesOf(0, sz[p])
      BY Zenon DEF Mapped
    <2>1. vm[p].pages = Below(sz[p]) /\ sz[p] \in Nat
      BY Typed, MemoryAssumption DEF Good, PagesOK
    <2> QED BY <2>1, Between, Ends, Zenon
  <1> QED BY <1>1, MemoryInvariance, PTL

\* The panics of mappages and loaduvm, and a page that allocuvm loses, never
\* happen; the one of copyuvm only after sbrk to 0.
THEOREM NoOtherPanic == Spec => []NoPanic
PROOF
  <1>1. IInv => NoPanic
    BY Zenon DEF IInv
  <1> QED BY <1>1, MemoryInvariance, PTL

=============================================================================
