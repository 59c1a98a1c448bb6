---------------------------- MODULE MemoryImages ----------------------------
(* The steps of exec, setupkvm, loaduvm, freevm and the kernel stacks        *)
(* preserve the inductive invariant IInv of Memory.                          *)
EXTENDS MemoryFacts

-----------------------------------------------------------------------------
(* exec, and the image that a call builds or frees.                          *)

\* A step that changes the image in the hands of a call.
KeptTmp(p, t, l) ==
  free' + leaked' + Count(t) + l.stack = free + leaked + Count(tmp[p]) + loc[p].stack

\* A step of p that changes only the image it builds or frees.
LEMMA TmpStep ==
  ASSUME IInv, NEW p \in Proc, NEW w \in Where, NEW l \in LocType, NEW t \in VmType,
         stopped = "no", pc[p] \notin {"embryo", "reaped"}, Goto(p, w, l),
         tmp' = [tmp EXCEPT ![p] = t], held' = held, emptied' = emptied, stopped' = stopped,
         free' \in Nat, leaked' \in Nat, KeptTmp(p, t, l),
         l.ret \in {"copy", "reap"} => l.ret = loc[p].ret /\ l.child = loc[p].child,
         Good(p)'
  PROVE  IInv'
PROOF
  <1>1. Types'
    BY Zenon DEF IInv, Types, Goto, held
  <1>2. \A q \in Proc \ {p} : Same(q)
    BY Zenon DEF IInv, Types, Goto, held, Same
  <1>3. loc'[p] = l /\ tmp'[p] = t /\ vm' = vm /\ kstack' = kstack
    BY Zenon DEF IInv, Types, Goto, held
  <1>4. \A q \in Proc : ChildOK(q)'
    BY <1>2, <1>3, ChildKept, Zenon DEF HasChild
  <1>5. Kept(p)
    <2>1. /\ By[p] = Count(vm[p]) + kstack[p] + Count(tmp[p]) + loc[p].stack
          /\ By'[p] = Count(vm[p]) + kstack[p] + Count(t) + l.stack
      BY <1>3, Zenon DEF By
    <2>2. PICK v \in Nat : v = Count(vm[p]) + kstack[p]
      <3>1. Count(vm[p]) \in Nat /\ kstack[p] \in Nat
        BY Typed, CountFacts
      <3> QED BY <3>1
    <2>3. Count(tmp[p]) \in Nat /\ Count(t) \in Nat /\ loc[p].stack \in Nat /\ l.stack \in Nat
      <3>1. loc[p] \in LocType /\ tmp[p] \in VmType
        BY Typed, Zenon
      <3>2. \A k \in LocType : k.stack \in Nat
        BY DEF LocType
      <3> QED BY <3>1, <3>2, CountFacts, Zenon
    <2>4. free \in Nat /\ leaked \in Nat
      BY Typed, Zenon
    <2>5. By[p] = v + (Count(tmp[p]) + loc[p].stack) /\ By'[p] = v + (Count(t) + l.stack)
      BY <2>1, <2>2, <2>3
    <2>6. PICK x \in Nat, y \in Nat : x = Count(tmp[p]) + loc[p].stack /\ y = Count(t) + l.stack
      BY <2>3
    <2>7. free' + leaked' + y = free + leaked + x
      BY <2>3, <2>4, <2>6 DEF KeptTmp
    <2>8. free' + leaked' + (v + y) = free + leaked + (v + x)
      BY <2>4, <2>7
    <2> QED BY <2>5, <2>6, <2>8, Zenon DEF Kept
  <1>6. NoPanic'
    BY Zenon DEF NoPanic
  <1> QED BY <1>1, <1>2, <1>4, <1>5, <1>6, OneProc, Zenon

\* exec starts to build an image (exec.c:31).
LEMMA ExecStep ==
  ASSUME IInv, NEW p \in Proc, exec(p)
  PROVE  IInv'
PROOF
  <1> DEFINE l == [NoLocals EXCEPT !.ret = "segment"]
  <1>1. pc[p] = "idle" /\ stopped = "no" /\ Goto(p, "setup", l)
    BY Zenon DEF exec, At
  <1>2. /\ free' = free /\ held' = held /\ tmp' = tmp /\ leaked' = leaked /\ emptied' = emptied
        /\ stopped' = stopped /\ vm' = vm /\ sz' = sz /\ kstack' = kstack
    BY Zenon DEF exec, held
  <1>3. l \in LocType /\ l.own = FALSE /\ l.ret = "segment" /\ l.stack = 0 /\ l.a = 0 /\ l.size = 0
    BY NoLocalsType, Zenon DEF LocType, NoLocals, Rets
  <1>4. pc'[p] = "setup" /\ loc'[p] = l
    BY <1>1, GotoFacts, Zenon
  <1> HIDE DEF l
  <1>5. LocalsOK(p)' /\ ImageOK(p)'
    BY <1>1, <1>2, <1>3, <1>4, IdleFacts, Zenon DEF LocalsOK, ImageOK, Rest, Bare
  <1>6. TmpOK(p)'
    BY <1>1, <1>2, <1>4, IdleFacts DEF TmpOK, NoVm
  <1>7. PagesOK(p)'
    BY <1>1, <1>2, <1>3, <1>4, IdleFacts, Zenon DEF PagesOK
  <1>8. Good(p)' /\ l.stack = loc[p].stack
    BY <1>1, <1>3, <1>5, <1>6, <1>7, IdleFacts, NoLocalsType, Zenon DEF Good
  <1> QED BY <1>1, <1>2, <1>3, <1>8, Jump, Zenon DEF Where

\* What there is to know of a process in setupkvm.
LEMMA SetupFacts ==
  ASSUME IInv, NEW p \in Proc, pc[p] = "setup"
  PROVE  /\ LocalsOK(p) /\ ImageOK(p) /\ loc[p] \in LocType /\ tmp[p] \in VmType
         /\ ~loc[p].own /\ loc[p].ret \in {"copy", "segment"} /\ loc[p].a = 0 /\ loc[p].size = 0
         /\ tmp[p].pages = {} /\ (tmp[p].dir = 0 => tmp[p].tabs = 0)
         /\ vm[p].pages \subseteq Below(sz[p]) /\ (p \notin emptied => vm[p].pages = Below(sz[p]))
PROOF
  <1>1. Good(p) /\ loc[p] \in LocType /\ tmp[p] \in VmType
    BY Typed, Zenon
  <1>2. ~loc[p].own /\ loc[p].ret \in {"copy", "segment"} /\ loc[p].a = 0 /\ loc[p].size = 0
    BY <1>1, Zenon DEF Good, LocalsOK
  <1>3. tmp[p].pages = {} /\ (tmp[p].dir = 0 => tmp[p].tabs = 0)
    BY <1>1, Zenon DEF Good, TmpOK
  <1> QED BY <1>1, <1>2, <1>3, Zenon DEF Good, PagesOK

\* A round of setupkvm: one page more, or memory has run out, or all is there.
LEMMA SetupkvmStep ==
  ASSUME IInv, NEW p \in Proc, Setupkvm(p)
  PROVE  IInv'
PROOF
  <1>1. pc[p] = "setup" /\ stopped = "no"
    BY Zenon DEF Setupkvm, At
  <1>2. free \in Nat /\ leaked \in Nat /\ KTABS \in Nat \ {0}
    BY Typed, MemoryAssumption, Zenon
  <1>3. tmp[p] \in VmType /\ tmp[p].dir \in {0, 1} /\ tmp[p].tabs \in 0..KTABS /\ Count(tmp[p]) \in Nat
    BY <1>1, SetupFacts, CountFacts, Zenon DEF VmType
  <1>4. loc[p].stack \in Nat
    BY <1>1, SetupFacts DEF LocType
  <1>5. NoVm \in VmType /\ Count(NoVm) = 0
    BY <1>2, FS_EmptySet DEF NoVm, VmType, Count
  <1>6. held' = held => vm' = vm /\ sz' = sz /\ kstack' = kstack
    BY Zenon DEF held
  <1>7. CASE /\ tmp[p].tabs < KTABS /\ kalloc
             /\ tmp' = [tmp EXCEPT ![p] = IF tmp[p].dir = 0 THEN [tmp[p] EXCEPT !.dir = 1]
                                          ELSE [tmp[p] EXCEPT !.tabs = @ + 1]]
             /\ UNCHANGED <<held, pc, loc, leaked, emptied, stopped>>
    <2>1. PICK t : t = IF tmp[p].dir = 0 THEN [tmp[p] EXCEPT !.dir = 1]
                       ELSE [tmp[p] EXCEPT !.tabs = @ + 1]
      BY Zenon
    <2>2. t \in VmType /\ t.pages = tmp[p].pages /\ t.dir = 1 /\ t.dir + t.tabs = tmp[p].dir + tmp[p].tabs + 1
      <3>1. CASE tmp[p].dir = 0
        BY <1>3, <2>1, <3>1 DEF VmType
      <3>2. CASE tmp[p].dir = 1
        BY <1>2, <1>3, <1>7, <2>1, <3>2 DEF VmType
      <3> QED BY <1>3, <3>1, <3>2, Zenon
    <2>3. Count(t) = Count(tmp[p]) + 1
      <3>1. Cardinality(tmp[p].pages) \in Nat /\ t.dir + t.tabs \in Nat /\ tmp[p].dir + tmp[p].tabs \in Nat
        BY <1>2, <1>3, <2>2, CountFacts DEF VmType
      <3> QED BY <2>2, <3>1 DEF Count
    <2>4. tmp' = [tmp EXCEPT ![p] = t] /\ tmp'[p] = t
      BY <1>7, <2>1, Zenon DEF IInv, Types
    <2>5. free' \in Nat /\ free' + 1 = free /\ leaked' = leaked
      BY <1>2, <1>7 DEF kalloc
    <2>6. KeptTmp(p, t, loc[p])
      <3>1. PICK f \in Nat, x \in Nat : f = free' /\ x = Count(tmp[p])
        BY <1>3, <2>5, CountFacts, Zenon
      <3>2. f + leaked + (x + 1) + loc[p].stack = f + 1 + leaked + x + loc[p].stack
        BY <1>2, <1>4
      <3> QED BY <2>3, <2>5, <3>1, <3>2, Zenon DEF KeptTmp
    <2>7. LocalsOK(p)' /\ ImageOK(p)'
      BY <1>1, <1>6, <1>7, SetupFacts DEF LocalsOK, ImageOK, Rest
    <2>8. TmpOK(p)' /\ PagesOK(p)'
      BY <1>1, <1>6, <1>7, <2>2, <2>4, SetupFacts DEF TmpOK, PagesOK
    <2>9. Good(p)' /\ Goto(p, "setup", loc[p])
      BY <1>1, <1>7, <2>7, <2>8, Zenon DEF Good, Goto, IInv, Types
    <2> QED BY <1>1, <1>2, <1>7, <2>2, <2>4, <2>5, <2>6, <2>9, SetupFacts, TmpStep, Zenon DEF Where
  <1>8. CASE /\ tmp[p].tabs < KTABS /\ free = 0
             /\ leaked' = leaked + Count(tmp[p]) /\ tmp' = [tmp EXCEPT ![p] = NoVm]
             /\ IF loc[p].ret = "copy" THEN Goto(p, "kstack", loc[p]) ELSE Done(p)
             /\ UNCHANGED <<free, held, emptied, stopped>>
    <2>1. PICK w \in {"kstack", "idle"}, l \in LocType :
            /\ Goto(p, w, l) /\ l.stack = loc[p].stack /\ ~l.own
            /\ w = "kstack" => l = loc[p] /\ loc[p].ret = "copy"
            /\ w = "idle" => l = NoLocals
      <3>1. CASE loc[p].ret = "copy"
        BY <1>1, <1>8, <3>1, SetupFacts, Zenon
      <3>2. CASE loc[p].ret # "copy"
        BY <1>1, <1>8, <3>2, SetupFacts, NoLocalsType, Zenon DEF Done, LocalsOK
      <3> QED BY <3>1, <3>2, Zenon
    <2>2. pc'[p] = w /\ loc'[p] = l /\ tmp'[p] = NoVm
      BY <1>8, <2>1, GotoFacts, Zenon DEF IInv, Types
    <2>3. leaked' \in Nat /\ free' \in Nat /\ KeptTmp(p, NoVm, l)
      BY <1>2, <1>3, <1>4, <1>5, <1>8, <2>1 DEF KeptTmp
    <2>4. LocalsOK(p)'
      BY <1>1, <2>1, <2>2, SetupFacts, NoLocalsType DEF LocalsOK, Rest
    <2>5. ImageOK(p)'
      BY <1>1, <1>6, <1>8, <2>1, <2>2, SetupFacts, Zenon DEF ImageOK, Bare
    <2>6. TmpOK(p)'
      BY <2>1, <2>2, NoLocalsType, Zenon DEF TmpOK
    <2>7. PagesOK(p)'
      BY <1>1, <1>6, <1>8, <2>1, <2>2, SetupFacts, Zenon DEF PagesOK
    <2>8. Good(p)' /\ w \in Where
      BY <2>4, <2>5, <2>6, <2>7, Zenon DEF Good, Where, Rest
    <2>9. l.ret \in {"copy", "reap"} => l.ret = loc[p].ret /\ l.child = loc[p].child
      BY <2>1, NoLocalsType, Zenon
    <2> QED BY <1>1, <1>5, <1>8, <2>1, <2>3, <2>8, <2>9, TmpStep, Zenon
  <1>9. CASE /\ tmp[p].tabs = KTABS /\ Goto(p, loc[p].ret, loc[p])
             /\ UNCHANGED <<free, held, tmp, leaked, emptied, stopped>>
    <2>1. pc'[p] = loc[p].ret /\ loc'[p] = loc[p] /\ tmp'[p] = tmp[p]
      BY <1>9, GotoFacts, Zenon
    <2>2. tmp[p].dir = 1 /\ loc[p].ret \in {"copy", "segment"}
      BY <1>1, <1>2, <1>3, <1>9, SetupFacts, Zenon
    <2>3. LocalsOK(p)' /\ ImageOK(p)'
      BY <1>1, <1>6, <1>9, <2>1, <2>2, SetupFacts, Zenon DEF LocalsOK, ImageOK, Rest, Bare
    <2>4. TmpOK(p)'
      BY <1>9, <2>1, <2>2, Zenon DEF TmpOK
    <2>5. PagesOK(p)'
      <3>1. Aligned(0) /\ PGSIZE \in Nat \ {0} /\ sz[p] \in Nat
        BY MemoryAssumption, Typed DEF Aligned
      <3>2. Space(p)' = tmp[p] /\ Below(0) = {} /\ 0 < sz[p] + PGSIZE
        BY <1>1, <1>9, <2>1, <3>1, Ends, SetupFacts DEF Space
      <3> QED BY <1>1, <1>6, <1>9, <2>1, <2>2, <3>1, <3>2, SetupFacts, Zenon DEF PagesOK
    <2>6. Good(p)' /\ loc[p].ret \in Where
      BY <2>2, <2>3, <2>4, <2>5, Zenon DEF Good, Where
    <2> QED BY <1>1, <1>9, <2>6, SetupFacts, Jump, Zenon
  <1> QED BY <1>7, <1>8, <1>9, Zenon DEF Setupkvm

\* The calls that build an image for exec.
LEMMA BuildFacts ==
  ASSUME IInv, NEW p \in Proc, pc[p] \in {"segment", "load", "args"}
  PROVE  /\ ImageOK(p) /\ loc[p] \in LocType /\ tmp[p] \in VmType /\ Space(p) = tmp[p]
         /\ ~loc[p].own /\ loc[p].ret \in {"segment", "idle", "load", "args"} /\ loc[p].stack = 0
         /\ tmp[p].dir = 1 /\ tmp[p].tabs = KTABS /\ tmp[p].pages = Below(loc[p].size)
         /\ vm[p].pages \subseteq Below(sz[p]) /\ (p \notin emptied => vm[p].pages = Below(sz[p]))
         /\ pc[p] = "segment" => loc[p].ret \in {"segment", "idle"}
PROOF
  <1>1. Good(p) /\ loc[p] \in LocType /\ tmp[p] \in VmType
    BY Typed, Zenon
  <1>2. ~loc[p].own /\ loc[p].ret \in {"segment", "idle", "load", "args"} /\ loc[p].stack = 0
    BY <1>1, Zenon DEF Good, LocalsOK
  <1>3. tmp[p].dir = 1 /\ tmp[p].tabs = KTABS /\ Space(p) = tmp[p]
    BY <1>1, <1>2, Zenon DEF Good, TmpOK, Space
  <1>4. pc[p] = "segment" => loc[p].ret \in {"segment", "idle"}
    BY <1>1, Zenon DEF Good, LocalsOK
  <1> QED BY <1>1, <1>2, <1>3, <1>4, Zenon DEF Good, PagesOK

\* From segment or load to load, segment or allocuvm: the image stays as it is.
LEMMA BuildJump ==
  ASSUME IInv, NEW p \in Proc, stopped = "no", pc[p] \in {"segment", "load"}, NEW l \in LocType,
         NEW w \in {"segment", "load", "alloc"}, Goto(p, w, l),
         ~l.own, l.stack = 0, l.ret \in {"segment", "idle", "load", "args"},
         w = "segment" => l.ret = "idle" /\ l.size = loc[p].size,
         w = "load" => l.ret \in {"segment", "idle"} /\ l.size = loc[p].size,
         w = "alloc" => /\ l.ret \in {"load", "args"} /\ l.old <= l.new /\ l.a = PGROUNDUP(l.old)
                        /\ Below(l.old) = Below(loc[p].size),
         free' = free, held' = held, tmp' = tmp, leaked' = leaked, emptied' = emptied,
         stopped' = stopped
  PROVE  IInv'
PROOF
  <1>1. pc'[p] = w /\ loc'[p] = l
    BY GotoFacts, Zenon
  <1>2. vm' = vm /\ sz' = sz /\ kstack' = kstack
    BY Zenon DEF held
  <1>3. LocalsOK(p)'
    BY <1>1, Zenon DEF LocalsOK, Rest
  <1>4. ImageOK(p)'
    BY <1>1, <1>2, BuildFacts, Zenon DEF ImageOK, Bare
  <1>5. TmpOK(p)'
    BY <1>1, BuildFacts, Zenon DEF TmpOK
  <1>6. PagesOK(p)'
    <2>1. Space(p)' = tmp[p]
      BY <1>1, Zenon DEF Space
    <2>2. CASE w = "alloc"
      <3>1. l.old \in Nat /\ l.new \in Nat /\ PGSIZE \in Nat
        BY MemoryAssumption DEF LocType
      <3>2. l.old <= l.a /\ l.a < l.old + PGSIZE /\ l.a \in Nat /\ Aligned(l.a)
        BY <2>2, <3>1, RoundUp, Zenon
      <3>3. Below(l.a) = Below(loc[p].size) /\ l.a < l.new + PGSIZE
        BY <2>2, <3>1, <3>2, BelowRound
      <3> QED BY <1>1, <1>2, <2>1, <2>2, <3>2, <3>3, BuildFacts, Zenon DEF PagesOK
    <2>3. CASE w # "alloc"
      BY <1>1, <1>2, <2>1, <2>3, BuildFacts, Zenon DEF PagesOK
    <2> QED BY <2>2, <2>3, Zenon
  <1>7. Good(p)' /\ w \in Where
    BY <1>3, <1>4, <1>5, <1>6, Zenon DEF Good, Where
  <1> QED BY <1>7, BuildFacts, Jump, Zenon

\* exec takes a segment, or goes on to the arguments (exec.c:36-53).
LEMMA SegmentStep ==
  ASSUME IInv, NEW p \in Proc, Segment(p)
  PROVE  IInv'
PROOF
  <1> DEFINE top == PGROUNDUP(loc[p].size)
             m == [loc[p] EXCEPT !.segs = @ + 1]
  <1>1. /\ pc[p] = "segment" /\ stopped = "no" /\ free' = free /\ held' = held /\ tmp' = tmp
        /\ leaked' = leaked /\ emptied' = emptied /\ stopped' = stopped
    BY Zenon DEF Segment, At
  <1>2. /\ loc[p] \in LocType /\ loc[p].size \in Nat /\ loc[p].size <= USERTOP /\ ~loc[p].own
        /\ loc[p].stack = 0 /\ loc[p].ret \in {"segment", "idle"} /\ USERTOP \in Nat
        /\ PGSIZE \in Nat \ {0} /\ NSEG \in Nat
    BY <1>1, BuildFacts, MemoryAssumption DEF LocType
  <1>3. CASE Bad(p)
    BY <1>1, <1>2, <1>3, BadStep, Zenon DEF Bad
  <1>4. ASSUME NEW new \in 1..USERTOP, loc[p].segs < NSEG,
               IF new < loc[p].size THEN Goto(p, "load", m)
               ELSE Goto(p, "alloc", Start(m, loc[p].size, new, "load"))
        PROVE  IInv'
    <2>1. /\ m \in LocType /\ m.size = loc[p].size /\ m.ret = loc[p].ret /\ m.own = loc[p].own
          /\ m.stack = loc[p].stack
      BY <1>2, <1>4 DEF LocType
    <2>2. CASE new < loc[p].size
      BY <1>1, <1>2, <1>4, <2>1, <2>2, BuildJump, Zenon
    <2>3. CASE ~(new < loc[p].size)
      <3>1. PICK l : l = Start(m, loc[p].size, new, "load")
        BY Zenon
      <3>2. /\ l \in LocType /\ l.own = m.own /\ l.stack = m.stack /\ l.ret = "load"
            /\ l.old = loc[p].size /\ l.new = new /\ l.a = PGROUNDUP(l.old)
        <4>1. PGROUNDUP(loc[p].size) \in Nat /\ new \in 0..USERTOP /\ loc[p].size \in 0..USERTOP
          BY <1>2, RoundUp
        <4> HIDE DEF m
        <4> QED BY <2>1, <3>1, <4>1, Zenon DEF Start, LocType, Rets
      <3>3. loc[p].size <= new
        BY <1>2, <2>3
      <3>4. Goto(p, "alloc", l)
        BY <1>4, <2>3, <3>1, Zenon
      <3> QED BY <1>1, <1>2, <2>1, <3>2, <3>3, <3>4, BuildJump, Zenon
    <2> QED BY <2>2, <2>3, Zenon
  <1>5. CASE top + PGSIZE <= USERTOP /\ Goto(p, "alloc", Start(loc[p], top, top + PGSIZE, "args"))
    <2>1. PICK l : l = Start(loc[p], top, top + PGSIZE, "args")
      BY Zenon
    <2>2. top \in Nat /\ Below(top) = Below(loc[p].size) /\ PGROUNDUP(top) \in Nat
      BY <1>2, RoundUp, BelowRound, Zenon
    <2> HIDE DEF top
    <2>3. top \in 0..USERTOP /\ top + PGSIZE \in 0..USERTOP /\ top <= top + PGSIZE
      BY <1>2, <1>5, <2>2
    <2>4. /\ l \in LocType /\ l.own = loc[p].own /\ l.stack = loc[p].stack /\ l.ret = "args"
          /\ l.old = top /\ l.new = top + PGSIZE /\ l.a = PGROUNDUP(top)
      BY <1>2, <2>1, <2>2, <2>3, Zenon DEF Start, LocType, Rets
    <2>5. Goto(p, "alloc", l)
      BY <1>5, <2>1, Zenon
    <2> QED BY <1>1, <1>2, <2>2, <2>3, <2>4, <2>5, BuildJump, Zenon
  <1> QED BY <1>3, <1>4, <1>5, Zenon DEF Segment

\* loaduvm finds the pages it reads into.
LEMMA LoaduvmStep ==
  ASSUME IInv, NEW p \in Proc, Loaduvm(p)
  PROVE  IInv'
PROOF
  <1>1. pc[p] = "load" /\ stopped = "no"
    BY Zenon DEF Loaduvm, At
  <1>2. loc[p] \in LocType /\ loc[p].size \in Nat /\ 0 \in Nat
    BY Typed DEF LocType
  <1>3. PagesOf(0, loc[p].size) \subseteq tmp[p].pages
    BY <1>1, <1>2, Between, BuildFacts
  <1>4. /\ Bad(p) \/ Goto(p, "segment", [loc[p] EXCEPT !.ret = "idle"])
        /\ free' = free /\ held' = held /\ tmp' = tmp
        /\ leaked' = leaked /\ emptied' = emptied /\ stopped' = stopped
    BY <1>3, Zenon DEF Loaduvm
  <1>5. CASE Bad(p)
    BY <1>1, <1>4, <1>5, BuildFacts, BadStep, Zenon DEF Bad
  <1>6. CASE Goto(p, "segment", [loc[p] EXCEPT !.ret = "idle"])
    <2>1. PICK l : l = [loc[p] EXCEPT !.ret = "idle"]
      BY Zenon
    <2>2. l \in LocType /\ l.ret = "idle" /\ l.own = loc[p].own /\ l.stack = loc[p].stack /\ l.size = loc[p].size
      BY <1>2, <2>1, Zenon DEF LocType, Rets
    <2>3. Goto(p, "segment", l) /\ ~l.own /\ l.stack = 0
      BY <1>1, <1>6, <2>1, <2>2, BuildFacts, Zenon
    <2> QED BY <1>1, <1>4, <2>2, <2>3, BuildJump, Zenon
  <1> QED BY <1>4, <1>5, <1>6, Zenon

\* The new image takes the place of the old one.
LEMMA ArgsStep ==
  ASSUME IInv, NEW p \in Proc, Args(p)
  PROVE  IInv'
PROOF
  <1>1. /\ pc[p] = "args" /\ stopped = "no" /\ free' = free /\ leaked' = leaked /\ stopped' = stopped
    BY Zenon DEF Args, At
  <1>2. loc[p] \in LocType /\ loc[p].size \in 0..USERTOP /\ vm[p] \in VmType /\ tmp[p] \in VmType
    BY Typed, Zenon DEF LocType
  <1>3. CASE Bad(p) /\ UNCHANGED <<held, tmp, emptied>>
    BY <1>1, <1>3, BuildFacts, BadStep, Zenon DEF Bad
  <1>4. CASE /\ vm' = [vm EXCEPT ![p] = tmp[p]] /\ tmp' = [tmp EXCEPT ![p] = vm[p]]
             /\ sz' = [sz EXCEPT ![p] = loc[p].size] /\ Goto(p, "freevm", NoLocals)
             /\ emptied' = emptied \ {p} /\ UNCHANGED kstack
    <2>1. Types'
      BY <1>1, <1>2, <1>4, NoLocalsType, Zenon DEF IInv, Types, Goto, Where
    <2>2. \A q \in Proc \ {p} : Same(q)
      BY <1>4, Zenon DEF IInv, Types, Goto, Same
    <2>3. /\ pc'[p] = "freevm" /\ loc'[p] = NoLocals /\ vm'[p] = tmp[p] /\ tmp'[p] = vm[p]
          /\ sz'[p] = loc[p].size /\ kstack'[p] = kstack[p]
      BY <1>4, Zenon DEF IInv, Types, Goto
    <2>4. \A q \in Proc : ChildOK(q)'
      BY <1>1, <2>2, <2>3, ChildKept, NoLocalsType, Zenon DEF HasChild
    <2>5. LocalsOK(p)' /\ ImageOK(p)'
      BY <1>1, <2>3, BuildFacts, NoLocalsType, Zenon DEF LocalsOK, ImageOK, Rest, Bare
    <2>6. TmpOK(p)'
      BY <1>1, <2>3, BuildFacts, Zenon DEF TmpOK, ImageOK, Bare
    <2>7. PagesOK(p)'
      BY <1>1, <2>3, BuildFacts, NoLocalsType, Zenon DEF PagesOK
    <2>8. Kept(p)
      <3>1. Count(vm[p]) \in Nat /\ Count(tmp[p]) \in Nat /\ kstack[p] \in Nat
        BY <1>2, CountFacts, Typed
      <3>2. /\ By[p] = Count(vm[p]) + kstack[p] + Count(tmp[p]) + 0
            /\ By'[p] = Count(tmp[p]) + kstack[p] + Count(vm[p]) + 0
        BY <1>1, <2>3, BuildFacts, NoLocalsType, Zenon DEF By
      <3>3. By'[p] = By[p]
        BY <3>1, <3>2
      <3> QED BY <1>1, <3>3, Zenon DEF Kept
    <2>9. NoPanic' /\ Good(p)'
      BY <1>1, <2>5, <2>6, <2>7, Zenon DEF NoPanic, Good
    <2> QED BY <2>1, <2>2, <2>4, <2>8, <2>9, OneProc, Zenon
  <1> QED BY <1>3, <1>4, Zenon DEF Args

-----------------------------------------------------------------------------
(* fork, wait, and the slot of the child.                                    *)

\* The slot that a call has in hand.
LEMMA ChildFacts ==
  ASSUME IInv, NEW p \in Proc, HasChild(p), pc[p] \notin {"embryo", "reaped"}
  PROVE  LET c == loc[p].child IN
         /\ c \in Proc /\ c # p /\ pc[c] \in {"embryo", "reaped"}
         /\ pc[c] = "embryo" <=> loc[p].ret = "copy"
         /\ loc[c] = NoLocals /\ tmp[c] = NoVm /\ vm[c] = NoVm /\ kstack[c] = 0 /\ sz[c] = 0
         /\ c \notin emptied
PROOF
  <1>1. PICK c \in Proc : c = loc[p].child
    BY Typed, Zenon DEF LocType
  <1>2. ChildOK(p) /\ Good(c)
    BY Typed, Zenon DEF IInv
  <1>3. pc[c] \in {"embryo", "reaped"} /\ (pc[c] = "embryo" <=> loc[p].ret = "copy")
    BY <1>1, <1>2, Zenon DEF ChildOK, HasChild
  <1>4. loc[c] = NoLocals /\ tmp[c] = NoVm
    BY <1>2, <1>3, Zenon DEF Good, LocalsOK, Rest
  <1>5. vm[c] = NoVm /\ kstack[c] = 0 /\ sz[c] = 0 /\ c \notin emptied
    BY <1>2, <1>3, Zenon DEF Good, ImageOK, Bare
  <1> QED BY <1>1, <1>3, <1>4, <1>5, Zenon

\* A call lets go of its slot.
LEMMA ChildGiven ==
  ASSUME IInv, NEW p \in Proc, HasChild(p), pc[p] \notin {"embryo", "reaped"}, ~HasChild(p)',
         NEW c \in Proc, c = loc[p].child, loc'[c] = loc[c],
         \A q \in Proc \ {p, c} : Same(q)
  PROVE  \A q \in Proc : ChildOK(q)'
PROOF
  <1>1. \A q \in Proc : ChildOK(q) /\ loc[q].child \in Proc
    BY Zenon DEF IInv, Types, LocType
  <1>2. ~HasChild(c)'
    BY ChildFacts, NoLocalsType, Zenon DEF HasChild
  <1>3. \A q \in Proc : HasChild(q)' => /\ q \notin {p, c} /\ HasChild(q) /\ loc'[q] = loc[q]
    BY <1>2, Zenon DEF Same, HasChild
  <1>4. \A q \in Proc : HasChild(q)' => loc[q].child \notin {p, c}
    BY <1>1, <1>3 DEF ChildOK, HasChild
  <1>5. \A q \in Proc : HasChild(q)' => pc'[loc[q].child] = pc[loc[q].child]
    BY <1>1, <1>4, Zenon DEF Same
  <1> QED BY <1>1, <1>3, <1>5 DEF ChildOK

\* A call takes a slot.
LEMMA ChildTaken ==
  ASSUME IInv, NEW p \in Proc, NEW c \in Proc, pc[p] = "idle", pc[c] \in {"unused", "zombie"},
         loc'[p].child = c, loc'[p].ret \in {"copy", "reap"},
         pc'[c] = IF loc'[p].ret = "copy" THEN "embryo" ELSE "reaped",
         loc'[c] = loc[c], \A q \in Proc \ {p, c} : Same(q)
  PROVE  \A q \in Proc : ChildOK(q)'
PROOF
  <1>1. \A q \in Proc : ChildOK(q) /\ loc[q].child \in Proc
    BY Zenon DEF IInv, Types, LocType
  <1>2. ~HasChild(c)'
    <2>1. loc[c] = NoLocals
      BY Typed, Zenon DEF Good, LocalsOK, Rest
    <2> QED BY <2>1, NoLocalsType, Zenon DEF HasChild
  <1>3. \A q \in Proc \ {p} : HasChild(q)' => /\ q \notin {p, c} /\ HasChild(q) /\ loc'[q] = loc[q]
    BY <1>2, Zenon DEF Same, HasChild
  <1>4. \A q \in Proc \ {p} : HasChild(q)' => loc[q].child \notin {p, c}
    BY <1>1, <1>3 DEF ChildOK, HasChild
  <1>5. \A q \in Proc \ {p} : HasChild(q)' => pc'[loc[q].child] = pc[loc[q].child]
    BY <1>1, <1>4, Zenon DEF Same
  <1>6. ASSUME NEW q \in Proc \ {p}
        PROVE  ChildOK(q)'
    BY <1>1, <1>3, <1>4, <1>5 DEF ChildOK
  <1>7. ChildOK(p)'
    BY <1>3, <1>4, Zenon DEF ChildOK, HasChild
  <1> QED BY <1>6, <1>7, Zenon

\* The end of a failed fork, and of wait: the slot of the child is free.
LEMMA FreeSlotStep ==
  ASSUME IInv, NEW p \in Proc, stopped = "no", pc[p] \in {"kstack", "freevm"}, ~loc[p].own,
         HasChild(p), FreeSlot(p), tmp' = [tmp EXCEPT ![p] = NoVm], held' = held,
         leaked' = leaked, emptied' = emptied, stopped' = stopped, free' = free + 1,
         Count(tmp[p]) + loc[p].stack = 1
  PROVE  IInv'
PROOF
  <1>1. PICK c \in Proc : c = loc[p].child
    BY ChildFacts, Zenon
  <1>2. /\ c # p /\ pc[c] \in {"embryo", "reaped"} /\ loc[c] = NoLocals /\ tmp[c] = NoVm
        /\ vm[c] = NoVm /\ kstack[c] = 0 /\ sz[c] = 0 /\ c \notin emptied
    BY <1>1, ChildFacts, Zenon
  <1>3. vm' = vm /\ sz' = sz /\ kstack' = kstack /\ NoVm \in VmType
    BY MemoryAssumption DEF held, NoVm, VmType
  <1>4. pc' = [pc EXCEPT ![p] = "idle", ![c] = "unused"] /\ loc' = [loc EXCEPT ![p] = NoLocals]
    BY <1>1, Zenon DEF FreeSlot
  <1>5. /\ pc'[p] = "idle" /\ pc'[c] = "unused" /\ loc'[p] = NoLocals /\ loc'[c] = NoLocals
        /\ tmp'[p] = NoVm /\ tmp'[c] = NoVm
    BY <1>2, <1>4, Zenon DEF IInv, Types
  <1>6. \A q \in Proc \ {p, c} : Same(q)
    BY <1>3, <1>4, Zenon DEF IInv, Types, Same
  <1>7. Types'
    BY <1>3, <1>4, NoLocalsType DEF IInv, Types, Where, Rest
  <1>8. \A q \in Proc : ChildOK(q)'
    BY <1>1, <1>2, <1>5, <1>6, ChildGiven, NoLocalsType DEF HasChild
  <1>9. Good(p)'
    <2>1. LocalsOK(p)' /\ TmpOK(p)'
      BY <1>5, NoLocalsType, Zenon DEF LocalsOK, TmpOK, Rest
    <2>2. ImageOK(p)' /\ PagesOK(p)'
      BY <1>3, <1>5, Typed, NoLocalsType, Zenon DEF Good, ImageOK, PagesOK, Bare
    <2> QED BY <2>1, <2>2, Zenon DEF Good
  <1>10. Good(c)'
    <2>1. LocalsOK(c)' /\ TmpOK(c)'
      BY <1>5, NoLocalsType, Zenon DEF LocalsOK, TmpOK, Rest
    <2>2. ImageOK(c)' /\ PagesOK(c)'
      BY <1>2, <1>3, <1>5, Typed, NoLocalsType, Zenon DEF Good, ImageOK, PagesOK, Bare
    <2> QED BY <2>1, <2>2, Zenon DEF Good
  <1>11. KeptBy(p, c)
    <2>1. By \in [Proc -> Nat]
      BY <1>7, ByBoth, Zenon
    <2>2. Count(vm[p]) \in Nat /\ kstack[p] \in Nat /\ free \in Nat /\ leaked \in Nat
          /\ Count(tmp[p]) \in Nat /\ loc[p].stack \in Nat
      BY Typed, CountFacts DEF LocType
    <2>3. Count(NoVm) = 0
      BY FS_EmptySet DEF NoVm, Count
    <2>4. By'[c] = By[c]
      BY <1>2, <1>3, <1>5 DEF By
    <2>5. By[p] = Count(vm[p]) + kstack[p] + Count(tmp[p]) + loc[p].stack
      BY Zenon DEF By
    <2>6. By'[p] = Count(vm[p]) + kstack[p] + 0 + 0
      BY <1>3, <1>5, <2>3, NoLocalsType, Zenon DEF By
    <2>7. By[p] = By'[p] + 1
      BY <2>2, <2>5, <2>6
    <2>8. By[c] \in Nat /\ By[p] \in Nat /\ By'[p] \in Nat
      BY <2>1, <2>2, <2>6
    <2> QED BY <2>2, <2>4, <2>7, <2>8 DEF KeptBy
  <1>12. NoPanic'
    BY Zenon DEF NoPanic
  <1> QED BY <1>2, <1>6, <1>7, <1>8, <1>9, <1>10, <1>11, <1>12, TwoProc, Zenon

\* A failed fork, and wait, free a kernel stack (proc.c:139, 224).
LEMMA KstackStep ==
  ASSUME IInv, NEW p \in Proc, Kstack(p)
  PROVE  IInv'
PROOF
  <1> DEFINE l == [loc[p] EXCEPT !.stack = 0]
  <1>1. /\ pc[p] = "kstack" /\ stopped = "no" /\ free' = free + 1
        /\ IF loc[p].ret = "reap" THEN Goto(p, "freevm", l) ELSE FreeSlot(p)
        /\ held' = held /\ tmp' = tmp /\ leaked' = leaked /\ emptied' = emptied /\ stopped' = stopped
    BY Zenon DEF Kstack, At, kfree
  <1>2. /\ loc[p] \in LocType /\ tmp[p] \in VmType /\ Good(p) /\ ~loc[p].own /\ loc[p].stack = 1
        /\ loc[p].ret \in {"copy", "reap"} /\ free \in Nat /\ leaked \in Nat
    BY <1>1, Typed, Zenon DEF Good, LocalsOK
  <1>3. vm' = vm /\ sz' = sz /\ kstack' = kstack /\ tmp' = [tmp EXCEPT ![p] = tmp[p]]
    BY <1>1, Zenon DEF held, IInv, Types
  <1>4. CASE loc[p].ret = "reap"
    <2>1. /\ l \in LocType /\ l.stack = 0 /\ l.ret = loc[p].ret /\ l.child = loc[p].child
          /\ l.own = loc[p].own
      BY <1>2, Zenon DEF LocType
    <2>2. pc'[p] = "freevm" /\ loc'[p] = l /\ Goto(p, "freevm", l)
      BY <1>1, <1>4, GotoFacts, Zenon
    <2> HIDE DEF l
    <2>3. LocalsOK(p)' /\ ImageOK(p)'
      BY <1>1, <1>2, <1>3, <1>4, <2>1, <2>2, Zenon DEF Good, LocalsOK, ImageOK, Rest, Bare
    <2>4. TmpOK(p)' /\ PagesOK(p)'
      BY <1>1, <1>2, <1>3, <1>4, <2>1, <2>2, Zenon DEF Good, TmpOK, PagesOK
    <2>5. Good(p)'
      BY <2>3, <2>4, Zenon DEF Good
    <2>6. free' \in Nat /\ leaked' \in Nat /\ KeptTmp(p, tmp[p], l)
      <3>1. Count(tmp[p]) \in Nat
        BY <1>2, CountFacts, Zenon
      <3> QED BY <1>1, <1>2, <2>1, <3>1 DEF KeptTmp
    <2> QED BY <1>1, <1>2, <1>3, <2>1, <2>2, <2>5, <2>6, TmpStep, Zenon DEF Where
  <1>5. CASE loc[p].ret # "reap"
    <2>1. tmp[p] = NoVm /\ HasChild(p) /\ FreeSlot(p)
      BY <1>1, <1>2, <1>5, Zenon DEF Good, TmpOK, HasChild
    <2>2. Count(tmp[p]) + loc[p].stack = 1
      BY <1>2, <2>1, FS_EmptySet DEF NoVm, Count
    <2> QED BY <1>1, <1>2, <1>3, <2>1, <2>2, FreeSlotStep, Zenon
  <1> QED BY <1>4, <1>5, Zenon

\* A process in freevm.
LEMMA FreevmFacts ==
  ASSUME IInv, NEW p \in Proc, pc[p] = "freevm"
  PROVE  /\ ImageOK(p) /\ loc[p] \in LocType /\ tmp[p] \in VmType /\ Space(p) = tmp[p]
         /\ ~loc[p].own /\ loc[p].ret \in {"copy", "reap", "idle"} /\ tmp[p].dir = 1
         /\ loc[p].stack = IF loc[p].ret = "copy" THEN 1 ELSE 0
         /\ vm[p].pages \subseteq Below(sz[p]) /\ (p \notin emptied => vm[p].pages = Below(sz[p]))
PROOF
  <1>1. Good(p) /\ loc[p] \in LocType /\ tmp[p] \in VmType
    BY Typed, Zenon
  <1>2. /\ ~loc[p].own /\ loc[p].ret \in {"copy", "reap", "idle"} /\ Space(p) = tmp[p]
        /\ loc[p].stack = IF loc[p].ret = "copy" THEN 1 ELSE 0
    BY <1>1, Zenon DEF Good, LocalsOK, Space
  <1>3. tmp[p].dir = 1
    BY <1>1, <1>2, Zenon DEF Good, TmpOK
  <1> QED BY <1>1, <1>2, <1>3, Zenon DEF Good, PagesOK

\* A round of freevm: a page, a table, or at last the directory.
LEMMA FreevmStep ==
  ASSUME IInv, NEW p \in Proc, Freevm(p)
  PROVE  IInv'
PROOF
  <1>1. pc[p] = "freevm" /\ stopped = "no"
    BY Zenon DEF Freevm, At
  <1>2. /\ USERTOP \in Nat /\ KTABS \in Nat /\ free \in Nat /\ leaked \in Nat /\ 0 \in Nat
        /\ tmp[p].tabs \in 0..KTABS /\ tmp[p].dir = 1 /\ tmp[p].pages \subseteq UPage
        /\ Count(tmp[p]) \in Nat /\ loc[p].stack \in {0, 1}
    <2>1. USERTOP \in Nat /\ KTABS \in Nat
      BY MemoryAssumption, Zenon
    <2>2. Count(tmp[p]) \in Nat /\ free \in Nat /\ leaked \in Nat
      BY Typed, CountFacts, Zenon
    <2> QED BY <1>1, <2>1, <2>2, FreevmFacts, Zenon DEF VmType, LocType
  <1>3. NoVm \in VmType /\ Count(NoVm) = 0
    BY <1>2, FS_EmptySet DEF NoVm, VmType, Count
  <1>4. held' = held => vm' = vm /\ sz' = sz /\ kstack' = kstack
    BY Zenon DEF held
  <1>5. CASE Deallocuvm(p, 0, USERTOP)
    BY <1>1, <1>2, <1>5, DeallocuvmStep, Zenon
  <1>6. ASSUME Deallocated(p, 0, USERTOP)
        PROVE  tmp[p].pages = {} /\ Count(tmp[p]) = 1 + tmp[p].tabs
    <2>1. tmp[p].pages = {}
      BY <1>1, <1>2, <1>6, DeallocFacts, Ends, FreevmFacts, Zenon
    <2>2. Count(tmp[p]) = 1 + tmp[p].tabs + 0
      BY <1>2, <2>1, FS_EmptySet, Zenon DEF Count
    <2>3. tmp[p].tabs \in Nat
      BY <1>2
    <2> QED BY <2>1, <2>2, <2>3
  <1>7. CASE /\ Deallocated(p, 0, USERTOP) /\ tmp[p].tabs > 0
             /\ kfree /\ tmp' = [tmp EXCEPT ![p].tabs = @ - 1]
             /\ UNCHANGED <<held, pc, loc, leaked, emptied, stopped>>
    <2>1. PICK t : t = [tmp[p] EXCEPT !.tabs = @ - 1]
      BY Zenon
    <2>2. t \in VmType /\ t.dir = 1 /\ t.pages = tmp[p].pages /\ t.tabs + 1 = tmp[p].tabs /\ t.tabs \in Nat
      BY <1>1, <1>2, <1>7, <2>1, FreevmFacts DEF VmType
    <2>3. Count(t) + 1 = Count(tmp[p]) /\ Count(t) \in Nat
      <3>1. Count(t) = 1 + t.tabs + 0
        BY <1>6, <1>7, <2>2, FS_EmptySet, Zenon DEF Count
      <3>2. Count(tmp[p]) = 1 + tmp[p].tabs
        BY <1>6, <1>7, Zenon
      <3> QED BY <2>2, <3>1, <3>2
    <2>4. tmp' = [tmp EXCEPT ![p] = t] /\ tmp'[p] = t
      BY <1>7, <2>1, Zenon DEF IInv, Types
    <2>5. free' \in Nat /\ leaked' \in Nat /\ KeptTmp(p, t, loc[p])
      BY <1>2, <1>7, <2>3 DEF kfree, KeptTmp
    <2>6. LocalsOK(p)' /\ ImageOK(p)'
      BY <1>1, <1>4, <1>7, FreevmFacts, Zenon DEF LocalsOK, ImageOK, Rest, Bare
    <2>7. TmpOK(p)' /\ PagesOK(p)'
      BY <1>1, <1>4, <1>7, <2>2, <2>4, FreevmFacts, Zenon DEF TmpOK, PagesOK
    <2>8. Good(p)' /\ Goto(p, "freevm", loc[p])
      BY <1>1, <1>7, <2>6, <2>7, Zenon DEF Good, Goto, IInv, Types
    <2>9. loc[p] \in LocType /\ "freevm" \in Where
      BY Typed, Zenon DEF Where
    <2> QED BY <1>1, <1>7, <2>2, <2>4, <2>5, <2>8, <2>9, TmpStep, Zenon
  <1>8. CASE /\ Deallocated(p, 0, USERTOP) /\ tmp[p].tabs = 0
             /\ kfree /\ tmp' = [tmp EXCEPT ![p] = NoVm]
             /\ \/ loc[p].stack = 1 /\ Goto(p, "kstack", loc[p])
                \/ loc[p].stack = 0 /\ loc[p].ret # "reap" /\ Done(p)
                \/ loc[p].stack = 0 /\ loc[p].ret = "reap" /\ FreeSlot(p)
             /\ UNCHANGED <<held, leaked, emptied, stopped>>
    <2>1. Count(tmp[p]) = 1
      <3>1. Count(tmp[p]) = 1 + tmp[p].tabs /\ tmp[p].tabs = 0
        BY <1>6, <1>8, Zenon
      <3> QED BY <3>1
    <2>2. CASE loc[p].stack = 0 /\ loc[p].ret = "reap"
      <3>1. HasChild(p) /\ FreeSlot(p) /\ free' = free + 1 /\ Count(tmp[p]) + loc[p].stack = 1
        BY <1>8, <2>1, <2>2 DEF HasChild, kfree
      <3> QED BY <1>1, <1>8, <3>1, FreevmFacts, FreeSlotStep, Zenon
    <2>3. CASE ~(loc[p].stack = 0 /\ loc[p].ret = "reap")
      <3>1. PICK w \in {"kstack", "idle"}, l \in LocType :
              /\ Goto(p, w, l) /\ l.stack = loc[p].stack /\ ~l.own
              /\ w = "kstack" => l = loc[p] /\ loc[p].ret = "copy"
              /\ w = "idle" => l = NoLocals
        <4>1. CASE loc[p].stack = 1
          BY <1>1, <1>8, <4>1, FreevmFacts
        <4>2. CASE loc[p].stack = 0
          BY <1>1, <1>8, <2>3, <4>2, NoLocalsType DEF Done
        <4> QED BY <1>2, <4>1, <4>2, Zenon
      <3>2. pc'[p] = w /\ loc'[p] = l /\ tmp'[p] = NoVm
        BY <1>8, <3>1, GotoFacts, Zenon DEF IInv, Types
      <3>3. leaked' \in Nat /\ free' \in Nat /\ KeptTmp(p, NoVm, l)
        BY <1>2, <1>3, <1>8, <2>1, <3>1 DEF KeptTmp, kfree
      <3>4. LocalsOK(p)'
        BY <1>1, <3>1, <3>2, FreevmFacts, NoLocalsType, Zenon DEF LocalsOK, Rest
      <3>5. ImageOK(p)'
        BY <1>1, <1>4, <1>8, <3>1, <3>2, FreevmFacts, Zenon DEF ImageOK, Bare
      <3>6. TmpOK(p)'
        BY <3>1, <3>2, NoLocalsType, Zenon DEF TmpOK
      <3>7. PagesOK(p)'
        BY <1>1, <1>4, <1>8, <3>1, <3>2, FreevmFacts, Zenon DEF PagesOK
      <3>8. Good(p)' /\ w \in Where
        BY <3>4, <3>5, <3>6, <3>7, Zenon DEF Good, Where, Rest
      <3>9. l.ret \in {"copy", "reap"} => l.ret = loc[p].ret /\ l.child = loc[p].child
        BY <3>1, NoLocalsType, Zenon
      <3> QED BY <1>1, <1>3, <1>8, <3>1, <3>3, <3>8, <3>9, TmpStep, Zenon
    <2> QED BY <2>2, <2>3, Zenon
  <1> QED BY <1>5, <1>7, <1>8, Zenon DEF Freevm

=============================================================================
