---------------------------- MODULE MemoryFacts -----------------------------
(* The inductive invariant IInv of Memory, which says what the locals of a   *)
(* call, and the image in its hands, are at each of its steps; lemmas about  *)
(* pages, sums over the processes and steps that leave the others alone; and *)
(* the steps of sbrk, growproc, allocuvm and deallocuvm preserve IInv.       *)
EXTENDS Memory, FiniteSetTheorems, TLAPS

-----------------------------------------------------------------------------
\* The user pages below an address, and the addresses where a page starts.
Below(a) == {u \in UPage : u * PGSIZE < a}
Aligned(a) == \E k \in 0..a : a = k * PGSIZE

\* Slots without an image.
Bare == {"unused", "embryo", "reaped"}

\* What the locals of a call can be at each of its steps.
LocalsOK(p) ==
  LET l == loc[p] IN
  /\ pc[p] \in Rest => l = NoLocals /\ tmp[p] = NoVm
  /\ pc[p] = "shrink" => l.own
  /\ l.own => pc[p] \in {"shrink", "alloc", "undo"} /\ l.ret = "idle" /\ tmp[p] = NoVm
  /\ pc[p] \in {"alloc", "undo"} => l.own \/ l.ret \in {"load", "args"}
  /\ pc[p] = "setup" => l.ret \in {"copy", "segment"} /\ l.a = 0 /\ l.size = 0
  /\ pc[p] = "segment" => l.ret \in {"segment", "idle"}
  /\ pc[p] = "load" => l.ret \in {"segment", "idle", "load"}
  /\ pc[p] = "args" => l.ret = "args"
  /\ pc[p] = "copy" => l.ret = "copy"
  /\ pc[p] = "freevm" => l.ret \in {"copy", "reap", "idle"}
  /\ pc[p] = "kstack" => l.ret \in {"copy", "reap"}
  /\ l.stack = IF l.ret = "copy" \/ (l.ret = "reap" /\ pc[p] = "kstack") THEN 1 ELSE 0

\* A process has an image and a kernel stack from fork to wait.
ImageOK(p) ==
  IF pc[p] \in Bare THEN vm[p] = NoVm /\ kstack[p] = 0 /\ sz[p] = 0 /\ p \notin emptied
  ELSE vm[p].dir = 1 /\ vm[p].tabs = KTABS /\ kstack[p] = 1

\* The directory and the tables of the image that a call builds or frees.
TmpOK(p) ==
  LET t == tmp[p] IN
  /\ pc[p] = "setup" => t.pages = {} /\ (t.dir = 0 => t.tabs = 0)
  /\ (pc[p] \in {"segment", "load", "args", "copy"} \/ (pc[p] \in {"alloc", "undo"} /\ ~loc[p].own))
       => t.dir = 1 /\ t.tabs = KTABS
  /\ pc[p] = "freevm" \/ (pc[p] = "kstack" /\ loc[p].ret = "reap") => t.dir = 1
  /\ pc[p] = "kstack" /\ loc[p].ret = "copy" => t = NoVm

\* The pages that sz covers are mapped, exactly these when nobody emptied it.
Exact(p) == ~(loc[p].own /\ p \in emptied)

PagesOK(p) ==
  LET l == loc[p]  pages == Space(p).pages IN
  /\ ~l.own => vm[p].pages \subseteq Below(sz[p]) /\ (p \notin emptied => vm[p].pages = Below(sz[p]))
  /\ l.own => l.old = sz[p]
  /\ pc[p] = "shrink" =>
       l.new < l.old /\ pages \subseteq Below(l.old) /\ (Exact(p) => Below(l.new) \subseteq pages)
  /\ pc[p] = "alloc" =>
       /\ l.old <= l.new /\ l.old <= l.a /\ l.a < l.new + PGSIZE /\ Aligned(l.a)
       /\ pages \subseteq Below(l.a) /\ (Exact(p) => pages = Below(l.a))
  /\ pc[p] = "undo" =>
       l.old <= l.new /\ pages \subseteq Below(l.new) /\ (Exact(p) => Below(l.old) \subseteq pages)
  /\ pc[p] \in {"segment", "load", "args"} => pages = Below(l.size)
  /\ pc[p] = "copy" => Aligned(l.a) /\ l.a < sz[p] + PGSIZE /\ pages = Below(l.a)

\* A fork and a wait have a slot of their own in hand.
HasChild(p) == loc[p].ret \in {"copy", "reap"}
ChildOK(p) ==
  HasChild(p) => /\ pc[loc[p].child] = IF loc[p].ret = "copy" THEN "embryo" ELSE "reaped"
                 /\ \A q \in Proc : HasChild(q) /\ loc[q].child = loc[p].child => q = p

VmType == [dir : {0, 1}, tabs : 0..KTABS, pages : SUBSET UPage]
Where == Rest \cup {"shrink", "alloc", "undo", "setup", "segment", "load", "args", "copy", "freevm", "kstack"}
Rets == {"idle", "segment", "load", "args", "copy", "reap"}
LocType == [a : Nat, old : 0..USERTOP, new : 0..USERTOP, own : BOOLEAN, ret : Rets,
            size : 0..USERTOP, segs : 0..NSEG, child : Proc, stack : {0, 1}]
Types ==
  /\ free \in Nat /\ leaked \in Nat /\ sz \in [Proc -> 0..USERTOP] /\ kstack \in [Proc -> {0, 1}]
  /\ vm \in [Proc -> VmType] /\ tmp \in [Proc -> VmType]
  /\ pc \in [Proc -> Where] /\ loc \in [Proc -> LocType] /\ emptied \subseteq Proc

By == [p \in Proc |-> Count(vm[p]) + kstack[p] + Count(tmp[p]) + loc[p].stack]

Good(p) == LocalsOK(p) /\ ImageOK(p) /\ TmpOK(p) /\ PagesOK(p)
IInv ==
  /\ Types /\ (\A p \in Proc : Good(p)) /\ (\A p \in Proc : ChildOK(p))
  /\ free + leaked + Total(By) = NPAGE /\ NoPanic

-----------------------------------------------------------------------------
(* Addresses and pages.                                                      *)

\* Division with remainder.
LEMMA DivFacts ==
  ASSUME NEW n \in Nat
  PROVE  /\ n \div PGSIZE \in Nat
         /\ (n \div PGSIZE) * PGSIZE <= n /\ n < (n \div PGSIZE) * PGSIZE + PGSIZE
PROOF BY MemoryAssumption

\* A multiple of a page, divided.
LEMMA DivMult ==
  ASSUME NEW k \in Nat
  PROVE  (k * PGSIZE) \div PGSIZE = k
PROOF BY MemoryAssumption

\* Multiples compare as their factors do.
LEMMA MultLess ==
  ASSUME NEW j \in Nat, NEW k \in Nat, j * PGSIZE < k * PGSIZE
  PROVE  j * PGSIZE + PGSIZE <= k * PGSIZE /\ j + 1 <= k
PROOF
  <1>1. PGSIZE \in Nat /\ PGSIZE > 0
    BY MemoryAssumption
  <1>2. CASE j + 1 <= k
    <2>1. PICK d \in Nat : k = j + 1 + d
      BY <1>2
    <2>2. k * PGSIZE = j * PGSIZE + PGSIZE + d * PGSIZE /\ d * PGSIZE >= 0
      BY <1>1, <2>1
    <2> QED BY <1>1, <1>2, <2>2
  <1>3. CASE k <= j
    <2>1. PICK d \in Nat : j = k + d
      BY <1>3
    <2>2. j * PGSIZE = k * PGSIZE + d * PGSIZE /\ d * PGSIZE >= 0
      BY <1>1, <2>1
    <2> QED BY <1>1, <2>2
  <1> QED BY <1>2, <1>3

\* User memory is a whole number of pages.
LEMMA UserTop == USERTOP = (USERTOP \div PGSIZE) * PGSIZE /\ USERTOP \div PGSIZE \in Nat
PROOF BY MemoryAssumption

\* A whole number of pages below USERTOP are user pages.
LEMMA UserPage ==
  ASSUME NEW k \in Nat, k * PGSIZE < USERTOP
  PROVE  k \in UPage
PROOF
  <1>1. USERTOP \in Nat /\ PGSIZE \in Nat /\ PGSIZE > 0
    BY MemoryAssumption
  <1>2. USERTOP = (USERTOP \div PGSIZE) * PGSIZE /\ USERTOP \div PGSIZE \in Nat
    BY UserTop, Zenon
  <1>3. k + 1 <= USERTOP \div PGSIZE
    BY <1>2, MultLess, Zenon
  <1> QED BY <1>1, <1>2, <1>3 DEF UPage

\* PGROUNDUP gives the least start of a page that is not below its argument.
LEMMA RoundUp ==
  ASSUME NEW n \in Nat
  PROVE  /\ PGROUNDUP(n) \in Nat /\ n <= PGROUNDUP(n) /\ PGROUNDUP(n) < n + PGSIZE
         /\ Aligned(PGROUNDUP(n))
PROOF
  <1>1. PGSIZE \in Nat /\ PGSIZE > 0 /\ n + PGSIZE - 1 \in Nat
    BY MemoryAssumption
  <1>2. /\ (n + PGSIZE - 1) \div PGSIZE \in Nat
        /\ PGROUNDUP(n) <= n + PGSIZE - 1 /\ n + PGSIZE - 1 < PGROUNDUP(n) + PGSIZE
    BY <1>1, DivFacts, Zenon DEF PGROUNDUP
  <1>3. PICK k \in Nat : k = (n + PGSIZE - 1) \div PGSIZE
    BY <1>2, Zenon
  <1>4. PGROUNDUP(n) = k * PGSIZE
    BY <1>3, Zenon DEF PGROUNDUP
  <1>5. k * PGSIZE \in Nat /\ k <= k * PGSIZE
    BY <1>1
  <1> QED BY <1>1, <1>2, <1>4, <1>5 DEF Aligned

\* The pages that start below an address and below the end of its page.
LEMMA BelowSame ==
  ASSUME NEW n \in Nat, NEW a \in Nat, Aligned(a), n <= a, a < n + PGSIZE
  PROVE  Below(a) = Below(n)
PROOF
  <1>1. PGSIZE \in Nat /\ PGSIZE > 0
    BY MemoryAssumption
  <1>2. PICK k \in Nat : a = k * PGSIZE
    BY DEF Aligned
  <1>3. ASSUME NEW u \in UPage, u * PGSIZE < a
        PROVE  u * PGSIZE < n
    <2>1. u \in Nat /\ u * PGSIZE \in Nat
      BY <1>1 DEF UPage
    <2>2. u * PGSIZE + PGSIZE <= a
      BY <1>2, <1>3, <2>1, MultLess, Zenon
    <2> QED BY <1>1, <2>1, <2>2
  <1>4. ASSUME NEW u \in UPage, u * PGSIZE < n
        PROVE  u * PGSIZE < a
    <2>1. u * PGSIZE \in Nat
      BY <1>1 DEF UPage
    <2> QED BY <1>4, <2>1
  <1> QED BY <1>3, <1>4, Zenon DEF Below

\* PGROUNDUP does not change the pages below.
LEMMA BelowRound ==
  ASSUME NEW n \in Nat
  PROVE  Below(PGROUNDUP(n)) = Below(n)
PROOF BY RoundUp, BelowSame, Zenon

\* The next page: the one that starts at an aligned address.
LEMMA NextPage ==
  ASSUME NEW a \in Nat, Aligned(a), a < USERTOP
  PROVE  /\ a \div PGSIZE \in UPage \ Below(a)
         /\ Below(a + PGSIZE) = Below(a) \cup {a \div PGSIZE}
         /\ Aligned(a + PGSIZE) /\ a + PGSIZE \in Nat
         /\ \A n \in Nat : a < n => a \div PGSIZE \in Below(n)
PROOF
  <1>1. PGSIZE \in Nat /\ PGSIZE > 0
    BY MemoryAssumption
  <1>2. PICK k \in Nat : a = k * PGSIZE /\ k <= a
    BY DEF Aligned
  <1>3. a \div PGSIZE = k
    BY <1>2, DivMult, Zenon
  <1>4. k \in UPage /\ k \notin Below(a)
    BY <1>2, UserPage DEF Below
  <1>5. a + PGSIZE = (k + 1) * PGSIZE /\ k + 1 \in 0..(a + PGSIZE)
    BY <1>1, <1>2
  <1>6. ASSUME NEW u \in UPage
        PROVE  u * PGSIZE < a + PGSIZE <=> u * PGSIZE < a \/ u = k
    <2>1. u \in Nat /\ u * PGSIZE \in Nat
      BY <1>1 DEF UPage
    <2>2. ASSUME u * PGSIZE < a + PGSIZE, u # k
          PROVE  u * PGSIZE < a
      <3>1. u + 1 <= k + 1
        BY <1>5, <2>1, <2>2, MultLess
      <3>2. PICK d \in Nat : k = u + 1 + d
        BY <2>1, <2>2, <3>1
      <3>3. k * PGSIZE = u * PGSIZE + PGSIZE + d * PGSIZE /\ d * PGSIZE >= 0
        BY <1>1, <2>1, <3>2
      <3> QED BY <1>1, <1>2, <2>1, <3>3
    <2>3. u * PGSIZE < a => u * PGSIZE < a + PGSIZE
      BY <1>1, <2>1
    <2>4. u = k => u * PGSIZE < a + PGSIZE
      BY <1>1, <1>2
    <2> QED BY <2>2, <2>3, <2>4, Zenon
  <1>7. Below(a + PGSIZE) = Below(a) \cup {k}
    BY <1>4, <1>6, Zenon DEF Below
  <1>8. Aligned(a + PGSIZE)
    BY <1>5, Zenon DEF Aligned
  <1>9. \A n \in Nat : a < n => k \in Below(n)
    BY <1>2, <1>4, Zenon DEF Below
  <1> QED BY <1>1, <1>3, <1>4, <1>7, <1>8, <1>9

\* The pages of an interval, in terms of the pages below its ends.
LEMMA Between ==
  ASSUME NEW lo \in Nat, NEW hi \in Nat
  PROVE  PagesOf(lo, hi) = Below(hi) \ Below(lo)
PROOF
  <1>0. PGROUNDUP(lo) \in Nat
    BY RoundUp, Zenon
  <1>1. PGSIZE \in Nat /\ PGSIZE > 0
    BY MemoryAssumption
  <1>2. ASSUME NEW u \in UPage
        PROVE  PGROUNDUP(lo) <= u * PGSIZE <=> u \notin Below(lo)
    <2>1. u * PGSIZE \in Nat
      BY <1>1 DEF UPage
    <2>2. u \in Below(lo) <=> u * PGSIZE < PGROUNDUP(lo)
      BY BelowRound, Zenon DEF Below
    <2> QED BY <1>0, <2>1, <2>2
  <1> QED BY <1>2, Zenon DEF PagesOf, Below

\* No page is below 0, and every user page is below USERTOP.
LEMMA Ends == Below(0) = {} /\ Below(USERTOP) = UPage
PROOF
  <1>1. PGSIZE \in Nat /\ PGSIZE > 0 /\ USERTOP \in Nat
    BY MemoryAssumption
  <1>2. ASSUME NEW u \in UPage
        PROVE  ~(u * PGSIZE < 0) /\ u * PGSIZE < USERTOP
    <2>1. PICK k \in Nat : k = USERTOP \div PGSIZE /\ USERTOP = k * PGSIZE
      BY UserTop, Zenon
    <2>2. u \in Nat /\ u + 1 <= k
      BY <2>1 DEF UPage
    <2>3. PICK d \in Nat : k = u + 1 + d
      BY <2>2
    <2>4. k * PGSIZE = u * PGSIZE + PGSIZE + d * PGSIZE /\ d * PGSIZE >= 0 /\ u * PGSIZE >= 0
      BY <1>1, <2>2, <2>3
    <2> QED BY <1>1, <2>1, <2>2, <2>4
  <1> QED BY <1>2, Zenon DEF Below

\* A smaller address has fewer pages below it.
LEMMA BelowMono ==
  ASSUME NEW m \in Nat, NEW n \in Nat, m <= n
  PROVE  Below(m) \subseteq Below(n)
PROOF BY MemoryAssumption DEF Below, UPage

\* There are finitely many user pages.
LEMMA UPageFinite == IsFiniteSet(UPage) /\ UPage \subseteq Nat
PROOF
  <1>1. PICK k \in Nat : k = USERTOP \div PGSIZE
    BY MemoryAssumption, DivFacts, Zenon
  <1>2. UPage = 0..(k - 1) /\ k - 1 \in Int
    BY <1>1 DEF UPage
  <1>3. IsFiniteSet(0..(k - 1))
    BY <1>2, FS_Interval
  <1> QED BY <1>2, <1>3

\* deallocuvm takes one of the pages that it finds.
LEMMA MinIn ==
  ASSUME NEW S, S \subseteq UPage, S # {}
  PROVE  Min(S) \in S
PROOF
  <1>1. S \subseteq Nat
    BY UPageFinite, Zenon
  <1>2. PICK x \in S : \A y \in S : ~(<<y, x>> \in OpToRel(<, Nat))
    BY <1>1, NatLessThanWellFounded, WFMin, Zenon
  <1>3. ASSUME NEW y \in S
        PROVE  x <= y
    <2>1. x \in Nat /\ y \in Nat
      BY <1>1, Zenon
    <2>2. ~(y < x)
      BY <1>2, <2>1, Zenon DEF OpToRel
    <2> QED BY <2>1, <2>2
  <1> QED BY <1>3, Zenon DEF Min

-----------------------------------------------------------------------------
(* Sums over the processes, and the pages of an image.                       *)

\* A sum is the term of one process and the terms of the others.
LEMMA TotalSplit ==
  ASSUME NEW f \in [Proc -> Nat], NEW p \in Proc
  PROVE  LET others == UNION {{q} \X (1..f[q]) : q \in Proc \ {p}} IN
         IsFiniteSet(others) /\ Total(f) = Cardinality(others) + f[p]
PROOF
  <1> DEFINE Units(q) == {q} \X (1..f[q])
             parts == {Units(q) : q \in Proc \ {p}}
             others == UNION parts
  <1>1. ASSUME NEW q \in Proc
        PROVE  IsFiniteSet(Units(q)) /\ Cardinality(Units(q)) = f[q]
    <2>1. f[q] \in Nat
      BY Zenon
    <2>2. IsFiniteSet(1..f[q]) /\ Cardinality(1..f[q]) = f[q]
      BY <2>1, FS_Interval
    <2>3. IsFiniteSet({q}) /\ Cardinality({q}) = 1
      BY FS_Singleton, Zenon
    <2>4. Cardinality(Units(q)) = 1 * f[q] /\ IsFiniteSet(Units(q))
      BY <2>2, <2>3, FS_Product
    <2> QED BY <2>1, <2>4
  <1>2. IsFiniteSet(Proc \ {p})
    BY MemoryAssumption, FS_RemoveElement, Zenon
  <1>3. IsFiniteSet(parts)
    <2>1. PICK g : g = [q \in Proc \ {p} |-> Units(q)]
      BY Zenon
    <2>2. g \in Surjection(Proc \ {p}, parts)
      BY <2>1, Zenon DEF Surjection
    <2> QED BY <1>2, <2>2, FS_Surjection, Zenon DEF ExistsSurjection
  <1>4. IsFiniteSet(others)
    BY <1>1, <1>3, FS_UNION, Zenon
  <1>5. UNION {Units(q) : q \in Proc} = others \cup Units(p) /\ others \cap Units(p) = {}
    OBVIOUS
  <1>6. Cardinality(others \cup Units(p)) = Cardinality(others) + Cardinality(Units(p)) - Cardinality({})
    BY <1>1, <1>4, <1>5, FS_Union
  <1>7. Total(f) = Cardinality(others \cup Units(p))
    BY <1>5, Zenon DEF Total
  <1>8. Cardinality(others) \in Nat
    BY <1>4, FS_CardinalityType, Zenon
  <1> HIDE DEF others, parts, Units
  <1>9. Total(f) = Cardinality(others) + f[p]
    BY <1>1, <1>6, <1>7, <1>8, FS_EmptySet
  <1> QED BY <1>4, <1>9, Zenon DEF others, parts, Units

\* A change of one term changes the sum by as much.
LEMMA TotalOne ==
  ASSUME NEW f \in [Proc -> Nat], NEW g \in [Proc -> Nat], NEW p \in Proc,
         \A q \in Proc \ {p} : g[q] = f[q]
  PROVE  Total(f) \in Nat /\ Total(g) \in Nat /\ Total(g) + f[p] = Total(f) + g[p]
PROOF
  <1> DEFINE others(h) == UNION {{q} \X (1..h[q]) : q \in Proc \ {p}}
  <1>1. others(g) = others(f)
    BY Zenon
  <1>2. Cardinality(others(f)) \in Nat
    BY TotalSplit, FS_CardinalityType, Zenon
  <1>3. Total(f) = Cardinality(others(f)) + f[p]
    BY TotalSplit, Zenon
  <1>4. Total(g) = Cardinality(others(f)) + g[p]
    BY <1>1, TotalSplit, Zenon
  <1>5. f[p] \in Nat /\ g[p] \in Nat
    BY Zenon
  <1> HIDE DEF others
  <1> QED BY <1>2, <1>3, <1>4, <1>5

\* A change of two terms.
LEMMA TotalTwo ==
  ASSUME NEW f \in [Proc -> Nat], NEW g \in [Proc -> Nat], NEW p \in Proc, NEW c \in Proc,
         p # c, \A q \in Proc \ {p, c} : g[q] = f[q]
  PROVE  /\ Total(f) \in Nat /\ Total(g) \in Nat
         /\ Total(g) + f[p] + f[c] = Total(f) + g[p] + g[c]
PROOF
  <1> DEFINE h == [f EXCEPT ![p] = g[p]]
  <1>1. h \in [Proc -> Nat] /\ h[p] = g[p] /\ h[c] = f[c]
    BY Zenon
  <1>2. Total(f) \in Nat /\ Total(h) \in Nat /\ Total(h) + f[p] = Total(f) + g[p]
    BY <1>1, TotalOne, Zenon
  <1>3. \A q \in Proc \ {c} : g[q] = h[q]
    BY Zenon
  <1> HIDE DEF h
  <1>4. Total(g) \in Nat /\ Total(g) + f[c] = Total(h) + g[c]
    BY <1>1, <1>3, TotalOne
  <1>5. f[p] \in Nat /\ f[c] \in Nat /\ g[p] \in Nat /\ g[c] \in Nat
    BY Zenon
  <1> QED BY <1>2, <1>4, <1>5

\* What an image counts, with one page more or less.
LEMMA CountFacts ==
  ASSUME NEW v \in VmType
  PROVE  /\ IsFiniteSet(v.pages) /\ Cardinality(v.pages) \in Nat /\ Count(v) \in Nat
         /\ \A u \in UPage \ v.pages : Count([v EXCEPT !.pages = v.pages \cup {u}]) = Count(v) + 1
         /\ \A u \in v.pages : Count([v EXCEPT !.pages = v.pages \ {u}]) + 1 = Count(v)
PROOF
  <1>1. v.pages \subseteq UPage /\ v.dir \in {0, 1} /\ v.tabs \in Nat
    BY MemoryAssumption DEF VmType
  <1>2. IsFiniteSet(v.pages)
    BY <1>1, UPageFinite, FS_Subset, Zenon
  <1>3. Cardinality(v.pages) \in Nat
    BY <1>2, FS_CardinalityType, Zenon
  <1>4. Count(v) \in Nat
    BY <1>1, <1>3 DEF Count
  <1>5. ASSUME NEW u \in UPage \ v.pages
        PROVE  Count([v EXCEPT !.pages = v.pages \cup {u}]) = Count(v) + 1
    <2>1. Cardinality(v.pages \cup {u}) = Cardinality(v.pages) + 1
      BY <1>2, FS_AddElement, Zenon
    <2> QED BY <1>1, <1>3, <2>1 DEF Count, VmType
  <1>6. ASSUME NEW u \in v.pages
        PROVE  Count([v EXCEPT !.pages = v.pages \ {u}]) + 1 = Count(v)
    <2>1. Cardinality(v.pages \ {u}) = Cardinality(v.pages) - 1
      BY <1>2, FS_RemoveElement, Zenon
    <2> QED BY <1>1, <1>3, <2>1 DEF Count, VmType
  <1> QED BY <1>2, <1>3, <1>4, <1>5, <1>6, Zenon

-----------------------------------------------------------------------------
(* What a step must show of the one or two processes that it changes.        *)

\* A process that a step does not touch.
Same(q) ==
  /\ pc'[q] = pc[q] /\ loc'[q] = loc[q] /\ vm'[q] = vm[q] /\ tmp'[q] = tmp[q]
  /\ sz'[q] = sz[q] /\ kstack'[q] = kstack[q] /\ (q \in emptied' <=> q \in emptied)

\* A step that leaves a process alone leaves what IInv says of it.
LEMMA Frame ==
  ASSUME NEW q \in Proc, Same(q), Good(q)
  PROVE  Good(q)'
PROOF
  <1>1. LocalsOK(q)'
    BY Zenon DEF Same, Good, LocalsOK
  <1>2. ImageOK(q)'
    BY Zenon DEF Same, Good, ImageOK
  <1>3. TmpOK(q)'
    BY Zenon DEF Same, Good, TmpOK
  <1>4. PagesOK(q)'
    <2>1. Space(q)' = Space(q) /\ (Exact(q)' <=> Exact(q))
      BY Zenon DEF Same, Space, Exact
    <2> QED BY <2>1 DEF Same, Good, PagesOK
  <1> QED BY <1>1, <1>2, <1>3, <1>4, Zenon DEF Good

\* The terms of the sum are numbers.
LEMMA ByType ==
  ASSUME NEW v \in [Proc -> VmType], NEW k \in [Proc -> {0, 1}], NEW t \in [Proc -> VmType],
         NEW l \in [Proc -> LocType]
  PROVE  [p \in Proc |-> Count(v[p]) + k[p] + Count(t[p]) + l[p].stack] \in [Proc -> Nat]
PROOF
  <1>1. ASSUME NEW p \in Proc
        PROVE  Count(v[p]) + k[p] + Count(t[p]) + l[p].stack \in Nat
    <2>1. Count(v[p]) \in Nat /\ Count(t[p]) \in Nat
      BY CountFacts, Zenon
    <2>2. k[p] \in Nat /\ l[p].stack \in Nat
      BY DEF LocType
    <2> QED BY <2>1, <2>2
  <1> QED BY <1>1, Zenon

\* The number of pages of each process is a number, before and after a step.
LEMMA ByBoth ==
  ASSUME IInv, Types'
  PROVE  By \in [Proc -> Nat] /\ By' \in [Proc -> Nat]
PROOF
  <1>1. /\ vm \in [Proc -> VmType] /\ kstack \in [Proc -> {0, 1}]
        /\ tmp \in [Proc -> VmType] /\ loc \in [Proc -> LocType]
    BY Zenon DEF IInv, Types
  <1>2. /\ vm' \in [Proc -> VmType] /\ kstack' \in [Proc -> {0, 1}]
        /\ tmp' \in [Proc -> VmType] /\ loc' \in [Proc -> LocType]
    BY Zenon DEF Types, VmType, LocType, UPage, Rets
  <1>3. By \in [Proc -> Nat]
    BY <1>1, ByType DEF By
  <1>4. By' \in [Proc -> Nat]
    BY <1>2, ByType DEF By
  <1> QED BY <1>3, <1>4, Zenon

\* A step of one process, or of two, with the pages that they had before.
Kept(p) == free' + leaked' + By'[p] = free + leaked + By[p]
KeptBy(p, c) == free' + leaked' + By'[p] + By'[c] = free + leaked + By[p] + By[c]

\* A step of p that also changes the slot c, as fork and wait make it.
LEMMA TwoProc ==
  ASSUME IInv, Types', NEW p \in Proc, NEW c \in Proc, p # c,
         \A q \in Proc \ {p, c} : Same(q), Good(p)', Good(c)',
         \A q \in Proc : ChildOK(q)', NoPanic', KeptBy(p, c)
  PROVE  IInv'
PROOF
  <1>1. \A q \in Proc : Good(q)'
    BY Frame, Zenon DEF IInv
  <1>2. By \in [Proc -> Nat] /\ By' \in [Proc -> Nat]
    BY ByBoth, Zenon
  <1>3. \A q \in Proc \ {p, c} : By'[q] = By[q]
    BY Zenon DEF By, Same
  <1>4. /\ Total(By) \in Nat /\ Total(By') \in Nat
        /\ Total(By') + By[p] + By[c] = Total(By) + By'[p] + By'[c]
    BY <1>2, <1>3, TotalTwo, Zenon
  <1>5. By[p] \in Nat /\ By[c] \in Nat /\ By'[p] \in Nat /\ By'[c] \in Nat
    BY <1>2, Zenon
  <1>6. free \in Nat /\ leaked \in Nat /\ free' \in Nat /\ leaked' \in Nat /\ NPAGE \in Nat
    BY MemoryAssumption, Zenon DEF IInv, Types
  <1>7. free + leaked + Total(By) = NPAGE
    BY Zenon DEF IInv
  <1>8. free' + leaked' + Total(By') = NPAGE
    <2>1. PICK x \in Nat, x2 \in Nat : x = By[p] + By[c] /\ x2 = By'[p] + By'[c]
      BY <1>5
    <2>2. PICK t \in Nat, t2 \in Nat : t = Total(By) /\ t2 = Total(By')
      BY <1>4, Zenon
    <2>3. PICK f \in Nat : f = free + leaked
      BY <1>6
    <2>7. PICK f2 \in Nat : f2 = free' + leaked'
      <3>1. PICK m \in Nat, n \in Nat : m = free' /\ n = leaked'
        BY <1>6, Zenon
      <3>2. m + n \in Nat
        OBVIOUS
      <3> QED BY <3>1, <3>2, Zenon
    <2>4. t2 + x = t + x2
      BY <1>4, <1>5, <2>1, <2>2
    <2>5. f2 + x2 = f + x
      BY <1>5, <1>6, <2>1, <2>3, <2>7 DEF KeptBy
    <2>6. f2 + t2 = f + t
      BY <2>4, <2>5
    <2> QED BY <1>7, <2>2, <2>3, <2>6, <2>7, Zenon
  <1>9. Total(By)' = Total(By')
    BY Zenon DEF Total, By
  <1> QED BY <1>1, <1>8, <1>9, Zenon DEF IInv

\* A step that changes nothing but what p has, and the free list.
LEMMA OneProc ==
  ASSUME IInv, Types', NEW p \in Proc,
         \A q \in Proc \ {p} : Same(q), Good(p)',
         \A q \in Proc : ChildOK(q)', NoPanic', Kept(p)
  PROVE  IInv'
PROOF
  <1>1. \A q \in Proc : Good(q)'
    BY Frame, Zenon DEF IInv
  <1>2. By \in [Proc -> Nat] /\ By' \in [Proc -> Nat]
    BY ByBoth, Zenon
  <1>3. \A q \in Proc \ {p} : By'[q] = By[q]
    BY Zenon DEF By, Same
  <1>4. /\ Total(By) \in Nat /\ Total(By') \in Nat
        /\ Total(By') + By[p] = Total(By) + By'[p]
    BY <1>2, <1>3, TotalOne, Zenon
  <1>5. By[p] \in Nat /\ By'[p] \in Nat
    BY <1>2, Zenon
  <1>6. free \in Nat /\ leaked \in Nat /\ free' \in Nat /\ leaked' \in Nat /\ NPAGE \in Nat
    BY MemoryAssumption, Zenon DEF IInv, Types
  <1>7. free + leaked + Total(By) = NPAGE
    BY Zenon DEF IInv
  <1>8. free' + leaked' + Total(By') = NPAGE
    BY <1>4, <1>5, <1>6, <1>7 DEF Kept
  <1>9. Total(By)' = Total(By')
    BY Zenon DEF Total, By
  <1> QED BY <1>1, <1>8, <1>9, Zenon DEF IInv

\* A process that keeps its child, or has none, leaves the others theirs.
LEMMA ChildKept ==
  ASSUME IInv, NEW p \in Proc, pc[p] \notin {"embryo", "reaped"},
         \A q \in Proc \ {p} : Same(q),
         HasChild(p)' => loc'[p].ret = loc[p].ret /\ loc'[p].child = loc[p].child
  PROVE  \A q \in Proc : ChildOK(q)'
PROOF
  <1>1. \A q \in Proc : ChildOK(q) /\ loc[q].child \in Proc
    BY Zenon DEF IInv, Types, LocType
  <1>2. \A q \in Proc : HasChild(q)' => /\ HasChild(q) /\ loc'[q].ret = loc[q].ret
                                        /\ loc'[q].child = loc[q].child
    BY Zenon DEF Same, HasChild
  <1>3. \A q \in Proc : HasChild(q) => loc[q].child # p
    BY <1>1 DEF ChildOK, HasChild
  <1>4. \A q \in Proc : HasChild(q) => pc'[loc[q].child] = pc[loc[q].child]
    BY <1>1, <1>3, Zenon DEF Same
  <1> QED BY <1>1, <1>2, <1>4 DEF ChildOK

\* The types of what one process has.
LEMMA Typed ==
  ASSUME IInv, NEW p \in Proc
  PROVE  /\ pc[p] \in Where /\ loc[p] \in LocType /\ vm[p] \in VmType /\ tmp[p] \in VmType
         /\ sz[p] \in 0..USERTOP /\ kstack[p] \in {0, 1} /\ free \in Nat /\ leaked \in Nat
         /\ Good(p)
PROOF BY Zenon DEF IInv, Types

\* A step that moves one process on, with other locals.
LEMMA Jump ==
  ASSUME IInv, NEW p \in Proc, NEW w \in Where, NEW l \in LocType,
         stopped = "no", pc[p] \notin {"embryo", "reaped"}, Goto(p, w, l),
         free' = free, held' = held, tmp' = tmp, leaked' = leaked, emptied' = emptied,
         stopped' = stopped, l.stack = loc[p].stack,
         l.ret \in {"copy", "reap"} => l.ret = loc[p].ret /\ l.child = loc[p].child,
         Good(p)'
  PROVE  IInv'
PROOF
  <1>1. Types'
    BY Zenon DEF IInv, Types, Goto, held
  <1>2. \A q \in Proc \ {p} : Same(q)
    BY Zenon DEF IInv, Types, Goto, held, Same
  <1>3. loc'[p] = l
    BY Zenon DEF IInv, Types, Goto
  <1>4. \A q \in Proc : ChildOK(q)'
    BY <1>2, <1>3, ChildKept, Zenon DEF HasChild
  <1>5. By'[p] = By[p]
    BY <1>3, Zenon DEF By, held
  <1>6. Kept(p) /\ NoPanic'
    BY <1>5, Zenon DEF Kept, NoPanic, IInv
  <1> QED BY <1>1, <1>2, <1>4, <1>6, OneProc, Zenon

\* What SetPages does.
LEMMA SetFacts ==
  ASSUME IInv, NEW p \in Proc, NEW pages \in SUBSET UPage, SetPages(p, pages)
  PROVE  /\ vm' \in [Proc -> VmType] /\ tmp' \in [Proc -> VmType]
         /\ \A q \in Proc \ {p} : vm'[q] = vm[q] /\ tmp'[q] = tmp[q]
         /\ Space(p) \in VmType /\ [Space(p) EXCEPT !.pages = pages] \in VmType
         /\ loc[p].own => vm'[p] = [vm[p] EXCEPT !.pages = pages] /\ tmp'[p] = tmp[p]
         /\ ~loc[p].own => tmp'[p] = [tmp[p] EXCEPT !.pages = pages] /\ vm'[p] = vm[p]
PROOF
  <1>1. /\ vm \in [Proc -> VmType] /\ tmp \in [Proc -> VmType] /\ vm[p] \in VmType
        /\ tmp[p] \in VmType
    BY Zenon DEF IInv, Types
  <1>2. \A v \in VmType : [v EXCEPT !.pages = pages] \in VmType
    BY Zenon DEF VmType
  <1>3. CASE loc[p].own
    <2>1. vm' = [vm EXCEPT ![p] = [vm[p] EXCEPT !.pages = pages]] /\ tmp' = tmp
      BY <1>3, Zenon DEF SetPages
    <2> QED BY <1>1, <1>2, <1>3, <2>1, Zenon DEF Space
  <1>4. CASE ~loc[p].own
    <2>1. tmp' = [tmp EXCEPT ![p] = [tmp[p] EXCEPT !.pages = pages]] /\ vm' = vm
      BY <1>4, Zenon DEF SetPages
    <2> QED BY <1>1, <1>2, <1>4, <2>1, Zenon DEF Space
  <1> QED BY <1>3, <1>4, Zenon

\* Setting the pages of the image in hand leaves its directory and tables.
LEMMA SpaceSet ==
  ASSUME IInv, NEW p \in Proc, NEW pages \in SUBSET UPage, SetPages(p, pages),
         loc'[p].own = loc[p].own
  PROVE  /\ Space(p)' = [Space(p) EXCEPT !.pages = pages]
         /\ loc[p].own => tmp'[p] = tmp[p] /\ vm'[p].dir = vm[p].dir /\ vm'[p].tabs = vm[p].tabs
         /\ ~loc[p].own => vm'[p] = vm[p]
PROOF
  <1>1. /\ loc[p].own => vm'[p] = [vm[p] EXCEPT !.pages = pages] /\ tmp'[p] = tmp[p]
        /\ ~loc[p].own => tmp'[p] = [tmp[p] EXCEPT !.pages = pages] /\ vm'[p] = vm[p]
    BY SetFacts, Zenon
  <1>2. vm[p] \in VmType
    BY Typed, Zenon
  <1> QED BY <1>1, <1>2, Zenon DEF Space, VmType

\* A step that maps or unmaps a page.
KeptIn(p, pages) == free' + Count([Space(p) EXCEPT !.pages = pages]) = free + Count(Space(p))

\* A step of allocuvm or deallocuvm that stays in its loop (vm.c:240, 267).
LEMMA Mapping ==
  ASSUME IInv, NEW p \in Proc, NEW pages \in SUBSET UPage, SetPages(p, pages),
         stopped = "no", pc[p] \notin {"embryo", "reaped"}, NEW l \in LocType,
         Goto(p, pc[p], l), sz' = sz, kstack' = kstack, leaked' = leaked,
         emptied' = emptied, stopped' = stopped,
         l.stack = loc[p].stack, l.ret = loc[p].ret, l.child = loc[p].child,
         free' \in Nat, KeptIn(p, pages), Good(p)'
  PROVE  IInv'
PROOF
  <1>1. Types'
    BY SetFacts, Zenon DEF IInv, Types, Goto
  <1>2. \A q \in Proc \ {p} : Same(q)
    BY SetFacts, Zenon DEF IInv, Types, Goto, Same
  <1>3. loc'[p] = l
    BY Zenon DEF IInv, Types, Goto
  <1>4. \A q \in Proc : ChildOK(q)'
    BY <1>2, <1>3, ChildKept, Zenon DEF HasChild
  <1>5. free' + By'[p] = free + By[p]
    <2>1. /\ By[p] = Count(vm[p]) + kstack[p] + Count(tmp[p]) + loc[p].stack
          /\ By'[p] = Count(vm'[p]) + kstack[p] + Count(tmp'[p]) + loc[p].stack
      BY <1>3, Zenon DEF By
    <2>2. Count(vm[p]) \in Nat /\ Count(tmp[p]) \in Nat /\ Count(vm'[p]) \in Nat /\ Count(tmp'[p]) \in Nat
      BY SetFacts, CountFacts, Typed, Zenon
    <2>3. kstack[p] \in Nat /\ loc[p].stack \in Nat /\ free \in Nat
      BY Typed DEF LocType
    <2>4. free' + Count(vm'[p]) + Count(tmp'[p]) = free + Count(vm[p]) + Count(tmp[p])
      <3>1. CASE loc[p].own
        <4>1. free' + Count(vm'[p]) = free + Count(vm[p]) /\ tmp'[p] = tmp[p]
          BY <3>1, SetFacts, Zenon DEF Space, KeptIn
        <4> QED BY <2>2, <2>3, <4>1, Zenon
      <3>2. CASE ~loc[p].own
        <4>1. free' + Count(tmp'[p]) = free + Count(tmp[p]) /\ vm'[p] = vm[p]
          BY <3>2, SetFacts, Zenon DEF Space, KeptIn
        <4> QED BY <2>2, <2>3, <4>1
      <3> QED BY <3>1, <3>2, Zenon
    <2> QED BY <2>1, <2>2, <2>3, <2>4
  <1>6. Kept(p)
    <2>1. leaked \in Nat /\ leaked' = leaked /\ free \in Nat /\ By[p] \in Nat /\ By'[p] \in Nat
      BY <1>1, ByBoth, Typed, Zenon
    <2> QED BY <1>5, <2>1 DEF Kept
  <1>7. NoPanic'
    BY Zenon DEF NoPanic
  <1> QED BY <1>1, <1>2, <1>4, <1>6, <1>7, OneProc, Zenon

-----------------------------------------------------------------------------
(* sbrk.                                                                     *)

\* The locals of a process that is in no call.
LEMMA NoLocalsType ==
  /\ NoLocals \in LocType /\ NoLocals.own = FALSE /\ NoLocals.ret = "idle"
  /\ NoLocals.stack = 0 /\ NoLocals.a = 0 /\ NoLocals.size = 0
PROOF BY MemoryAssumption DEF NoLocals, LocType, Rets

\* After Goto.
LEMMA GotoFacts ==
  ASSUME IInv, NEW p \in Proc, NEW w, NEW l, Goto(p, w, l)
  PROVE  pc'[p] = w /\ loc'[p] = l
PROOF BY Zenon DEF IInv, Types, Goto

\* A process in no call.
LEMMA IdleFacts ==
  ASSUME IInv, NEW p \in Proc, pc[p] = "idle"
  PROVE  /\ loc[p] = NoLocals /\ tmp[p] = NoVm /\ ImageOK(p)
         /\ vm[p].pages \subseteq Below(sz[p]) /\ (p \notin emptied => vm[p].pages = Below(sz[p]))
PROOF
  <1>1. Good(p)
    BY Typed, Zenon
  <1>2. loc[p] = NoLocals /\ tmp[p] = NoVm
    BY <1>1, Zenon DEF Good, LocalsOK, Rest
  <1> QED BY <1>1, <1>2, NoLocalsType, Zenon DEF Good, PagesOK

\* sbrk calls allocuvm or deallocuvm on its own image (growproc).
LEMMA GrowprocStep ==
  ASSUME IInv, NEW p \in Proc, Growproc(p)
  PROVE  IInv'
PROOF
  <1>1. PICK new \in (0..USERTOP) \ {sz[p]} :
          Goto(p, IF new > sz[p] THEN "alloc" ELSE "shrink",
               [Start(NoLocals, sz[p], new, "idle") EXCEPT !.own = TRUE])
    BY Zenon DEF Growproc
  <1>2. PICK l : l = [Start(NoLocals, sz[p], new, "idle") EXCEPT !.own = TRUE]
    BY Zenon
  <1>3. sz[p] \in 0..USERTOP /\ sz[p] \in Nat /\ new \in Nat /\ PGSIZE \in Nat \ {0}
    BY MemoryAssumption, Typed
  <1>4. /\ l \in LocType /\ l.own = TRUE /\ l.ret = "idle" /\ l.stack = 0
        /\ l.a = PGROUNDUP(sz[p]) /\ l.old = sz[p] /\ l.new = new
    BY <1>2, <1>3, RoundUp, NoLocalsType, Zenon DEF Start, LocType, NoLocals
  <1>5. PICK w \in {"alloc", "shrink"} : w = IF new > sz[p] THEN "alloc" ELSE "shrink"
    BY Zenon
  <1>6. pc[p] = "idle" /\ stopped = "no" /\ Goto(p, w, l)
    BY <1>1, <1>2, <1>5, Zenon DEF Growproc, At
  <1>7. pc'[p] = w /\ loc'[p] = l
    BY <1>6, GotoFacts, Zenon
  <1>8. /\ free' = free /\ held' = held /\ tmp' = tmp /\ leaked' = leaked /\ emptied' = emptied
        /\ stopped' = stopped /\ vm' = vm /\ sz' = sz /\ kstack' = kstack
    BY Zenon DEF Growproc, held
  <1>9. LocalsOK(p)'
    BY <1>4, <1>6, <1>7, <1>8, IdleFacts, Zenon DEF LocalsOK, Rest
  <1>10. ImageOK(p)'
    BY <1>6, <1>7, <1>8, IdleFacts, Zenon DEF ImageOK, Bare
  <1>11. TmpOK(p)'
    BY <1>4, <1>7, Zenon DEF TmpOK
  <1>12. PagesOK(p)'
    <2>1. Space(p)' = vm[p] /\ (Exact(p)' => p \notin emptied)
      BY <1>4, <1>7, <1>8, Zenon DEF Space, Exact
    <2>2. CASE new > sz[p]
      <3>1. w = "alloc" /\ sz[p] <= new /\ l.a < new + PGSIZE /\ sz[p] <= l.a /\ Aligned(l.a)
        BY <1>3, <1>4, <1>5, <2>2, RoundUp
      <3>2. Below(l.a) = Below(sz[p])
        BY <1>3, <1>4, BelowRound, Zenon
      <3> QED BY <1>4, <1>6, <1>7, <1>8, <2>1, <3>1, <3>2, IdleFacts, Zenon DEF PagesOK
    <2>3. CASE ~(new > sz[p])
      <3>1. w = "shrink" /\ new < sz[p]
        BY <1>3, <1>5, <2>3
      <3>2. Below(new) \subseteq Below(sz[p])
        BY <1>3, <3>1, BelowMono
      <3> QED BY <1>4, <1>6, <1>7, <1>8, <2>1, <3>1, <3>2, IdleFacts, Zenon DEF PagesOK
    <2> QED BY <2>2, <2>3, Zenon
  <1>13. Good(p)'
    BY <1>9, <1>10, <1>11, <1>12, Zenon DEF Good
  <1>14. w \in Where /\ l.stack = loc[p].stack
    BY <1>4, <1>6, IdleFacts, NoLocalsType, Zenon DEF Where
  <1> QED BY <1>4, <1>6, <1>8, <1>13, <1>14, Jump, Zenon

\* A process in allocuvm, or undoing it.
LEMMA AllocFacts ==
  ASSUME IInv, NEW p \in Proc, pc[p] \in {"alloc", "undo", "shrink"}
  PROVE  /\ Space(p) \in VmType /\ Space(p).dir = 1 /\ Space(p).tabs = KTABS
         /\ loc[p].own => tmp[p] = NoVm /\ Space(p) = vm[p]
         /\ ~loc[p].own => Space(p) = tmp[p] /\ loc[p].ret \in {"load", "args"}
         /\ loc[p].ret \notin {"copy", "reap"} /\ loc[p].stack = 0
PROOF
  <1>1. Good(p) /\ vm[p] \in VmType /\ tmp[p] \in VmType
    BY Typed, Zenon
  <1>2. CASE loc[p].own
    BY <1>1, <1>2, Zenon DEF Good, LocalsOK, ImageOK, Bare, Space
  <1>3. CASE ~loc[p].own
    BY <1>1, <1>3, Zenon DEF Good, LocalsOK, TmpOK, Space
  <1> QED BY <1>2, <1>3, Zenon

\* A round of allocuvm: no page is mapped twice and none is lost.
LEMMA AllocuvmStep ==
  ASSUME IInv, NEW p \in Proc, Allocuvm(p)
  PROVE  IInv'
PROOF
  <1> DEFINE l == loc[p]
             u == loc[p].a \div PGSIZE
             m == [loc[p] EXCEPT !.a = @ + PGSIZE]
             k == [loc[p] EXCEPT !.a = 0]
  <1>1. pc[p] = "alloc" /\ stopped = "no" /\ l.a < l.new
    BY Zenon DEF Allocuvm, At
  <1>2. /\ l \in LocType /\ l.a \in Nat /\ l.old \in Nat /\ l.new \in Nat /\ l.new <= USERTOP
        /\ PGSIZE \in Nat \ {0} /\ USERTOP \in Nat /\ KTABS > 0 /\ free \in Nat
    BY MemoryAssumption, Typed DEF LocType
  <1>3. /\ l.old <= l.new /\ l.old <= l.a /\ l.a < l.new + PGSIZE /\ Aligned(l.a)
        /\ Space(p).pages \subseteq Below(l.a) /\ (Exact(p) => Space(p).pages = Below(l.a))
    BY <1>1, Typed, Zenon DEF Good, PagesOK
  <1>4. /\ u \in UPage /\ u \notin Below(l.a) /\ Below(l.a + PGSIZE) = Below(l.a) \cup {u}
        /\ Aligned(l.a + PGSIZE)
    BY <1>1, <1>2, <1>3, NextPage
  <1>5. Space(p).tabs # 0 /\ u \notin Space(p).pages
    BY <1>1, <1>2, <1>3, <1>4, AllocFacts
  <1>6. /\ m \in LocType /\ m.a = l.a + PGSIZE /\ m.old = l.old /\ m.new = l.new /\ m.own = l.own
        /\ m.ret = l.ret /\ m.stack = l.stack /\ m.child = l.child
    BY <1>2 DEF LocType
  <1>7. /\ k \in LocType /\ k.old = l.old /\ k.new = l.new /\ k.own = l.own
        /\ k.ret = l.ret /\ k.stack = l.stack /\ k.child = l.child
    BY <1>2, Zenon DEF LocType
  <1>8. \/ /\ kalloc /\ SetPages(p, Space(p).pages \cup {u}) /\ Goto(p, "alloc", m)
           /\ UNCHANGED <<sz, kstack, leaked, emptied, stopped>>
        \/ /\ Goto(p, "undo", k)
           /\ UNCHANGED <<free, held, tmp, leaked, emptied, stopped>>
    BY <1>5, Zenon DEF Allocuvm
  <1> HIDE DEF l, u, m, k
  <1>9. CASE /\ kalloc /\ SetPages(p, Space(p).pages \cup {u}) /\ Goto(p, "alloc", m)
             /\ UNCHANGED <<sz, kstack, leaked, emptied, stopped>>
    <2>1. pc'[p] = "alloc" /\ loc'[p] = m
      BY <1>9, GotoFacts, Zenon
    <2>2. Space(p) \in VmType /\ Space(p).pages \cup {u} \in SUBSET UPage
      BY <1>1, <1>4, AllocFacts, Zenon DEF VmType
    <2>3. /\ Space(p)' = [Space(p) EXCEPT !.pages = Space(p).pages \cup {u}]
          /\ loc[p].own => tmp'[p] = tmp[p] /\ vm'[p].dir = vm[p].dir /\ vm'[p].tabs = vm[p].tabs
          /\ ~loc[p].own => vm'[p] = vm[p]
      <3>1. loc'[p].own = loc[p].own
        BY <1>6, <2>1, Zenon DEF l
      <3> QED BY <1>9, <2>2, <3>1, SpaceSet, Zenon
    <2>4. Space(p)'.pages = Space(p).pages \cup {u} /\ Space(p)'.dir = 1 /\ Space(p)'.tabs = KTABS
      BY <1>1, <2>2, <2>3, AllocFacts, Zenon DEF VmType
    <2>5. LocalsOK(p)'
      <3>1. LocalsOK(p)
        BY Typed, Zenon DEF Good
      <3> QED BY <1>1, <1>6, <2>1, <2>3, <3>1, Zenon DEF LocalsOK, Rest, l
    <2>6. ImageOK(p)'
      <3>1. ImageOK(p)
        BY Typed, Zenon DEF Good
      <3> QED BY <1>1, <1>9, <2>1, <2>3, <3>1, Zenon DEF ImageOK, Bare
    <2>7. TmpOK(p)'
      BY <1>6, <2>1, <2>4, Zenon DEF TmpOK, Space
    <2>8. PagesOK(p)'
      <3>1. PagesOK(p)
        BY Typed, Zenon DEF Good
      <3>2. (Exact(p)' => Exact(p)) /\ emptied' = emptied /\ sz' = sz
        BY <1>6, <1>9, <2>1, Zenon DEF Exact, l
      <3>3. m.a < m.new + PGSIZE /\ m.old <= m.a
        BY <1>1, <1>2, <1>3, <1>6
      <3> QED BY <1>1, <1>3, <1>4, <1>6, <2>1, <2>3, <2>4, <3>1, <3>2, <3>3, Zenon DEF PagesOK, l
    <2>9. Good(p)'
      BY <2>5, <2>6, <2>7, <2>8, Zenon DEF Good
    <2>10. free' \in Nat /\ KeptIn(p, Space(p).pages \cup {u})
      <3>1. Count([Space(p) EXCEPT !.pages = Space(p).pages \cup {u}]) = Count(Space(p)) + 1
        BY <1>4, <1>5, <2>2, CountFacts, Zenon
      <3>2. Count(Space(p)) \in Nat /\ free' \in Nat /\ free' + 1 = free
        BY <1>2, <1>9, <2>2, CountFacts DEF kalloc
      <3> QED BY <1>2, <3>1, <3>2 DEF KeptIn
    <2> QED BY <1>1, <1>6, <1>9, <2>2, <2>9, <2>10, Mapping, Zenon DEF l
  <1>10. CASE /\ Goto(p, "undo", k)
              /\ UNCHANGED <<free, held, tmp, leaked, emptied, stopped>>
    <2>1. pc'[p] = "undo" /\ loc'[p] = k
      BY <1>10, GotoFacts, Zenon
    <2>2. vm' = vm /\ tmp' = tmp /\ sz' = sz /\ kstack' = kstack /\ emptied' = emptied
      BY <1>10, Zenon DEF held
    <2>3. LocalsOK(p)'
      <3>1. LocalsOK(p)
        BY Typed, Zenon DEF Good
      <3> QED BY <1>1, <1>7, <2>1, <2>2, <3>1, Zenon DEF LocalsOK, Rest, l
    <2>4. ImageOK(p)'
      <3>1. ImageOK(p)
        BY Typed, Zenon DEF Good
      <3> QED BY <1>1, <2>1, <2>2, <3>1, Zenon DEF ImageOK, Bare
    <2>5. TmpOK(p)'
      BY <1>1, <1>7, <2>1, <2>2, AllocFacts, Zenon DEF TmpOK, l
    <2>6. PagesOK(p)'
      <3>1. PagesOK(p)
        BY Typed, Zenon DEF Good
      <3>2. (Exact(p)' => Exact(p)) /\ Space(p)' = Space(p)
        BY <1>7, <2>1, <2>2, Zenon DEF Exact, l, Space
      <3>3. Below(l.a) \subseteq Below(l.new) /\ Below(l.old) \subseteq Below(l.a)
        BY <1>1, <1>2, <1>3, BelowMono
      <3> QED BY <1>1, <1>3, <1>7, <2>1, <2>2, <3>1, <3>2, <3>3, Zenon DEF PagesOK, l
    <2>7. Good(p)'
      BY <2>3, <2>4, <2>5, <2>6, Zenon DEF Good
    <2> QED BY <1>1, <1>7, <1>10, <2>7, Jump, Zenon DEF Where, l
  <1> QED BY <1>8, <1>9, <1>10, Zenon

\* The end of sbrk: the process is idle again, with the pages that sz covers.
LEMMA GrowEnd ==
  ASSUME IInv, NEW p \in Proc, stopped = "no", pc[p] \in {"alloc", "undo", "shrink"}, loc[p].own,
         Done(p), vm' = vm, tmp' = tmp, kstack' = kstack, free' = free, leaked' = leaked,
         stopped' = stopped, sz' \in [Proc -> 0..USERTOP],
         \A q \in Proc \ {p} : sz'[q] = sz[q] /\ (q \in emptied' <=> q \in emptied),
         emptied' \subseteq Proc, vm[p].pages \subseteq Below(sz'[p]),
         p \notin emptied' => vm[p].pages = Below(sz'[p])
  PROVE  IInv'
PROOF
  <1>1. pc'[p] = "idle" /\ loc'[p] = NoLocals /\ Goto(p, "idle", NoLocals)
    BY GotoFacts, Zenon DEF Done
  <1>2. Types'
    BY <1>1, NoLocalsType DEF IInv, Types, Goto, Where, Rest
  <1>3. \A q \in Proc \ {p} : Same(q)
    BY <1>1, Zenon DEF IInv, Types, Goto, Same
  <1>4. \A q \in Proc : ChildOK(q)'
    BY <1>1, <1>3, ChildKept, NoLocalsType, Zenon DEF HasChild
  <1>5. LocalsOK(p)'
    BY <1>1, AllocFacts, NoLocalsType, Zenon DEF LocalsOK, Rest
  <1>6. ImageOK(p)'
    BY <1>1, Typed, Zenon DEF Good, ImageOK, Bare
  <1>7. TmpOK(p)' /\ PagesOK(p)'
    BY <1>1, NoLocalsType, Zenon DEF TmpOK, PagesOK
  <1>8. Kept(p)
    <2>1. By'[p] = By[p]
      BY <1>1, AllocFacts, NoLocalsType, Zenon DEF By
    <2> QED BY <2>1, Zenon DEF Kept
  <1>9. NoPanic'
    BY Zenon DEF NoPanic
  <1>10. Good(p)'
    BY <1>5, <1>6, <1>7, Zenon DEF Good
  <1> QED BY <1>2, <1>3, <1>4, <1>8, <1>9, <1>10, OneProc, Zenon

\* allocuvm has mapped all it was asked for (vm.c:250).
LEMMA AllocuvmDoneStep ==
  ASSUME IInv, NEW p \in Proc, AllocuvmDone(p)
  PROVE  IInv'
PROOF
  <1> DEFINE l == loc[p]
             m == [loc[p] EXCEPT !.a = 0, !.old = 0, !.new = 0, !.size = loc[p].new]
  <1>1. /\ pc[p] = "alloc" /\ stopped = "no" /\ l.a >= l.new
        /\ free' = free /\ vm' = vm /\ kstack' = kstack /\ tmp' = tmp /\ leaked' = leaked
        /\ emptied' = emptied /\ stopped' = stopped
    BY Zenon DEF AllocuvmDone, At
  <1>2. /\ l \in LocType /\ l.a \in Nat /\ l.new \in Nat /\ l.new \in 0..USERTOP
    BY Typed DEF LocType
  <1>3. Below(l.a) = Below(l.new)
    <2>1. l.a < l.new + PGSIZE /\ Aligned(l.a)
      BY <1>1, Typed, Zenon DEF Good, PagesOK
    <2> QED BY <1>1, <1>2, <2>1, BelowSame, Zenon
  <1>4. Space(p).pages \subseteq Below(l.new) /\ (Exact(p) => Space(p).pages = Below(l.new))
    BY <1>1, <1>3, Typed, Zenon DEF Good, PagesOK
  <1>5. CASE l.own
    <2>1. sz' = [sz EXCEPT ![p] = l.new] /\ Done(p) /\ sz \in [Proc -> 0..USERTOP]
      BY <1>5, Zenon DEF AllocuvmDone, IInv, Types
    <2>2. /\ sz' \in [Proc -> 0..USERTOP] /\ sz'[p] = l.new
          /\ \A q \in Proc \ {p} : sz'[q] = sz[q]
      BY <1>2, <2>1, Zenon
    <2>3. Space(p) = vm[p] /\ (p \notin emptied => Exact(p)) /\ emptied \subseteq Proc
      BY <1>5, Zenon DEF Space, Exact, IInv, Types
    <2> QED BY <1>1, <1>4, <1>5, <2>1, <2>2, <2>3, GrowEnd, Zenon
  <1>6. CASE ~l.own
    <2>1. Goto(p, l.ret, m) /\ sz' = sz
      BY <1>6, Zenon DEF AllocuvmDone
    <2>2. pc'[p] = l.ret /\ loc'[p] = m
      BY <2>1, GotoFacts, Zenon
    <2>3. /\ m \in LocType /\ m.size = l.new /\ m.ret = l.ret /\ m.own = FALSE /\ m.stack = l.stack
          /\ m.child = l.child
      <3>1. 0 \in 0..USERTOP
        BY MemoryAssumption
      <3> QED BY <1>2, <1>6, <3>1, Zenon DEF LocType
    <2>4. l.ret \in {"load", "args"} /\ Space(p) = tmp[p] /\ l.stack = 0 /\ tmp[p].dir = 1 /\ tmp[p].tabs = KTABS
      BY <1>1, <1>6, AllocFacts, Zenon
    <2> HIDE DEF m
    <2>5. LocalsOK(p)'
      BY <2>2, <2>3, <2>4, Zenon DEF LocalsOK, Rest
    <2>6. ImageOK(p)'
      BY <1>1, <2>1, <2>2, <2>4, Typed, Zenon DEF Good, ImageOK, Bare
    <2>7. TmpOK(p)'
      BY <1>1, <2>2, <2>4, Zenon DEF TmpOK
    <2>8. PagesOK(p)'
      <3>1. PagesOK(p) /\ Exact(p)
        BY <1>6, Typed, Zenon DEF Good, Exact
      <3>2. Space(p)' = tmp[p]
        BY <1>1, <2>2, <2>3, Zenon DEF Space
      <3> QED BY <1>1, <1>4, <1>6, <2>1, <2>2, <2>3, <2>4, <3>1, <3>2, Zenon DEF PagesOK
    <2>9. Good(p)'
      BY <2>5, <2>6, <2>7, <2>8, Zenon DEF Good
    <2> QED BY <1>1, <2>1, <2>3, <2>4, <2>9, Jump, Zenon DEF held, Where
  <1> QED BY <1>5, <1>6, Zenon

\* A round of deallocuvm frees one page, and none below lo.
LEMMA DeallocuvmStep ==
  ASSUME IInv, NEW p \in Proc, NEW lo \in Nat, NEW hi \in Nat, Deallocuvm(p, lo, hi),
         stopped = "no", pc[p] \in {"undo", "shrink", "freevm"},
         pc[p] = "undo" => lo = loc[p].old, pc[p] = "shrink" => lo = loc[p].new
  PROVE  IInv'
PROOF
  <1> DEFINE mapped == PagesOf(lo, hi) \cap Space(p).pages
             x == Min(mapped)
             pages == Space(p).pages \ {x}
  <1>1. Good(p) /\ vm[p] \in VmType /\ tmp[p] \in VmType /\ loc[p] \in LocType /\ free \in Nat
    BY Typed, Zenon
  <1>2. /\ mapped # {} /\ free' = free + 1 /\ SetPages(p, pages) /\ sz' = sz /\ kstack' = kstack
        /\ pc' = pc /\ loc' = loc /\ leaked' = leaked /\ emptied' = emptied /\ stopped' = stopped
    BY Zenon DEF Deallocuvm, kfree
  <1>3. Space(p) \in VmType /\ Space(p).pages \subseteq UPage
    BY <1>1, Zenon DEF Space, VmType
  <1>4. x \in mapped
    BY <1>2, <1>3, MinIn, Zenon
  <1>5. x \in Space(p).pages /\ x \notin Below(lo)
    BY <1>4, Between
  <1> HIDE DEF mapped, x
  <1>6. pages \in SUBSET UPage
    BY <1>3, Zenon
  <1>7. /\ Space(p)' = [Space(p) EXCEPT !.pages = pages]
        /\ loc[p].own => tmp'[p] = tmp[p] /\ vm'[p].dir = vm[p].dir /\ vm'[p].tabs = vm[p].tabs
        /\ ~loc[p].own => vm'[p] = vm[p]
    BY <1>2, <1>6, SpaceSet, Zenon
  <1> HIDE DEF pages
  <1>8. Space(p)'.pages = pages
    BY <1>3, <1>7, Zenon DEF VmType
  <1>9. tmp'[p].dir = tmp[p].dir /\ tmp'[p].tabs = tmp[p].tabs
    BY <1>1, <1>2, <1>7, Zenon DEF Space, VmType
  <1>10. LocalsOK(p)'
    BY <1>1, <1>2, <1>7, Zenon DEF Good, LocalsOK, Rest
  <1>11. ImageOK(p)'
    BY <1>1, <1>2, <1>7, Zenon DEF Good, ImageOK, Bare
  <1>12. TmpOK(p)'
    BY <1>1, <1>2, <1>9, Zenon DEF Good, TmpOK
  <1>13. PagesOK(p)'
    <2>1. Exact(p)' <=> Exact(p)
      BY <1>2, Zenon DEF Exact
    <2>2. pages \subseteq Space(p).pages
      BY Zenon DEF pages
    <2>3. \A n : Below(n) \subseteq Space(p).pages /\ n = lo => Below(n) \subseteq pages
      BY <1>5, Zenon DEF pages
    <2>4. PagesOK(p)
      BY <1>1, Zenon DEF Good
    <2> QED BY <1>2, <1>7, <1>8, <2>1, <2>2, <2>3, <2>4, Zenon DEF PagesOK
  <1>14. Good(p)'
    BY <1>10, <1>11, <1>12, <1>13, Zenon DEF Good
  <1>15. free' \in Nat /\ KeptIn(p, pages)
    <2>1. Count([Space(p) EXCEPT !.pages = pages]) + 1 = Count(Space(p))
      BY <1>3, <1>5, CountFacts, Zenon DEF pages
    <2>2. Count([Space(p) EXCEPT !.pages = pages]) \in Nat
      <3>1. [Space(p) EXCEPT !.pages = pages] \in VmType
        BY <1>3, <1>6, Zenon DEF VmType
      <3> QED BY <3>1, CountFacts, Zenon
    <2>3. free' \in Nat /\ free' = free + 1
      BY <1>1, <1>2
    <2> QED BY <1>1, <2>1, <2>2, <2>3 DEF KeptIn
  <1>16. Goto(p, pc[p], loc[p])
    BY <1>2, Zenon DEF Goto, IInv, Types
  <1> QED BY <1>1, <1>2, <1>6, <1>14, <1>15, <1>16, Mapping, Zenon

\* When deallocuvm has finished, the pages that are left are below lo.
LEMMA DeallocFacts ==
  ASSUME NEW p \in Proc, NEW lo \in Nat, NEW hi \in Nat, Deallocated(p, lo, hi),
         Space(p).pages \subseteq Below(hi)
  PROVE  Space(p).pages \subseteq Below(lo)
PROOF BY Between, Zenon DEF Deallocated

\* A call that gives up the image it has built.
LEMMA BadStep ==
  ASSUME IInv, NEW p \in Proc, stopped = "no", ~loc[p].own,
         pc[p] \in {"undo", "segment", "load", "args"}, Goto(p, "freevm", NoLocals),
         free' = free, held' = held, tmp' = tmp, leaked' = leaked, emptied' = emptied,
         stopped' = stopped
  PROVE  IInv'
PROOF
  <1>1. pc'[p] = "freevm" /\ loc'[p] = NoLocals
    BY GotoFacts, Zenon
  <1>2. Good(p) /\ loc[p].stack = 0
    BY Typed, Zenon DEF Good, LocalsOK
  <1>3. vm' = vm /\ sz' = sz /\ kstack' = kstack
    BY Zenon DEF held
  <1>4. LocalsOK(p)' /\ ImageOK(p)'
    BY <1>1, <1>2, <1>3, NoLocalsType, Zenon DEF Good, LocalsOK, ImageOK, Rest, Bare
  <1>5. TmpOK(p)'
    BY <1>1, <1>2, Zenon DEF Good, TmpOK
  <1>6. PagesOK(p)'
    BY <1>1, <1>2, <1>3, NoLocalsType, Zenon DEF Good, PagesOK
  <1>7. Good(p)'
    BY <1>4, <1>5, <1>6, Zenon DEF Good
  <1> QED BY <1>2, <1>7, NoLocalsType, Jump, Zenon DEF Where

\* allocuvm ran out of pages and gives back what it mapped (vm.c:242-246).
LEMMA UndoStep ==
  ASSUME IInv, NEW p \in Proc, Undo(p)
  PROVE  IInv'
PROOF
  <1>1. pc[p] = "undo" /\ stopped = "no"
    BY Zenon DEF Undo, At
  <1>2. loc[p].old \in Nat /\ loc[p].new \in Nat /\ Good(p)
    BY Typed DEF LocType
  <1>3. CASE Deallocuvm(p, loc[p].old, loc[p].new)
    BY <1>1, <1>2, <1>3, DeallocuvmStep, Zenon
  <1>4. CASE ~Deallocuvm(p, loc[p].old, loc[p].new)
    <2>1. /\ Deallocated(p, loc[p].old, loc[p].new)
          /\ IF loc[p].own THEN Done(p) ELSE Goto(p, "freevm", NoLocals)
          /\ UNCHANGED <<free, held, tmp, leaked, emptied, stopped>>
      BY <1>4, Zenon DEF Undo
    <2>2. vm' = vm /\ sz' = sz /\ kstack' = kstack
      BY <2>1, Zenon DEF held
    <2>3. /\ Space(p).pages \subseteq Below(loc[p].old)
          /\ Exact(p) => Below(loc[p].old) \subseteq Space(p).pages
          /\ loc[p].own => loc[p].old = sz[p]
      BY <1>1, <1>2, <2>1, DeallocFacts, Zenon DEF Good, PagesOK
    <2>4. CASE loc[p].own
      <3>1. Space(p) = vm[p] /\ (p \notin emptied => Exact(p))
        BY <2>4, Zenon DEF Space, Exact
      <3>2. sz \in [Proc -> 0..USERTOP] /\ emptied \subseteq Proc
        BY Zenon DEF IInv, Types
      <3>3. /\ vm[p].pages \subseteq Below(sz'[p])
            /\ p \notin emptied' => vm[p].pages = Below(sz'[p])
        <4>1. sz'[p] = loc[p].old /\ emptied' = emptied
          BY <2>1, <2>2, <2>3, <2>4, Zenon
        <4>2. /\ vm[p].pages \subseteq Below(loc[p].old)
              /\ p \notin emptied => Below(loc[p].old) \subseteq vm[p].pages
          BY <2>3, <3>1, Zenon
        <4> QED BY <4>1, <4>2, Zenon
      <3>4. /\ Done(p) /\ tmp' = tmp /\ free' = free /\ leaked' = leaked /\ stopped' = stopped
            /\ emptied' = emptied
        BY <2>1, <2>4, Zenon
      <3> QED BY <1>1, <2>2, <2>4, <3>2, <3>3, <3>4, GrowEnd, Zenon
    <2>5. CASE ~loc[p].own
      BY <1>1, <2>1, <2>5, BadStep, Zenon
    <2> QED BY <2>4, <2>5, Zenon
  <1> QED BY <1>3, <1>4, Zenon

\* growproc with a negative argument (proc.c:115-118).
LEMMA ShrinkStep ==
  ASSUME IInv, NEW p \in Proc, Shrink(p)
  PROVE  IInv'
PROOF
  <1>1. pc[p] = "shrink" /\ stopped = "no"
    BY Zenon DEF Shrink, At
  <1>2. loc[p].old \in Nat /\ loc[p].new \in 0..USERTOP /\ loc[p].new \in Nat /\ Good(p)
    BY Typed DEF LocType
  <1>3. CASE Deallocuvm(p, loc[p].new, loc[p].old)
    BY <1>1, <1>2, <1>3, DeallocuvmStep, Zenon
  <1>4. CASE ~Deallocuvm(p, loc[p].new, loc[p].old)
    <2>1. /\ Deallocated(p, loc[p].new, loc[p].old) /\ Done(p)
          /\ sz' = IF loc[p].new = 0 THEN sz ELSE [sz EXCEPT ![p] = loc[p].new]
          /\ emptied' = IF loc[p].new = 0 THEN emptied \cup {p} ELSE emptied
          /\ UNCHANGED <<free, vm, kstack, tmp, leaked, stopped>>
      BY <1>4, Zenon DEF Shrink
    <2>2. loc[p].own
      BY <1>1, <1>2, Zenon DEF Good, LocalsOK
    <2>3. Space(p) = vm[p] /\ (p \notin emptied => Exact(p))
      BY <2>2, Zenon DEF Space, Exact
    <2>4. /\ vm[p].pages \subseteq Below(loc[p].new)
          /\ p \notin emptied => Below(loc[p].new) \subseteq vm[p].pages
      BY <1>1, <1>2, <2>1, <2>3, DeallocFacts, Zenon DEF Good, PagesOK
    <2>5. sz \in [Proc -> 0..USERTOP] /\ emptied \subseteq Proc
      BY Zenon DEF IInv, Types
    <2>8. /\ Done(p) /\ vm' = vm /\ kstack' = kstack /\ tmp' = tmp /\ free' = free
          /\ leaked' = leaked /\ stopped' = stopped
      BY <2>1, Zenon
    <2>6. CASE loc[p].new = 0
      <3>1. /\ sz' = sz /\ emptied' \subseteq Proc /\ p \in emptied'
            /\ \A q \in Proc \ {p} : q \in emptied' <=> q \in emptied
        BY <2>1, <2>5, <2>6, Zenon
      <3>2. vm[p].pages \subseteq Below(sz'[p])
        BY <2>4, <2>6, Ends, Zenon
      <3> QED BY <1>1, <2>2, <2>5, <2>8, <3>1, <3>2, GrowEnd, Zenon
    <2>7. CASE loc[p].new # 0
      <3>1. /\ sz' \in [Proc -> 0..USERTOP] /\ sz'[p] = loc[p].new /\ emptied' = emptied
            /\ \A q \in Proc \ {p} : sz'[q] = sz[q]
        BY <1>2, <2>1, <2>5, <2>7, Zenon
      <3>2. /\ vm[p].pages \subseteq Below(sz'[p])
            /\ p \notin emptied' => vm[p].pages = Below(sz'[p])
        BY <2>4, <3>1, Zenon
      <3> QED BY <1>1, <2>2, <2>5, <2>8, <3>1, <3>2, GrowEnd, Zenon
    <2> QED BY <2>6, <2>7, Zenon
  <1> QED BY <1>3, <1>4, Zenon

=============================================================================
