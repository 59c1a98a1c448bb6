-------------------------------- MODULE Heap --------------------------------
(***************************************************************************)
(* The user library's allocator (user/umalloc.c): a circular list of free  *)
(* blocks in order of address, searched first-fit from where the last call *)
(* stopped, grown by sbrk and merged on free.                              *)
(*                                                                         *)
(* Addresses count units of one header.  A header is known while its block *)
(* is free or in use; what a program leaves inside a block is never read   *)
(* as one.  A program frees only what malloc gave it, once, and may call   *)
(* sbrk for itself, which leaves a gap between two pieces of the heap.     *)
(***************************************************************************)
EXTENDS Naturals, FiniteSets, TLC

CONSTANTS
  HEADER,     \* bytes of a header
  MORE,       \* units asked of sbrk at least: 4096
  LIMIT,      \* sbrk fails beyond this address
  Bytes       \* sizes asked for

VARIABLES
  heap,       \* headers (address to size and next free block), and freep
  brk,        \* end of the program's memory
  gap,        \* where the program's own sbrk was, 0 if nowhere
  live,       \* blocks in use: address to the bytes asked for
  refused     \* the units malloc has just been unable to find, or 0

heapvars == <<heap, brk, gap, live, refused>>

base == 0
START == 2                                  \* where the heap begins
None == 0                                   \* the ptr of a block in use

HeapInit == /\ heap = [hdr |-> (base :> [size |-> 0, ptr |-> base]), freep |-> base]
            /\ brk = START /\ gap = 0 /\ live = <<>> /\ refused = 0

(***************************************************************************)
(* free: the place in the list, then a merge with the block above and one  *)
(* with the block below.                                                   *)
(***************************************************************************)
size(h, a) == h.hdr[a].size
ptr(h, a) == h.hdr[a].ptr

WithHeader(h, a, n, next) == [h EXCEPT !.hdr = (a :> [size |-> n, ptr |-> next]) @@ @]
Without(h, a) == [h EXCEPT !.hdr = [b \in DOMAIN @ \ {a} |-> @[b]]]

AtPlace(h, bp, p) == \/ bp > p /\ bp < ptr(h, p)
                     \/ p >= ptr(h, p) /\ (bp > p \/ bp < ptr(h, p))

RECURSIVE FindPlace(_, _, _)
FindPlace(h, bp, p) == IF AtPlace(h, bp, p) THEN p ELSE FindPlace(h, bp, ptr(h, p))

MergeUp(h, bp, p) ==
    LET next == ptr(h, p)
    IN  IF bp + size(h, bp) = next
        THEN Without(WithHeader(h, bp, size(h, bp) + size(h, next), ptr(h, next)), next)
        ELSE WithHeader(h, bp, size(h, bp), next)

\* Mutant: the block below is left as it was.
MergeDown_Links(h, bp, p) == WithHeader(h, p, size(h, p), bp)

MergeDown(h, bp, p) ==
    IF p + size(h, p) = bp
    THEN Without(WithHeader(h, p, size(h, p) + size(h, bp), ptr(h, bp)), bp)
    ELSE WithHeader(h, p, size(h, p), bp)

free(h, bp) == LET p == FindPlace(h, bp, h.freep)
               IN  [MergeDown(MergeUp(h, bp, p), bp, p) EXCEPT !.freep = p]

(***************************************************************************)
(* malloc: the search, from prevp's successor p, in heap h with its end at *)
(* top.  A block that is too large gives its upper end; when the search    *)
(* has come round, morecore frees a new block into the list and the search *)
(* goes on from there.                                                     *)
(***************************************************************************)
nunits(nbytes) == (nbytes + HEADER - 1) \div HEADER + 1

Carve(h, prevp, p, n, top) ==
    LET rest == size(h, p) - n
        h2 == IF rest = 0
              THEN WithHeader(WithHeader(h, prevp, size(h, prevp), ptr(h, p)), p, n, None)
              ELSE WithHeader(WithHeader(h, p, rest, ptr(h, p)), p + rest, n, None)
    IN  [heap |-> [h2 EXCEPT !.freep = prevp], at |-> p + rest, brk |-> top]

morecore(h, n, top) ==
    LET nu == IF n < MORE THEN MORE ELSE n
    IN  IF top + nu > LIMIT THEN [ok |-> FALSE]
        ELSE [ok |-> TRUE, brk |-> top + nu,
              heap |-> free(WithHeader(h, top, nu, None), top)]

RECURSIVE Search(_, _, _, _, _)
Search(h, prevp, p, n, top) ==
    IF size(h, p) >= n THEN Carve(h, prevp, p, n, top)
    ELSE IF p # h.freep THEN Search(h, p, ptr(h, p), n, top)
    ELSE LET m == morecore(h, n, top)
         IN  IF ~m.ok THEN [heap |-> h, at |-> None, brk |-> top]
             ELSE Search(m.heap, m.heap.freep, ptr(m.heap, m.heap.freep), n, m.brk)

malloc == \E nbytes \in Bytes :
    LET n == nunits(nbytes)
        r == Search(heap, heap.freep, ptr(heap, heap.freep), n, brk)
    IN  /\ heap' = r.heap /\ brk' = r.brk
        /\ live' = IF r.at = None THEN live ELSE (r.at :> nbytes) @@ live
        /\ refused' = IF r.at = None THEN n ELSE 0
        /\ UNCHANGED gap

release == \E a \in DOMAIN live :
               /\ heap' = free(heap, a)
               /\ live' = [b \in DOMAIN live \ {a} |-> live[b]]
               /\ refused' = 0 /\ UNCHANGED <<brk, gap>>

\* The program's own sbrk of one unit, at most once.
sbrk == /\ gap = 0 /\ brk < LIMIT
        /\ gap' = brk /\ brk' = brk + 1
        /\ refused' = 0 /\ UNCHANGED <<heap, live>>

HeapNext == malloc \/ release \/ sbrk

HeapSpec == HeapInit /\ [][HeapNext]_heapvars

Headers == DOMAIN heap.hdr
Free == Headers \ (DOMAIN live \cup {base})
Units(a) == a..(a + size(heap, a) - 1)

NextFree(a) == IF \E b \in Free : b > a THEN CHOOSE b \in Free : b > a /\ \A c \in Free : c > a => b <= c
               ELSE base

(***************************************************************************)
(* Free and used blocks share no unit and between them hold every unit     *)
(* obtained from sbrk, so nothing is lost; a used block has room for what  *)
(* was asked; the list goes once round the free blocks in order of address *)
(* and no two of them touch; and malloc fails only when no free block is   *)
(* large enough.                                                           *)
(***************************************************************************)
HeapSound ==
    /\ DOMAIN live \subseteq Headers
    /\ UNION {Units(a) : a \in Headers} = (START..(brk - 1)) \ {gap}
    /\ \A a, b \in Headers : a # b => Units(a) \cap Units(b) = {}
    /\ \A a \in DOMAIN live : (size(heap, a) - 1) * HEADER >= live[a]
    /\ heap.freep \in Free \cup {base}
    /\ \A a \in Free \cup {base} : ptr(heap, a) = NextFree(a)
    /\ \A a, b \in Free : a + size(heap, a) # b
    /\ \A a \in Free : refused = 0 \/ size(heap, a) < refused

=============================================================================
