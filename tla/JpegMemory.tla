----------------------------- MODULE JpegMemory -----------------------------
(***************************************************************************)
(* The memory manager of the JPEG library (jmemmgr.c) over malloc():       *)
(* small objects share pools, large ones and the chunks of rows of sample  *)
(* arrays have one each, and the pools of a lifetime are freed together.   *)
(* Each picture that is sent creates a manager and destroys it again.      *)
(*                                                                         *)
(* m is the manager and what it holds; malloc() may fail at any call, and  *)
(* an error of the library ends the process (jpeg_std_error).              *)
(***************************************************************************)
EXTENDS Integers, FiniteSetsExt, SequencesExt

CONSTANTS
  ALIGN, HDR,       \* SIZEOF(ALIGN_TYPE) and SIZEOF(small_pool_hdr)
  MAX_ALLOC_CHUNK,
  first_pool_slop, extra_pool_slop, MIN_SLOP,
  CONTROL,          \* SIZEOF(my_memory_mgr)
  ObjectSizes, Widths, Heights,  \* what is asked for
  MaxCalls          \* bound: calls

PERMANENT == 0
IMAGE     == 1
Pools     == {PERMANENT, IMAGE}

MemoryAssumption ==
  /\ ALIGN \in Nat \ {0} /\ HDR % ALIGN = 0 /\ MAX_ALLOC_CHUNK % ALIGN = 0
  /\ {HDR, MAX_ALLOC_CHUNK, MIN_SLOP} \subseteq Nat \ {0} /\ MAX_ALLOC_CHUNK > HDR
  /\ {first_pool_slop[p] : p \in Pools} \cup {extra_pool_slop[p] : p \in Pools} \subseteq Nat
  /\ CONTROL \in Nat \ {0} /\ ObjectSizes \subseteq Nat \ {0}
  /\ Widths \subseteq Nat \ {0} /\ Heights \subseteq Nat \ {0} /\ MaxCalls \in Nat

VARIABLES
  m,      \* pools by lifetime, the heap's blocks, the objects given out
  made,   \* cinfo->mem is not NULL
  calls

vars == <<m, made, calls>>

Empty == [small |-> [p \in Pools |-> << >>], large |-> [p \in Pools |-> << >>],
          total |-> 0, last_rowsperchunk |-> 0, heap |-> << >>, objects |-> {},
          exited |-> FALSE]

Init == m = Empty /\ made = FALSE /\ calls = 0

Exit(s) == [Empty EXCEPT !.exited = TRUE]

RoundUp(n) == ((n + ALIGN - 1) \div ALIGN) * ALIGN

\* malloc() of n bytes, and their place in the books.
NewBlock(s) == Min((1..Cardinality(DOMAIN s.heap) + 1) \ DOMAIN s.heap)
Get(s, n) ==
  LET new == NewBlock(s)
  IN [s EXCEPT !.heap = [b \in DOMAIN @ \cup {new} |-> IF b = new THEN n ELSE @[b]],
               !.total = @ + n]

-----------------------------------------------------------------------------
(* Allocation.  Each operator is the set of what may come of a call.       *)

\* What a new pool would hold besides the object.
Slop(s, pool, bytes) ==
  Min({IF s.small[pool] = << >> THEN first_pool_slop[pool] ELSE extra_pool_slop[pool],
       MAX_ALLOC_CHUNK - (bytes + HDR)})

\* The slop is halved until malloc() has space.
Tries(slop) ==
  {slop} \cup {n \in MIN_SLOP..slop : \E k \in 1..slop : n = slop \div 2^k}

NewPool(s, pool, bytes, slop) ==
  [Get(s, bytes + HDR + slop) EXCEPT
     !.small[pool] = Append(@, [block |-> NewBlock(s), used |-> 0,
                                left |-> bytes + slop])]

TakeFrom(s, pool, k, bytes) ==
  [s EXCEPT
     !.objects = @ \cup {[block |-> s.small[pool][k].block, pool |-> pool,
                          from |-> HDR + s.small[pool][k].used, bytes |-> bytes,
                          row |-> FALSE]},
     !.small[pool][k].used = @ + bytes, !.small[pool][k].left = @ - bytes]

Fitting(s, pool, bytes) ==
  {k \in DOMAIN s.small[pool] : s.small[pool][k].left >= bytes}

alloc_small(s, pool, size) ==
  LET bytes == RoundUp(size)
      fits  == Fitting(s, pool, bytes)
  IN IF s.exited \/ size > MAX_ALLOC_CHUNK - HDR THEN {Exit(s)}
     ELSE IF fits # {} THEN {TakeFrom(s, pool, Min(fits), bytes)}
     ELSE {Exit(s)} \cup
          {TakeFrom(NewPool(s, pool, bytes, slop), pool, Len(s.small[pool]) + 1, bytes) :
             slop \in Tries(Slop(s, pool, bytes))}

\* The object, or the rows that the caller makes of it, as pairs of an offset
\* and a length.
alloc_large(s, pool, size, parts) ==
  LET bytes == RoundUp(size)
  IN IF s.exited \/ size > MAX_ALLOC_CHUNK - HDR THEN {Exit(s)}
     ELSE {Exit(s),
           [Get(s, bytes + HDR) EXCEPT
              !.large[pool] = <<[block |-> NewBlock(s), used |-> bytes, left |-> 0]>> \o @,
              !.objects = @ \cup {[block |-> NewBlock(s), pool |-> pool,
                                   from |-> HDR + part[1], bytes |-> part[2],
                                   row |-> part[1] > 0] : part \in parts}]}

\* The rows of each chunk of an array.
ChunkHeights(rowsperchunk, height) ==
  [k \in 1..(height + rowsperchunk - 1) \div rowsperchunk |->
     Min({rowsperchunk, height - (k - 1) * rowsperchunk})]

RowsOf(rows, width) == {<<r * width, width>> : r \in 0..rows - 1}

\* The rows themselves, a large object for each chunk of them.
Chunks(states, pool, width, heights) ==
  FoldLeft(LAMBDA some, rows :
             UNION {alloc_large(t, pool, rows * width, RowsOf(rows, width)) : t \in some},
           states, heights)

\* alloc_sarray(), and alloc_barray() with another size of a cell.  A pointer
\* to a row takes one byte.
alloc_sarray(s, pool, width, height) ==
  LET most == (MAX_ALLOC_CHUNK - HDR) \div width
      rowsperchunk == Min({most, height})
  IN IF s.exited \/ most = 0 THEN {Exit(s)}
     ELSE Chunks(alloc_small([s EXCEPT !.last_rowsperchunk = rowsperchunk], pool, height),
                 pool, width, ChunkHeights(rowsperchunk, height))

-----------------------------------------------------------------------------
(* Release.                                                                *)

PoolsOf(s, pool) == Range(s.small[pool]) \cup Range(s.large[pool])

\* Mutant: only what is used counts as freed.
FreedUsed(s, pool) ==
  SumFunction([p \in PoolsOf(s, pool) |-> p.used + HDR])

Freed(s, pool) ==
  SumFunction([p \in PoolsOf(s, pool) |-> p.used + p.left + HDR])

Without(heap, blocks) == Restrict(heap, DOMAIN heap \ blocks)

free_pool(s, pool) ==
  LET gone == {p.block : p \in PoolsOf(s, pool)}
  IN [s EXCEPT !.heap = Without(@, gone), !.total = @ - Freed(s, pool),
               !.small[pool] = << >>, !.large[pool] = << >>,
               !.objects = {o \in @ : o.pool # pool}]

\* self_destruct(): the pools, and the control block, which came first.
self_destruct(s) == Without(free_pool(free_pool(s, IMAGE), PERMANENT).heap, {1})

-----------------------------------------------------------------------------
(* Calls of the library and its applications.                              *)

Counted == calls < MaxCalls /\ calls' = calls + 1 /\ ~m.exited

jinit_memory_mgr ==
  /\ Counted /\ ~made
  /\ \/ m' = Exit(m) /\ UNCHANGED made
     \/ made' = TRUE /\ m' = [Get(Empty, CONTROL) EXCEPT !.total = CONTROL]

Alloc ==
  /\ Counted /\ made /\ UNCHANGED made
  /\ \E pool \in Pools :
       \/ \E n \in ObjectSizes : \/ m' \in alloc_small(m, pool, n)
                                 \/ m' \in alloc_large(m, pool, n, {<<0, n>>})
       \/ \E w \in Widths, h \in Heights : m' \in alloc_sarray(m, pool, w, h)

\* jpeg_abort(), also at the end of a compression.
jpeg_abort == Counted /\ made /\ m' = free_pool(m, IMAGE) /\ UNCHANGED made

jpeg_destroy ==
  /\ Counted /\ made /\ made' = FALSE
  /\ m' = [Empty EXCEPT !.heap = self_destruct(m)]

Next == jinit_memory_mgr \/ Alloc \/ jpeg_abort \/ jpeg_destroy

Spec == Init /\ [][Next]_vars

-----------------------------------------------------------------------------
(* Properties.                                                             *)

\* Objects lie in blocks that are held, behind the header, and apart from each
\* other, whatever was freed in between and however little malloc() gave; all
\* but the rows of arrays are aligned (alloc_small, alloc_large, alloc_sarray).
ObjectsApart ==
  \A o \in m.objects :
    /\ o.block \in DOMAIN m.heap /\ o.from >= HDR
    /\ o.from + o.bytes <= m.heap[o.block] /\ (o.row \/ o.from % ALIGN = 0)
    /\ \A q \in m.objects : \/ o = q \/ o.block # q.block
                            \/ o.from + o.bytes <= q.from \/ q.from + q.bytes <= o.from

\* The count of the space allocated, from which the sizes of virtual arrays
\* follow, is what is held, and no block is larger than the largest
\* allocation (alloc_small, alloc_large, free_pool).
TotalIsHeld ==
  made => /\ m.total = SumFunction(m.heap)
          /\ \A b \in DOMAIN m.heap : b = 1 \/ m.heap[b] <= MAX_ALLOC_CHUNK

\* A picture leaves no memory behind, one of the calls after the other
\* (self_destruct).
NothingLeft == ~made /\ ~m.exited => m.heap = << >>

=============================================================================
