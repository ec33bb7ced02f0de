------------------------------- MODULE Malloc -------------------------------
(* knowledge_based/linux_internals/malloc: malloc() and free() over sbrk(),  *)
(* with the free blocks in a doubly linked list sorted by address, one       *)
(* iteration of their loops a step.  Blocks and addresses are in units of    *)
(* sizeof(Header), what the client asks for is in bytes; address 0 is        *)
(* free_lst, the sentinel in the data segment, which lies below the heap.    *)
EXTENDS Integers

CONSTANTS
  MaHeap,     \* bound: how many units sbrk() can give in all
  MaMin,      \* ALLOC_MIN_UNITS
  MaHeader,   \* sizeof(Header)
  MaWord,     \* the number of values of a size_t
  MaRequests  \* the bytes malloc() is asked for

ASSUME MallocAssumption ==
  /\ MaHeap \in Nat /\ MaMin \in Nat \ {0}
  /\ MaHeader \in Nat \ {0} /\ MaWord \in Nat /\ 2 * (MaMin * MaHeader) < MaWord
  /\ MaRequests \subseteq 0..(MaWord - 1)

VARIABLES
  maPc,      \* "client", "malloc" or "free": whose loop runs
  maWant,    \* nbytes of malloc(), also while it frees what sbrk() gave; or 0
  maAsked,   \* units of malloc(); or 0
  maFreed,   \* to_free of free()
  maBlock,   \* block of malloc(), right of free()
  maMem,     \* the header at each address
  maBreak,   \* the program break: the first unit the process does not have
  maUsed,    \* the blocks the client holds: address -> units asked for, or 0
  maBytes,   \* and the bytes the client asked for
  maLost     \* a block was freed whose header no longer told its size, or sbrk() was
             \* given another number of bytes than was meant

maVars == <<maPc, maWant, maAsked, maFreed, maBlock, maMem, maBreak, maUsed, maBytes, maLost>>

MaAddresses == 0..MaHeap

MaInit ==
  /\ maPc = "client" /\ maWant = 0 /\ maAsked = 0 /\ maFreed = 0 /\ maBlock = 0
  /\ maMem = [a \in MaAddresses |-> [next |-> 0, prev |-> 0, size |-> 0]]
  /\ maBreak = 1
  /\ maUsed = [a \in 1..MaHeap |-> 0] /\ maBytes = [a \in 1..MaHeap |-> 0]
  /\ maLost = FALSE

\* The units for nbytes, its header included, in the arithmetic of size_t.
UnitsFor(nbytes) == ((nbytes + MaHeader - 1) % MaWord) \div MaHeader + 1

\* What alloc_mem() gives sbrk(2), which takes an intptr_t.
SbrkIncrement(units) ==
  LET bytes == (units * MaHeader) % MaWord
  IN IF 2 * bytes < MaWord THEN bytes ELSE bytes - MaWord

\* The loops of malloc() and free() begin at the first block of the list.
MaSearch(pc) == maPc' = pc /\ maBlock' = maMem[0].next
MaClient ==
  maPc' = "client" /\ maWant' = 0 /\ maAsked' = 0 /\ maFreed' = 0 /\ maBlock' = 0

\* free(): link the block in, then merge it with the block on its right and
\* with the block on its left.
MergeRight(m, a, right) ==
  IF a + m[a].size = right
  THEN LET m1 == [m EXCEPT ![a].size = @ + m[right].size]
           m2 == [m1 EXCEPT ![m1[right].next].prev = a]
       IN [m2 EXCEPT ![a].next = m2[right].next]
  ELSE m
MergeLeft(m, a) ==
  LET p == m[a].prev IN
    IF p + m[p].size = a
    THEN LET m1 == [m EXCEPT ![p].size = @ + m[a].size]
             m2 == [m1 EXCEPT ![p].next = m1[a].next]
         IN [m2 EXCEPT ![m2[a].next].prev = p]
    ELSE m
LinkedIn(m, a, right) ==
  LET m1 == [m EXCEPT ![a].next = right]
      m2 == [m1 EXCEPT ![a].prev = m1[right].prev]
      m3 == [m2 EXCEPT ![right].prev = a]
  IN [m3 EXCEPT ![m3[a].prev].next = a]
Released(m, a, right) == MergeLeft(MergeRight(LinkedIn(m, a, right), a, right), a)

\* A block of exactly the size leaves the list; a larger one is replaced in
\* the list by its tail, and its own header keeps the size it had.
TakeWhole(m, b) ==
  LET m1 == [m EXCEPT ![m[b].prev].next = m[b].next]
  IN [m1 EXCEPT ![m1[b].next].prev = m1[b].prev]
SplitTailWhole(m, b, units) ==
  LET t == b + units
      m1 == [m EXCEPT ![t] = m[b]]
      m2 == [m1 EXCEPT ![m1[b].prev].next = t]
  IN [m2 EXCEPT ![m2[b].next].prev = t]
SplitTail(m, b, units) ==
  LET t == b + units
      m1 == [m EXCEPT ![t] = [size |-> m[b].size - units, prev |-> m[b].prev, next |-> m[b].next]]
      m2 == [m1 EXCEPT ![m1[b].prev].next = t]
  IN [m2 EXCEPT ![m2[b].next].prev = t]
Taken(m, b, units) ==
  IF m[b].size = units THEN TakeWhole(m, b) ELSE SplitTail(m, b, units)

\* The client calls malloc().
MallocCalled(nbytes) ==
  /\ maPc = "client"
  /\ MaSearch("malloc") /\ maWant' = nbytes /\ maAsked' = UnitsFor(nbytes)
  /\ UNCHANGED <<maFreed, maMem, maBreak, maUsed, maBytes, maLost>>

\* The block is too small: the next one.
MallocFurther ==
  /\ maPc = "malloc" /\ maBlock # 0 /\ maMem[maBlock].size < maAsked
  /\ maBlock' = maMem[maBlock].next
  /\ UNCHANGED <<maPc, maWant, maAsked, maFreed, maMem, maBreak, maUsed, maBytes, maLost>>

\* The block is large enough: malloc() returns it.
MallocFound ==
  /\ maPc = "malloc" /\ maBlock # 0 /\ maMem[maBlock].size >= maAsked
  /\ maMem' = Taken(maMem, maBlock, maAsked)
  /\ maUsed' = [maUsed EXCEPT ![maBlock] = maAsked]
  /\ maBytes' = [maBytes EXCEPT ![maBlock] = maWant]
  /\ MaClient /\ UNCHANGED <<maBreak, maLost>>

\* No block is: alloc_mem() takes at least ALLOC_MIN_UNITS from sbrk(), writes
\* the units asked for into the header, and frees the block for malloc() to
\* search again.
MaToAlloc == IF maAsked < MaMin THEN MaMin ELSE maAsked
AllocMem ==
  /\ maPc = "malloc" /\ maBlock = 0
  /\ SbrkIncrement(MaToAlloc) = MaToAlloc * MaHeader /\ maBreak + MaToAlloc <= MaHeap + 1
  /\ maMem' = [maMem EXCEPT ![maBreak].size = maAsked]
  /\ maBreak' = maBreak + MaToAlloc
  /\ MaSearch("free") /\ maFreed' = maBreak
  /\ UNCHANGED <<maWant, maAsked, maUsed, maBytes, maLost>>

\* sbrk() moves the break by too little, or down, and what is linked in as a block of the
\* units asked for lies outside the heap: what the heap holds is not followed.
AllocWraps ==
  /\ maPc = "malloc" /\ maBlock = 0
  /\ SbrkIncrement(MaToAlloc) # MaToAlloc * MaHeader /\ maLost' = TRUE
  /\ UNCHANGED <<maPc, maWant, maAsked, maFreed, maBlock, maMem, maBreak, maUsed, maBytes>>

\* sbrk() fails and malloc() returns NULL.
MallocFails ==
  /\ maPc = "malloc" /\ maBlock = 0
  /\ MaClient /\ UNCHANGED <<maMem, maBreak, maUsed, maBytes, maLost>>

\* The client calls free() for a block it holds.  Freeing one that was split
\* off puts it back with the size of the block it was split from, over its own
\* tail; what the heap holds from then on is not followed.
FreeCalled(a) ==
  /\ maPc = "client" /\ maUsed[a] # 0
  /\ maUsed' = [maUsed EXCEPT ![a] = 0] /\ maBytes' = [maBytes EXCEPT ![a] = 0]
  /\ maLost' = (maMem[a].size # maUsed[a])
  /\ IF maLost' THEN UNCHANGED <<maPc, maBlock, maFreed>> ELSE MaSearch("free") /\ maFreed' = a
  /\ UNCHANGED <<maWant, maAsked, maMem, maBreak>>

\* The block of the list lies below the one to free: the next one.
FreeFurther ==
  /\ maPc = "free" /\ maBlock # 0 /\ maBlock < maFreed
  /\ maBlock' = maMem[maBlock].next
  /\ UNCHANGED <<maPc, maWant, maAsked, maFreed, maMem, maBreak, maUsed, maBytes, maLost>>

\* It does not: the block goes in before it, and free() returns, to malloc()
\* if alloc_mem() called it.
FreeLinks ==
  /\ maPc = "free" /\ (maBlock = 0 \/ maBlock >= maFreed)
  /\ maMem' = Released(maMem, maFreed, maBlock)
  /\ IF maAsked = 0 THEN MaClient
     ELSE /\ maPc' = "malloc" /\ maBlock' = maMem'[0].next /\ maFreed' = 0
          /\ UNCHANGED <<maWant, maAsked>>
  /\ UNCHANGED <<maBreak, maUsed, maBytes, maLost>>

MaNext ==
  /\ ~maLost
  /\ \/ \E nbytes \in MaRequests : MallocCalled(nbytes)
     \/ MallocFurther \/ MallocFound \/ AllocMem \/ AllocWraps \/ MallocFails
     \/ \E a \in 1..MaHeap : FreeCalled(a)
     \/ FreeFurther \/ FreeLinks

MaSpec == MaInit /\ [][MaNext]_maVars
----------------------------------------------------------------------------
\* The blocks in the list: where the links lead from the sentinel.
FreeBlocks ==
  LET at[n \in MaAddresses] == IF n = 0 THEN maMem[0].next ELSE maMem[at[n - 1]].next
  IN {at[n] : n \in MaAddresses} \ {0}

\* As long as every block freed still told its size and no size wrapped on its way to
\* sbrk(), malloc() never hands out a unit twice: blocks in use and blocks in the list
\* are disjoint and inside the heap, the list is sorted and linked alike in both
\* directions, and no two free blocks touch (free() and its "Coalesce adjacent blocks").
\* And it asks sbrk() for more only when no block in the list is large enough.  A block
\* has room for the bytes asked for, unless they were so many that rounding them up
\* wraps; and only for about half the values of a size_t or more is sbrk() given
\* another number than was meant.
MallocSound ==
  LET size(a) == IF maUsed[a] # 0 THEN maUsed[a] ELSE maMem[a].size
      used == {a \in 1..MaHeap : maUsed[a] # 0}
      free == FreeBlocks
  IN /\ ~maLost =>
          /\ \A a \in used \cup free : size(a) > 0 /\ a + size(a) <= maBreak
          /\ used \cap free = {}
          /\ \A a, b \in used \cup free : a < b => a + size(a) <= b
          /\ \A a, b \in free : a + size(a) # b
          /\ \A a \in free \cup {0} :
               /\ maMem[maMem[a].next].prev = a
               /\ maMem[a].next = 0 \/ maMem[a].next > a
          /\ maPc = "malloc" /\ maBlock = 0 => \A a \in free : size(a) < maAsked
     /\ \A a \in used :
          maBytes[a] <= (maUsed[a] - 1) * MaHeader \/ maBytes[a] + MaHeader > MaWord
     /\ maLost /\ maPc = "malloc" => 2 * (maWant + 2 * MaHeader) > MaWord
=============================================================================
