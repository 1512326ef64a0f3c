------------------------------ MODULE MMAlloc ------------------------------
(***************************************************************************)
(* The allocator of hw3/mm_alloc.c: a heap that only sbrk extends, cut     *)
(* into blocks with a header of four words (prev, next, free, size), first *)
(* fit, splitting on malloc and coalescing on free.                        *)
(*                                                                         *)
(* Memory is a function from addresses to words; sizes are in words, for   *)
(* which the split threshold of a header and four bytes is a header and    *)
(* one word.  A header keeps its words when its block is merged into       *)
(* another: the prev pointers of later blocks, which nothing updates,      *)
(* still lead to it.                                                       *)
(*                                                                         *)
(* The callers fill the memory they get, and free or reallocate only what  *)
(* they own.  Once a free has written through a prev pointer into memory   *)
(* that is not its predecessor's nor free, the heap is no longer followed. *)
(***************************************************************************)
EXTENDS Naturals, FiniteSets

CONSTANTS
  Base,      \* the first address that sbrk hands out
  HeapWords, \* bound: the words sbrk has
  Sizes,     \* the sizes that callers ask for
  UserWords  \* the words they store

NULL == 0
PREV == 0
NEXT == 1
FREE == 2
SIZE == 3
Header == 4 \* sizeof(struct s_block)

ASSUME HeapAssumption ==
  /\ HeapWords \in Nat /\ Base \in Nat \ {NULL}
  /\ Sizes \subseteq Nat /\ UserWords \subseteq Nat

Addresses == Base..(Base + HeapWords - 1)

VARIABLES
  mem,         \* the words of the heap
  brk,         \* the end of the heap
  global_base, \* the first block, or NULL
  owned,       \* for each pointer the callers hold, the words they stored there
  strayed      \* whether a free has written where it should not

heap == <<mem, brk, global_base>>
vars == <<heap, owned, strayed>>

Init ==
  /\ mem = [a \in Addresses |-> 0]
  /\ brk = Base
  /\ global_base = NULL
  /\ owned = << >>
  /\ strayed = FALSE

-----------------------------------------------------------------------------
(* The blocks of a heap h = [mem, brk, global_base] *)

\* The n-th block that the walk along next reaches, or NULL.
Walk(h) ==
  LET block[n \in 0..HeapWords \div Header] ==
        IF n = 0 THEN h.global_base
        ELSE LET b == block[n - 1] IN IF b = NULL THEN NULL ELSE h.mem[b + NEXT]
  IN  block

Blocks(h) == {Walk(h)[n] : n \in DOMAIN Walk(h)} \ {NULL}

Payload(m, b) == (b + Header)..(b + Header + m[b + SIZE] - 1)

\* The function g with f written over it, and the memory m with w at address a.
Over(f, g) == [x \in DOMAIN f \cup DOMAIN g |-> IF x \in DOMAIN f THEN f[x] ELSE g[x]]
Put(m, a, w) == Over([x \in {a} |-> w], m)

set_contents_safe(m, b, next, prev, free, size) ==
  Put(Put(Put(Put(m, b + NEXT, next), b + PREV, prev), b + FREE, free), b + SIZE, size)

\* memset(b->data, 0, size), and a store of the word u from address p on.
Filled(m, p, size, u) == Over([a \in p..(p + size - 1) |-> u], m)
Zeroed(m, b, size) == Filled(m, b + Header, size, 0)

\* The first block on the walk that is free and large enough, or NULL.
free_block_or_nah(h, size) ==
  LET walk == Walk(h)
      Fits(b) == b # NULL /\ h.mem[b + FREE] # 0 /\ h.mem[b + SIZE] >= size
      fits == {n \in DOMAIN walk : Fits(walk[n])}
  IN  IF fits = {} THEN NULL ELSE walk[CHOOSE n \in fits : \A m \in fits : n <= m]

\* The last block of the walk, or NULL.
Last(h) ==
  IF h.global_base = NULL THEN NULL
  ELSE CHOOSE b \in Blocks(h) : h.mem[b + NEXT] = NULL

-----------------------------------------------------------------------------
(* malloc: the heap and the pointer that it returns *)

Result(m, b, base, ptr) == [mem |-> m, brk |-> b, global_base |-> base, ptr |-> ptr]

\* sbrk fails when it would leave its words.
extend_heap(h, size) ==
  LET block == h.brk
      last == Last(h)
      linked == IF last = NULL THEN h.mem ELSE Put(h.mem, last + NEXT, block)
  IN  IF h.brk + Header + size > Base + HeapWords
      THEN Result(h.mem, h.brk, h.global_base, NULL)
      ELSE Result(Zeroed(set_contents_safe(linked, block, NULL, last, 0, size), block, size),
                  h.brk + Header + size,
                  IF last = NULL THEN block ELSE h.global_base, block + Header)

\* Mutation: the header of the second block is not counted.
split_block_safe_NoHeader(m, b, first_size) ==
  LET second == b + Header + first_size
      cut == Zeroed(set_contents_safe(m, b, second, m[b + PREV], 0, first_size), b, first_size)
  IN  set_contents_safe(cut, second, m[b + NEXT], b, 1, m[b + SIZE] - first_size)

\* Mutation: the second block is not marked free.
split_block_safe_Taken(m, b, first_size) ==
  LET second == b + Header + first_size
      cut == Zeroed(set_contents_safe(m, b, second, m[b + PREV], 0, first_size), b, first_size)
  IN  set_contents_safe(cut, second, m[b + NEXT], b, 0, m[b + SIZE] - first_size - Header)

split_block_safe(m, b, first_size) ==
  LET second == b + Header + first_size
      cut == Zeroed(set_contents_safe(m, b, second, m[b + PREV], 0, first_size), b, first_size)
  IN  set_contents_safe(cut, second, m[b + NEXT], b, 1, m[b + SIZE] - first_size - Header)

mm_malloc(h, size) ==
  LET block == free_block_or_nah(h, size)
  IN  CASE size = 0 -> Result(h.mem, h.brk, h.global_base, NULL)
        [] size # 0 /\ block = NULL -> extend_heap(h, size)
        [] OTHER ->
             Result(IF h.mem[block + SIZE] < size + Header + 1
                    THEN Put(Zeroed(h.mem, block, h.mem[block + SIZE]), block + FREE, 0)
                    ELSE split_block_safe(h.mem, block, size),
                    h.brk, h.global_base, block + Header)

-----------------------------------------------------------------------------
(* free *)

\* combine_block, first half: a free block in front is absorbed.
Forward(m, b) ==
  LET front == m[b + NEXT]
  IN  IF front = NULL THEN m
      ELSE IF m[front + FREE] # 1 THEN m
      ELSE set_contents_safe(m, b, m[front + NEXT], m[b + PREV], 1,
                             m[b + SIZE] + Header + m[front + SIZE])

\* Whether the block that prev leads to takes b in.
JoinsBack(m, b) == IF m[b + PREV] = NULL THEN FALSE ELSE m[m[b + PREV] + FREE] = 1

\* combine_block, second half.
Backward(m, b) ==
  LET back == m[b + PREV]
  IN  IF ~JoinsBack(m, b) THEN m
      ELSE set_contents_safe(m, back, m[b + NEXT], m[back + PREV], 1,
                             m[back + SIZE] + Header + m[b + SIZE])

\* The memory before combine_block looks back.
Released(m, ptr) == Forward(Put(m, ptr - Header + FREE, 1), ptr - Header)

mm_free(m, ptr) == Backward(Released(m, ptr), ptr - Header)

\* The header that prev leads to is neither the predecessor's nor wholly inside
\* a free block, where nobody minds what is written.
Strays(h, ptr) ==
  LET m == Released(h.mem, ptr)
      b == ptr - Header
      back == m[b + PREV]
      g == [h EXCEPT !.mem = m]
  IN  /\ JoinsBack(m, b)
      /\ ~(back \in Blocks(g) /\ m[back + NEXT] = b)
      /\ \A c \in Blocks(g) :
           m[c + FREE] = 1 => \E a \in back..(back + Header - 1) : a \notin Payload(m, c)

-----------------------------------------------------------------------------
(* The calls *)

Heap == [mem |-> mem, brk |-> brk, global_base |-> global_base]

\* The owner stores u in those of its words that have no contents yet.
Stored(contents, size, u) == Over(contents, [i \in 0..(size - 1) |-> u])

Owning(own, ptr, contents) == Put(own, ptr, contents)
Disowning(own, ptr) == [p \in DOMAIN own \ {ptr} |-> own[p]]

\* Mutation: the memset comes after the memcpy.
Copied_Zeroed(r, ptr, size) == Filled(r.mem, r.ptr, size, 0)

\* The memory of the malloc result r once the old block at ptr is copied there,
\* as much of it as there is and as fits.
Copied(r, ptr, size) ==
  LET old == r.mem[ptr - Header + SIZE]
      n == IF old < size THEN old ELSE size
  IN  Over([a \in r.ptr..(r.ptr + n - 1) |-> r.mem[ptr + (a - r.ptr)]], r.mem)

Malloc(size) ==
  /\ ~strayed
  /\ LET r == mm_malloc(Heap, size)
     IN  /\ brk' = r.brk /\ global_base' = r.global_base
         /\ \/ /\ r.ptr = NULL
               /\ UNCHANGED <<mem, owned>>
            \/ /\ r.ptr # NULL
               /\ \E u \in UserWords :
                    /\ mem' = Filled(r.mem, r.ptr, size, u)
                    /\ owned' = Owning(owned, r.ptr, Stored(<< >>, size, u))
  /\ UNCHANGED strayed

Free(ptr) ==
  /\ ~strayed /\ ptr \in DOMAIN owned
  /\ mem' = mm_free(mem, ptr)
  /\ owned' = Disowning(owned, ptr)
  /\ strayed' = Strays(Heap, ptr)
  /\ UNCHANGED <<brk, global_base>>

\* realloc to nothing returns NULL and does not free: nobody owns the block any
\* more, and it stays allocated.
ReallocToZero(ptr) ==
  /\ ~strayed /\ ptr \in DOMAIN owned /\ 0 \in Sizes
  /\ owned' = Disowning(owned, ptr)
  /\ UNCHANGED <<heap, strayed>>

\* realloc: a new block, what fits of the old one copied, the old one freed.
\* On failure the old block stays as it is.
Realloc(ptr, size) ==
  /\ ~strayed /\ ptr \in DOMAIN owned /\ size # 0
  /\ LET r == mm_malloc(Heap, size)
         copied == Copied(r, ptr, size)
         freed == mm_free(copied, ptr)
         kept == [i \in DOMAIN owned[ptr] \cap 0..(size - 1) |-> owned[ptr][i]]
     IN  /\ brk' = r.brk /\ global_base' = r.global_base
         /\ \/ /\ r.ptr = NULL
               /\ UNCHANGED <<mem, owned, strayed>>
            \/ /\ r.ptr # NULL
               /\ \E u \in UserWords :
                    /\ mem' = Over([a \in {r.ptr + i : i \in 0..(size - 1) \ DOMAIN kept} |-> u],
                                   freed)
                    /\ owned' = Owning(Disowning(owned, ptr), r.ptr, Stored(kept, size, u))
               /\ strayed' = Strays([mem |-> copied, brk |-> r.brk,
                                     global_base |-> r.global_base], ptr)

Next ==
  \/ \E size \in Sizes : Malloc(size)
  \/ \E ptr \in DOMAIN owned :
       Free(ptr) \/ ReallocToZero(ptr) \/ \E size \in Sizes : Realloc(ptr, size)

Spec == Init /\ [][Next]_vars

-----------------------------------------------------------------------------
(* Properties *)

\* The types: no call writes outside the words that sbrk granted, and the first
\* block stays the first (mm_alloc.c:64-77, 125-133).
TypeOK ==
  /\ mem \in [Addresses -> Nat]
  /\ brk \in Base..(Base + HeapWords)
  /\ global_base \in {NULL, Base}
  /\ DOMAIN owned \subseteq Addresses /\ strayed \in BOOLEAN

\* The blocks tile the heap: each ends where the next begins, the last at brk,
\* and every pointer the callers hold is the data of a block that is not free
\* and has room for what they stored, unless a free has strayed
\* (mm_alloc.c:45-112, 118-158).
HeapTiled ==
  /\ TypeOK
  /\ ~strayed =>
       /\ \A b \in Blocks(Heap) :
            LET end == b + Header + mem[b + SIZE]
            IN  IF mem[b + NEXT] = NULL THEN end = brk ELSE mem[b + NEXT] = end
       /\ \A p \in DOMAIN owned :
            /\ p - Header \in Blocks(Heap) /\ mem[p - Header + FREE] = 0
            /\ Cardinality(DOMAIN owned[p]) <= mem[p - Header + SIZE]

\* Callers find in their memory what they stored there, whatever others
\* allocate, free and reallocate meanwhile, unless a free has strayed
\* (mm_alloc.c:118-213).
DataKept ==
  ~strayed => \A p \in DOMAIN owned : \A i \in DOMAIN owned[p] : mem[p + i] = owned[p][i]

\* The blocks in use that no caller can free any more.
Lost == {b \in Blocks(Heap) : mem[b + FREE] = 0 /\ b + Header \notin DOMAIN owned}

\* A call that changes the heap loses no memory: what malloc takes or splits off
\* is owned or free, and realloc gives the old block back.  Only realloc to
\* size zero loses a block, which it returns from before it does anything
\* (mm_alloc.c:89-112, 160-199).
NothingElseLost == [][~strayed' /\ heap' # heap => Lost' \subseteq Lost]_vars

\* What "man 3 malloc" promises and mm_alloc.h:4 claims a clone of: memory that
\* a caller owns is not given back with another's (mm_alloc.c:53-58).
OwnedIsNotFree ==
  \A b \in Blocks(Heap), p \in DOMAIN owned :
    mem[b + FREE] = 1 => \A i \in DOMAIN owned[p] : p + i \notin Payload(mem, b)
=============================================================================
