--------------------------- MODULE MMAllocProofs ---------------------------
(***************************************************************************)
(* The allocator's blocks tile the heap, its callers find what they        *)
(* stored, and only a realloc to nothing loses a block: for every heap     *)
(* size, every set of sizes and every sequence of calls, up to the first   *)
(* free that strays.                                                       *)
(***************************************************************************)
EXTENDS MMAlloc, FiniteSetTheorems, NaturalsInduction, TLAPS

-----------------------------------------------------------------------------
(* The inductive invariant *)

\* Where block b of the memory m ends, and the addresses it occupies.
End(m, b) == b + Header + m[b + SIZE]
Extent(m, b) == b..(End(m, b) - 1)

\* The blocks S tile the heap from its base to top: each ends where its next
\* begins, every one but the first is the next of another, and prev, stale or
\* not, leads to a place for a header in front of its block.
Tiled(m, top, base, S) ==
  /\ m \in [Addresses -> Nat] /\ top \in Base..(Base + HeapWords)
  /\ \/ S = {} /\ base = NULL /\ top = Base
     \/ Base \in S /\ base = Base /\ \E b \in S : m[b + NEXT] = NULL
  /\ \A b \in S :
       /\ b \in Base..(top - Header) /\ End(m, b) <= top
       /\ \/ m[b + NEXT] = NULL /\ End(m, b) = top
          \/ m[b + NEXT] = End(m, b) /\ End(m, b) \in S
       /\ m[b + PREV] = NULL \/ m[b + PREV] \in Base..(b - Header)
       /\ b = Base \/ \E c \in S : End(m, c) = b
  /\ \A b, c \in S : b < c => End(m, b) <= c

\* The blocks in use.
Used(m, S) == {b \in S : m[b + FREE] = 0}

\* What the pointer p of the owners own is good for: its block is in use, has
\* room for what they stored, and holds it.
Holds(m, S, own, p) ==
  /\ p - Header \in Used(m, S)
  /\ \E n \in Nat : /\ DOMAIN own[p] = 0..(n - 1) /\ n <= m[p - Header + SIZE]
                    /\ \A i \in 0..(n - 1) : m[p + i] = own[p][i]

HeapInv ==
  /\ TypeOK
  /\ ~strayed => \E S : /\ Tiled(mem, brk, global_base, S)
                        /\ \A p \in DOMAIN owned : Holds(mem, S, owned, p)

-----------------------------------------------------------------------------
(* Memory *)

\* A set of numbers that is not empty has a least one.
LEMMA Least ==
  ASSUME NEW T \in SUBSET Nat, T # {}
  PROVE  \E m \in T : \A k \in T : m <= k
<1>1. PICK m \in T : \A k \in T : ~(<<k, m>> \in OpToRel(<, Nat))
  BY NatLessThanWellFounded, WFMin
<1>2. ASSUME NEW k \in T PROVE ~(k < m)
  <2>1. k \in Nat /\ m \in Nat /\ ~(<<k, m>> \in OpToRel(<, Nat))
    BY <1>1
  <2>. QED
    BY <2>1, Zenon DEF OpToRel
<1>. QED
  BY <1>2

\* A memory of this heap.
Memory == [Addresses -> Nat]

\* Outside the addresses X, m2 has the words of m.
Elsewhere(m, m2, X) == \A a \in Addresses : a \notin X => m2[a] = m[a]

\* Words written within the heap leave a memory with those words in place.
LEMMA OverFacts ==
  ASSUME NEW m \in Memory, NEW f, DOMAIN f \subseteq Addresses,
         \A a \in DOMAIN f : f[a] \in Nat
  PROVE  /\ Over(f, m) \in Memory
         /\ \A a \in DOMAIN f : Over(f, m)[a] = f[a]
         /\ \A a \in Addresses : a \notin DOMAIN f => Over(f, m)[a] = m[a]
<1>1. DOMAIN m = Addresses
  BY DEF Memory
<1>2. DOMAIN f \cup DOMAIN m = Addresses
  BY <1>1
<1>3. Over(f, m) = [x \in Addresses |-> IF x \in DOMAIN f THEN f[x] ELSE m[x]]
  BY <1>2, Zenon DEF Over
<1>. QED
  BY <1>3 DEF Memory

\* One word written.
LEMMA PutFacts ==
  ASSUME NEW m \in Memory, NEW a \in Addresses, NEW w \in Nat
  PROVE  /\ Put(m, a, w) \in Memory
         /\ Put(m, a, w)[a] = w
         /\ Elsewhere(m, Put(m, a, w), {a})
<1>. DEFINE f == [x \in {a} |-> w]
<1>1. DOMAIN f = {a} /\ f[a] = w
  OBVIOUS
<1>. HIDE DEF f
<1>2. /\ Over(f, m) \in Memory
      /\ \A x \in DOMAIN f : Over(f, m)[x] = f[x]
      /\ \A x \in Addresses : x \notin DOMAIN f => Over(f, m)[x] = m[x]
  BY <1>1, OverFacts
<1>3. Put(m, a, w) = Over(f, m)
  BY Zenon DEF Put, f
<1>. QED
  BY <1>1, <1>2, <1>3 DEF Elsewhere

\* A stretch of words filled.
LEMMA FilledFacts ==
  ASSUME NEW m \in Memory, NEW p \in Nat, NEW size \in Nat, NEW u \in Nat,
         p..(p + size - 1) \subseteq Addresses
  PROVE  /\ Filled(m, p, size, u) \in Memory
         /\ \A a \in p..(p + size - 1) : Filled(m, p, size, u)[a] = u
         /\ Elsewhere(m, Filled(m, p, size, u), p..(p + size - 1))
<1>. DEFINE f == [a \in p..(p + size - 1) |-> u]
<1>1. DOMAIN f = p..(p + size - 1) /\ \A a \in p..(p + size - 1) : f[a] = u
  OBVIOUS
<1>2. Filled(m, p, size, u) = Over(f, m)
  BY Zenon DEF Filled
<1>. HIDE DEF f
<1>3. /\ Over(f, m) \in Memory
      /\ \A x \in DOMAIN f : Over(f, m)[x] = f[x]
      /\ \A x \in Addresses : x \notin DOMAIN f => Over(f, m)[x] = m[x]
  BY <1>1, OverFacts
<1>. QED
  BY <1>1, <1>2, <1>3 DEF Elsewhere

\* A header written.
HasHeader(m, m2, b, next, prev, free, size) ==
  /\ m2 \in Memory
  /\ m2[b + NEXT] = next /\ m2[b + PREV] = prev
  /\ m2[b + FREE] = free /\ m2[b + SIZE] = size
  /\ Elsewhere(m, m2, b..(b + Header - 1))

\* set_contents_safe writes its four words and nothing else.
LEMMA HeaderFacts ==
  ASSUME NEW m \in Memory, NEW b \in Nat, b..(b + Header - 1) \subseteq Addresses,
         NEW next \in Nat, NEW prev \in Nat, NEW free \in Nat, NEW size \in Nat
  PROVE  HasHeader(m, set_contents_safe(m, b, next, prev, free, size),
                   b, next, prev, free, size)
<1>. DEFINE x == Put(m, b + NEXT, next)
            y == Put(x, b + PREV, prev)
            z == Put(y, b + FREE, free)
            w == Put(z, b + SIZE, size)
<1>1. /\ b + NEXT \in Addresses /\ b + PREV \in Addresses
      /\ b + FREE \in Addresses /\ b + SIZE \in Addresses
  BY DEF NEXT, PREV, FREE, SIZE, Header
<1>2. /\ x \in Memory /\ x[b + NEXT] = next
      /\ Elsewhere(m, x, {b + NEXT})
  BY <1>1, PutFacts, Zenon
<1>. HIDE DEF x
<1>3. /\ y \in Memory /\ y[b + PREV] = prev
      /\ Elsewhere(x, y, {b + PREV})
  BY <1>1, <1>2, PutFacts, Zenon
<1>. HIDE DEF y
<1>4. /\ z \in Memory /\ z[b + FREE] = free
      /\ Elsewhere(y, z, {b + FREE})
  BY <1>1, <1>3, PutFacts, Zenon
<1>. HIDE DEF z
<1>5. /\ w \in Memory /\ w[b + SIZE] = size
      /\ Elsewhere(z, w, {b + SIZE})
  BY <1>1, <1>4, PutFacts, Zenon
<1>6. set_contents_safe(m, b, next, prev, free, size) = w
  BY Zenon DEF set_contents_safe, w, x, y, z
<1>. HIDE DEF w
<1>7. w[b + NEXT] = next /\ w[b + PREV] = prev /\ w[b + FREE] = free
  BY <1>1, <1>2, <1>3, <1>4, <1>5 DEF NEXT, PREV, FREE, SIZE, Elsewhere
<1>8. ASSUME NEW a \in Addresses, a \notin b..(b + Header - 1) PROVE w[a] = m[a]
  <2>1. a # b + NEXT /\ a # b + PREV /\ a # b + FREE /\ a # b + SIZE
    BY <1>8 DEF NEXT, PREV, FREE, SIZE, Header
  <2>. QED
    BY <2>1, <1>2, <1>3, <1>4, <1>5 DEF Elsewhere
<1>. QED
  BY <1>5, <1>6, <1>7, <1>8, Zenon DEF Elsewhere, HasHeader

-----------------------------------------------------------------------------
(* The walk *)

\* Where the walk stands after n steps, given where it stood before the last.
Walks(f, base, m, k) ==
  f = [n \in 0..k |-> IF n = 0 THEN base
                      ELSE IF f[n - 1] = NULL THEN NULL ELSE m[f[n - 1] + NEXT]]

\* A walk of every length exists.
LEMMA WalkExists ==
  ASSUME NEW base, NEW m, NEW k \in Nat
  PROVE  \E f : Walks(f, base, m, k)
<1>. DEFINE T == {j \in Nat : ~\E f : Walks(f, base, m, j)}
<1>. SUFFICES ASSUME T # {} PROVE FALSE
  OBVIOUS
<1>1. PICK j \in T : \A i \in T : j <= i
  BY Least
<1>2. j \in Nat /\ ~\E f : Walks(f, base, m, j)
  OBVIOUS
<1>3. CASE j = 0
  <2>. DEFINE f == [n \in 0..0 |-> base]
  <2>1. Walks(f, base, m, 0)
    BY DEF Walks
  <2>. QED
    BY <1>2, <1>3, <2>1
<1>4. CASE j # 0
  <2>1. j - 1 \in Nat /\ j - 1 \notin T
    BY <1>1, <1>2, <1>4
  <2>2. PICK f : Walks(f, base, m, j - 1)
    BY <2>1
  <2>3. f = [n \in 0..(j - 1) |-> IF n = 0 THEN base
                      ELSE IF f[n - 1] = NULL THEN NULL ELSE m[f[n - 1] + NEXT]]
    BY <2>2, Zenon DEF Walks
  <2>. DEFINE step(b) == IF b = NULL THEN NULL ELSE m[b + NEXT]
              g == [n \in 0..j |-> IF n = j THEN step(f[j - 1]) ELSE f[n]]
  <2>4. \A n \in 0..(j - 1) : f[n] = IF n = 0 THEN base ELSE step(f[n - 1])
    BY <2>3, <2>1
  <2>. HIDE DEF step
  <2>5. \A n \in 0..j : g[n] = IF n = 0 THEN base ELSE step(g[n - 1])
    BY <2>1, <2>4, <1>2, <1>4
  <2>6. g = [n \in 0..j |-> g[n]]
    OBVIOUS
  <2>. HIDE DEF g
  <2>7. g = [n \in 0..j |-> IF n = 0 THEN base ELSE step(g[n - 1])]
    BY <2>5, <2>6, Zenon
  <2>8. Walks(g, base, m, j)
    BY <2>7, Zenon DEF Walks, step
  <2>. QED
    BY <1>2, <2>8
<1>. QED
  BY <1>3, <1>4

\* The walk starts at the first block and goes along next until it ends.
LEMMA WalkFacts ==
  ASSUME NEW h
  PROVE  /\ DOMAIN Walk(h) = 0..(HeapWords \div Header)
         /\ Walk(h)[0] = h.global_base
         /\ \A n \in 1..(HeapWords \div Header) :
              Walk(h)[n] = IF Walk(h)[n - 1] = NULL THEN NULL ELSE h.mem[Walk(h)[n - 1] + NEXT]
<1>. DEFINE k == HeapWords \div Header
            f == Walk(h)
<1>1. k \in Nat
  BY HeapAssumption DEF Header
<1>2. f = CHOOSE g : Walks(g, h.global_base, h.mem, k)
  BY Zenon DEF Walk, Walks
<1>3. Walks(f, h.global_base, h.mem, k)
  BY <1>1, <1>2, WalkExists, Zenon
<1>. HIDE DEF f
<1>4. f = [n \in 0..k |-> IF n = 0 THEN h.global_base
                      ELSE IF f[n - 1] = NULL THEN NULL ELSE h.mem[f[n - 1] + NEXT]]
  BY <1>3, Zenon DEF Walks
<1>. HIDE DEF k
<1>5. DOMAIN f = 0..k
  BY <1>4
<1>6. f[0] = h.global_base
  BY <1>1, <1>4
<1>7. \A n \in 1..k : f[n] = IF f[n - 1] = NULL THEN NULL ELSE h.mem[f[n - 1] + NEXT]
  BY <1>1, <1>4
<1>. QED
  BY <1>5, <1>6, <1>7 DEF f, k

-----------------------------------------------------------------------------
(* What the tiling says *)

\* Every word of a block is a word of the heap.
LEMMA BlockFacts ==
  ASSUME NEW m, NEW top, NEW base, NEW S, Tiled(m, top, base, S), NEW b \in S
  PROVE  /\ b \in Nat /\ Base <= b /\ b # NULL
         /\ m[b + NEXT] \in Nat /\ m[b + PREV] \in Nat
         /\ m[b + FREE] \in Nat /\ m[b + SIZE] \in Nat
         /\ End(m, b) = b + Header + m[b + SIZE] /\ End(m, b) <= top
         /\ top \in Nat /\ top <= Base + HeapWords
         /\ b..(b + Header - 1) \subseteq Addresses
         /\ Payload(m, b) = (b + Header)..(End(m, b) - 1) /\ Payload(m, b) \subseteq Addresses
         /\ Extent(m, b) = b..(End(m, b) - 1) /\ Extent(m, b) \subseteq Addresses
<1>1. /\ m \in Memory /\ top \in Base..(Base + HeapWords)
      /\ b \in Base..(top - Header) /\ End(m, b) <= top
  BY DEF Tiled, Memory
<1>2. Base \in Nat /\ HeapWords \in Nat /\ Base # NULL
  BY HeapAssumption
<1>3. /\ b \in Nat /\ b # NULL /\ Base <= b /\ top \in Nat /\ top <= Base + HeapWords
      /\ b + Header <= top
  BY <1>1, <1>2 DEF NULL, Header
<1>4. /\ b + NEXT \in Addresses /\ b + PREV \in Addresses
      /\ b + FREE \in Addresses /\ b + SIZE \in Addresses
      /\ b..(b + Header - 1) \subseteq Addresses
  BY <1>2, <1>3 DEF NEXT, PREV, FREE, SIZE, Header, Addresses
<1>5. /\ m[b + NEXT] \in Nat /\ m[b + PREV] \in Nat
      /\ m[b + FREE] \in Nat /\ m[b + SIZE] \in Nat
  BY <1>1, <1>4 DEF Memory
<1>6. End(m, b) = b + Header + m[b + SIZE]
  BY DEF End
<1>7. End(m, b) \in Nat /\ b + Header <= End(m, b)
  BY <1>3, <1>5, <1>6 DEF Header
<1>8. Payload(m, b) = (b + Header)..(End(m, b) - 1) /\ Extent(m, b) = b..(End(m, b) - 1)
  <2>1. b + Header + m[b + SIZE] - 1 = End(m, b) - 1
    BY <1>3, <1>5, <1>6 DEF Header
  <2>. QED
    BY <2>1, Zenon DEF Payload, Extent
<1>9. \A x \in b..(End(m, b) - 1) : x \in Addresses
  BY <1>1, <1>2, <1>3, <1>7 DEF Addresses
<1>10. \A x \in (b + Header)..(End(m, b) - 1) : x \in Addresses
  BY <1>1, <1>2, <1>3, <1>7 DEF Addresses, Header
<1>. QED
  BY <1>1, <1>3, <1>4, <1>5, <1>6, <1>8, <1>9, <1>10

\* Two blocks have no word in common.
LEMMA Apart ==
  ASSUME NEW m, NEW top, NEW base, NEW S, Tiled(m, top, base, S),
         NEW b \in S, NEW c \in S, b # c
  PROVE  Extent(m, b) \cap Extent(m, c) = {}
<1>1. /\ b \in Nat /\ c \in Nat /\ m[b + SIZE] \in Nat /\ m[c + SIZE] \in Nat
      /\ End(m, b) = b + Header + m[b + SIZE] /\ End(m, c) = c + Header + m[c + SIZE]
      /\ Extent(m, b) = b..(End(m, b) - 1) /\ Extent(m, c) = c..(End(m, c) - 1)
  BY BlockFacts
<1>2. (b < c => End(m, b) <= c) /\ (c < b => End(m, c) <= b)
  BY DEF Tiled
<1>3. End(m, b) \in Nat /\ End(m, c) \in Nat
  BY <1>1 DEF Header
<1>4. \A x \in b..(End(m, b) - 1) : x \notin c..(End(m, c) - 1)
  BY <1>1, <1>2, <1>3
<1>. QED
  BY <1>1, <1>4

\* What leaves every word outside one block alone leaves the headers and the
\* contents of the others alone.
LEMMA OthersAlone ==
  ASSUME NEW m, NEW top, NEW base, NEW S, Tiled(m, top, base, S),
         NEW c \in S, NEW m2, Elsewhere(m, m2, Extent(m, c)),
         NEW b \in S, b # c
  PROVE  /\ m2[b + NEXT] = m[b + NEXT] /\ m2[b + PREV] = m[b + PREV]
         /\ m2[b + FREE] = m[b + FREE] /\ m2[b + SIZE] = m[b + SIZE]
         /\ \A a \in Payload(m, b) : m2[a] = m[a]
<1>1. /\ b \in Nat /\ m[b + SIZE] \in Nat
      /\ End(m, b) = b + Header + m[b + SIZE]
      /\ Extent(m, b) = b..(End(m, b) - 1) /\ Payload(m, b) = (b + Header)..(End(m, b) - 1)
      /\ Extent(m, b) \subseteq Addresses
  BY BlockFacts
<1>2. \A a \in Extent(m, b) : m2[a] = m[a]
  BY <1>1, Apart, Zenon DEF Elsewhere
<1>3. /\ b + NEXT \in b..(End(m, b) - 1) /\ b + PREV \in b..(End(m, b) - 1)
      /\ b + FREE \in b..(End(m, b) - 1) /\ b + SIZE \in b..(End(m, b) - 1)
  <2>. DEFINE s == m[b + SIZE]
              e == End(m, b)
  <2>1. s \in Nat /\ e = b + Header + s /\ b \in Nat
    BY <1>1
  <2>. HIDE DEF s, e
  <2>2. /\ b + NEXT \in b..(e - 1) /\ b + PREV \in b..(e - 1)
        /\ b + FREE \in b..(e - 1) /\ b + SIZE \in b..(e - 1)
    BY <2>1 DEF NEXT, PREV, FREE, SIZE, Header
  <2>. QED
    BY <2>2 DEF e
<1>4. Payload(m, b) \subseteq Extent(m, b)
  BY <1>1 DEF Header
<1>. QED
  BY <1>1, <1>2, <1>3, <1>4

\* The walk goes through the tiles and nothing else.
LEMMA BlocksAre ==
  ASSUME NEW h, NEW S, Tiled(h.mem, h.brk, h.global_base, S)
  PROVE  Blocks(h) = S
<1>. DEFINE k == HeapWords \div Header
            f == Walk(h)
            m == h.mem
<1>1. /\ HeapWords \in Nat /\ Base \in Nat /\ k \in Nat
      /\ HeapWords < Header * (k + 1)
  BY HeapAssumption DEF Header
<1>2. /\ DOMAIN f = 0..k /\ f[0] = h.global_base
      /\ \A n \in 1..k : f[n] = IF f[n - 1] = NULL THEN NULL ELSE m[f[n - 1] + NEXT]
  BY WalkFacts
<1>3. \/ S = {} /\ h.global_base = NULL
      \/ Base \in S /\ h.global_base = Base
  BY DEF Tiled
<1>4. \A b \in S : /\ m[b + NEXT] = NULL \/ (m[b + NEXT] = End(m, b) /\ End(m, b) \in S)
                   /\ b = Base \/ \E c \in S : End(m, c) = b
  BY Zenon DEF Tiled, m
<1>5. \A b \in S : /\ b \in Nat /\ b # NULL /\ m[b + SIZE] \in Nat
                   /\ End(m, b) = b + Header + m[b + SIZE]
                   /\ End(m, b) <= Base + HeapWords
                   /\ m[b + NEXT] = NULL => End(m, b) = h.brk
  <2>. TAKE b \in S
  <2>1. /\ b \in Nat /\ b # NULL /\ m[b + SIZE] \in Nat
        /\ End(m, b) = b + Header + m[b + SIZE]
        /\ End(m, b) <= h.brk /\ h.brk \in Nat /\ h.brk <= Base + HeapWords
    BY BlockFacts
  <2>2. End(m, b) \in Nat
    BY <2>1 DEF Header
  <2>3. m[b + NEXT] = NULL => End(m, b) = h.brk
    <3>1. \/ m[b + NEXT] = NULL /\ End(m, b) = h.brk
          \/ m[b + NEXT] = End(m, b) /\ End(m, b) \in S
      BY Zenon DEF Tiled, m
    <3>. QED
      BY <3>1, <2>1, <2>2 DEF NULL, Header
  <2>. QED
    BY <1>1, <2>1, <2>2, <2>3
<1>. HIDE DEF f, k, m
\* The walk stays among the tiles, and each step leads at least a header on.
<1>6. \A n \in 0..k : f[n] = NULL \/ (f[n] \in S /\ f[n] >= Base + Header * n)
  <2>. DEFINE T == {n \in 0..k : f[n] # NULL /\ ~(f[n] \in S /\ f[n] >= Base + Header * n)}
  <2>. SUFFICES ASSUME T # {} PROVE FALSE
    OBVIOUS
  <2>1. T \subseteq Nat
    BY <1>1
  <2>2. PICK n \in T : \A i \in T : n <= i
    BY <2>1, Least
  <2>3. n \in 0..k /\ f[n] # NULL /\ ~(f[n] \in S /\ f[n] >= Base + Header * n)
    BY Zenon
  <2>4. n # 0
    BY <1>1, <1>2, <1>3, <2>3 DEF Header
  <2>5. n - 1 \in 0..k /\ n - 1 \notin T /\ n \in 1..k
    BY <1>1, <2>2, <2>3, <2>4
  <2>6. f[n - 1] # NULL /\ f[n - 1] \in S /\ f[n - 1] >= Base + Header * (n - 1)
    BY <1>2, <2>3, <2>5
  <2>7. f[n] = m[f[n - 1] + NEXT] /\ f[n] = End(m, f[n - 1]) /\ f[n] \in S
    BY <1>2, <1>4, <2>3, <2>5, <2>6
  <2>8. /\ f[n - 1] \in Nat /\ m[f[n - 1] + SIZE] \in Nat
        /\ f[n] = f[n - 1] + Header + m[f[n - 1] + SIZE]
    BY <1>5, <2>6, <2>7
  <2>9. f[n] >= Base + Header * n
    BY <1>1, <2>3, <2>6, <2>8 DEF Header
  <2>. QED
    BY <2>3, <2>7, <2>9
\* The least tile that it misses would follow one that it reaches.
<1>7. \A b \in S : \E n \in 0..k : f[n] = b
  <2>. DEFINE T == {b \in S : ~\E n \in 0..k : f[n] = b}
  <2>. SUFFICES ASSUME T # {} PROVE FALSE
    OBVIOUS
  <2>1. T \subseteq Nat
    BY <1>5
  <2>2. PICK b \in T : \A c \in T : b <= c
    BY <2>1, Least
  <2>3. b \in S /\ ~\E n \in 0..k : f[n] = b
    OBVIOUS
  <2>4. b # Base
    BY <1>1, <1>2, <1>3, <2>3
  <2>5. PICK c \in S : End(m, c) = b
    BY <1>4, <2>3, <2>4
  <2>6. c \in Nat /\ c # NULL /\ m[c + SIZE] \in Nat /\ b = c + Header + m[c + SIZE] /\ b \in Nat
    BY <1>5, <2>3, <2>5
  <2>7. c \notin T
    BY <2>2, <2>6 DEF Header
  <2>8. PICK n \in 0..k : f[n] = c
    BY <2>7
  <2>9. c >= Base + Header * n
    BY <1>6, <2>6, <2>8
  <2>10. b + Header <= Base + HeapWords
    <3>1. /\ m[b + SIZE] \in Nat /\ End(m, b) = b + Header + m[b + SIZE]
          /\ End(m, b) <= Base + HeapWords
      BY <1>5, <2>3
    <3>. QED
      BY <1>1, <2>6, <3>1 DEF Header
  <2>11. n + 1 \in 1..k /\ n + 1 - 1 = n
    BY <1>1, <2>6, <2>8, <2>9, <2>10 DEF Header
  <2>12. f[n + 1] = m[c + NEXT]
    BY <1>2, <2>6, <2>8, <2>11
  <2>13. m[c + NEXT] # NULL
    <3>1. m[b + SIZE] \in Nat /\ End(m, b) = b + Header + m[b + SIZE] /\ End(m, b) <= h.brk
          /\ h.brk \in Nat
      BY <2>3, BlockFacts DEF m
    <3>. QED
      BY <1>5, <2>5, <2>6, <3>1 DEF Header
  <2>14. f[n + 1] = b
    BY <1>4, <2>5, <2>12, <2>13
  <2>. QED
    BY <2>3, <2>11, <2>14
<1>8. Blocks(h) = {f[n] : n \in 0..k} \ {NULL}
  BY <1>2, Zenon DEF Blocks, f
<1>. QED
  BY <1>5, <1>6, <1>7, <1>8

\* First fit finds a free block that is large enough, or none.
LEMMA FirstFit ==
  ASSUME NEW h, NEW S, Tiled(h.mem, h.brk, h.global_base, S), NEW size \in Nat,
         NEW b, b = free_block_or_nah(h, size), b # NULL
  PROVE  b \in S /\ h.mem[b + FREE] # 0 /\ h.mem[b + SIZE] >= size
<1>. DEFINE walk == Walk(h)
            Fits(c) == c # NULL /\ h.mem[c + FREE] # 0 /\ h.mem[c + SIZE] >= size
            fits == {n \in DOMAIN walk : Fits(walk[n])}
            n == CHOOSE i \in fits : \A j \in fits : i <= j
<1>1. b = IF fits = {} THEN NULL ELSE walk[n]
  BY Zenon DEF free_block_or_nah
<1>2. fits # {}
  BY <1>1
<1>3. fits \subseteq Nat
  BY WalkFacts, HeapAssumption DEF Header
<1>4. \E i \in fits : \A j \in fits : i <= j
  BY <1>2, <1>3, Least, Zenon
<1>5. n \in fits
  BY <1>4, Zenon
<1>6. b = walk[n] /\ n \in DOMAIN walk /\ Fits(b)
  BY <1>1, <1>2, <1>5, Zenon
<1>7. b \in Blocks(h)
  BY <1>6, Zenon DEF Blocks
<1>. QED
  BY <1>6, <1>7, BlocksAre

\* The last block of the walk is the one that ends at brk.
LEMMA LastFacts ==
  ASSUME NEW h, NEW S, Tiled(h.mem, h.brk, h.global_base, S)
  PROVE  \/ Last(h) = NULL /\ S = {} /\ h.global_base = NULL /\ h.brk = Base
         \/ /\ Last(h) \in S /\ h.mem[Last(h) + NEXT] = NULL /\ End(h.mem, Last(h)) = h.brk
            /\ Last(h) # NULL /\ h.global_base = Base /\ Base \in S
<1>1. CASE h.global_base = NULL
  <2>1. Base # NULL
    BY HeapAssumption DEF NULL
  <2>2. S = {} /\ h.brk = Base
    BY <1>1, <2>1, Zenon DEF Tiled
  <2>. QED
    BY <1>1, <2>2, Zenon DEF Last
<1>2. CASE h.global_base # NULL
  <2>1. Base \in S /\ h.global_base = Base /\ \E b \in S : h.mem[b + NEXT] = NULL
    BY <1>2, Zenon DEF Tiled
  <2>2. Last(h) = CHOOSE b \in S : h.mem[b + NEXT] = NULL
    BY <1>2, BlocksAre, Zenon DEF Last
  <2>3. Last(h) \in S /\ h.mem[Last(h) + NEXT] = NULL
    BY <2>1, <2>2, Zenon
  <2>4. \/ End(h.mem, Last(h)) = h.brk
        \/ h.mem[Last(h) + NEXT] = End(h.mem, Last(h)) /\ End(h.mem, Last(h)) \in S
    BY <2>3, Zenon DEF Tiled
  <2>5. ~(NULL \in S) /\ Last(h) # NULL
    BY <2>3, BlockFacts
  <2>. QED
    BY <2>1, <2>3, <2>4, <2>5
<1>. QED
  BY <1>1, <1>2

-----------------------------------------------------------------------------
(* What may be done to a tiling *)

\* Block b has the same size and leads to the same blocks in m2 as in m.
SameLinks(m, m2, b) ==
  /\ m2[b + NEXT] = m[b + NEXT] /\ m2[b + PREV] = m[b + PREV] /\ m2[b + SIZE] = m[b + SIZE]

\* Where the blocks lie, in numbers.
LEMMA TileFacts ==
  ASSUME NEW m, NEW top, NEW base, NEW S, Tiled(m, top, base, S)
  PROVE  /\ Base \in Nat /\ top \in Nat /\ Base <= top /\ top <= Base + HeapWords
         /\ NULL \notin S
         /\ \A b \in S : /\ b \in Nat /\ Base <= b /\ b # NULL
                         /\ End(m, b) \in Nat /\ b + Header <= End(m, b) /\ End(m, b) <= top
                         /\ \/ m[b + NEXT] = NULL /\ End(m, b) = top
                            \/ m[b + NEXT] = End(m, b) /\ End(m, b) \in S
                         /\ m[b + PREV] = NULL \/ m[b + PREV] \in Base..(b - Header)
                         /\ b = Base \/ \E c \in S : End(m, c) = b
         /\ \A b, c \in S : b < c => End(m, b) <= c
<1>1. Base \in Nat /\ top \in Nat /\ Base <= top /\ top <= Base + HeapWords
  <2>1. top \in Base..(Base + HeapWords)
    BY Zenon DEF Tiled
  <2>. QED
    BY <2>1, HeapAssumption
<1>2. ASSUME NEW b \in S
      PROVE  /\ b \in Nat /\ Base <= b /\ b # NULL
             /\ End(m, b) \in Nat /\ b + Header <= End(m, b) /\ End(m, b) <= top
  BY BlockFacts DEF Header
<1>3. ASSUME NEW b \in S
      PROVE  /\ \/ m[b + NEXT] = NULL /\ End(m, b) = top
                \/ m[b + NEXT] = End(m, b) /\ End(m, b) \in S
             /\ m[b + PREV] = NULL \/ m[b + PREV] \in Base..(b - Header)
             /\ b = Base \/ \E c \in S : End(m, c) = b
  BY Zenon DEF Tiled
<1>4. \A b, c \in S : b < c => End(m, b) <= c
  BY Zenon DEF Tiled
<1>5. NULL \notin S
  BY <1>2
<1>. QED
  BY <1>1, <1>2, <1>3, <1>4, <1>5, Zenon

\* To be a tiling, in the same form.
LEMMA TiledIf ==
  ASSUME NEW m \in Memory, NEW top \in Nat, Base <= top, top <= Base + HeapWords,
         NEW base, NEW S,
         \/ S = {} /\ base = NULL /\ top = Base
         \/ Base \in S /\ base = Base /\ \E b \in S : m[b + NEXT] = NULL,
         \A b \in S : /\ b \in Nat /\ Base <= b
                      /\ End(m, b) \in Nat /\ b + Header <= End(m, b) /\ End(m, b) <= top,
         \A b \in S : \/ m[b + NEXT] = NULL /\ End(m, b) = top
                      \/ m[b + NEXT] = End(m, b) /\ End(m, b) \in S,
         \A b \in S : m[b + PREV] = NULL \/ m[b + PREV] \in Base..(b - Header),
         \A b \in S : b = Base \/ \E c \in S : End(m, c) = b,
         \A b, c \in S : b < c => End(m, b) <= c
  PROVE  Tiled(m, top, base, S)
<1>1. top \in Base..(Base + HeapWords)
  BY HeapAssumption
<1>2. \A b \in S : b \in Base..(top - Header)
  <2>. TAKE b \in S
  <2>1. /\ b \in Nat /\ Base <= b
        /\ End(m, b) \in Nat /\ b + Header <= End(m, b) /\ End(m, b) <= top
    OBVIOUS
  <2>. QED
    BY <2>1, HeapAssumption DEF Header
<1>. QED
  BY <1>1, <1>2, Zenon DEF Tiled, Memory

\* Writing anywhere else leaves the tiling as it is.
LEMMA Relinked ==
  ASSUME NEW m, NEW top, NEW base, NEW S, Tiled(m, top, base, S),
         NEW m2 \in Memory, \A b \in S : SameLinks(m, m2, b)
  PROVE  Tiled(m2, top, base, S)
<1>1. \A b \in S : m2[b + NEXT] = m[b + NEXT] /\ m2[b + PREV] = m[b + PREV]
                   /\ m2[b + SIZE] = m[b + SIZE] /\ End(m2, b) = End(m, b)
  BY Zenon DEF SameLinks, End
<1>2. m2 \in [Addresses -> Nat]
  BY DEF Memory
<1>3. \/ S = {} /\ base = NULL /\ top = Base
      \/ Base \in S /\ base = Base /\ \E b \in S : m2[b + NEXT] = NULL
  <2>1. \/ S = {} /\ base = NULL /\ top = Base
        \/ Base \in S /\ base = Base /\ \E b \in S : m[b + NEXT] = NULL
    BY Zenon DEF Tiled
  <2>. QED
    BY <1>1, <2>1, Zenon
<1>4. ASSUME NEW b \in S
      PROVE /\ b \in Base..(top - Header) /\ End(m2, b) <= top
            /\ \/ m2[b + NEXT] = NULL /\ End(m2, b) = top
               \/ m2[b + NEXT] = End(m2, b) /\ End(m2, b) \in S
            /\ m2[b + PREV] = NULL \/ m2[b + PREV] \in Base..(b - Header)
            /\ b = Base \/ \E c \in S : End(m2, c) = b
  <2>1. /\ b \in Base..(top - Header) /\ End(m, b) <= top
        /\ \/ m[b + NEXT] = NULL /\ End(m, b) = top
           \/ m[b + NEXT] = End(m, b) /\ End(m, b) \in S
        /\ m[b + PREV] = NULL \/ m[b + PREV] \in Base..(b - Header)
        /\ b = Base \/ \E c \in S : End(m, c) = b
    BY Zenon DEF Tiled
  <2>2. /\ m2[b + NEXT] = m[b + NEXT] /\ m2[b + PREV] = m[b + PREV] /\ End(m2, b) = End(m, b)
    BY <1>1
  <2>3. b = Base \/ \E c \in S : End(m2, c) = b
    BY <1>1, <2>1, Zenon
  <2>. QED
    BY <2>1, <2>2, <2>3, Zenon
<1>5. \A b, c \in S : b < c => End(m2, b) <= c
  <2>1. \A b, c \in S : b < c => End(m, b) <= c
    BY Zenon DEF Tiled
  <2>. QED
    BY <1>1, <2>1, Zenon
<1>6. top \in Base..(Base + HeapWords)
  BY Zenon DEF Tiled
<1>. QED
  BY <1>2, <1>3, <1>4, <1>5, <1>6, Zenon DEF Tiled

\* A block that takes in its next.
LEMMA Merged ==
  ASSUME NEW m, NEW top, NEW base, NEW S, Tiled(m, top, base, S),
         NEW b \in S, NEW f \in S, m[b + NEXT] = f,
         NEW m2 \in Memory,
         m2[b + NEXT] = m[f + NEXT], m2[b + PREV] = m[b + PREV],
         m2[b + SIZE] = m[b + SIZE] + Header + m[f + SIZE],
         \A c \in S \ {b, f} : SameLinks(m, m2, c)
  PROVE  Tiled(m2, top, base, S \ {f})
<1>. DEFINE e(x) == End(m, x)
            e2(x) == End(m2, x)
<1>1. /\ Base \in Nat /\ top \in Nat /\ Base <= top /\ top <= Base + HeapWords
      /\ NULL \notin S
      /\ \A x \in S : /\ x \in Nat /\ Base <= x /\ x # NULL
                      /\ e(x) \in Nat /\ x + Header <= e(x) /\ e(x) <= top
                      /\ \/ m[x + NEXT] = NULL /\ e(x) = top
                         \/ m[x + NEXT] = e(x) /\ e(x) \in S
                      /\ m[x + PREV] = NULL \/ m[x + PREV] \in Base..(x - Header)
                      /\ x = Base \/ \E c \in S : e(c) = x
      /\ \A x, y \in S : x < y => e(x) <= y
  BY TileFacts
<1>2. e2(b) = e(f)
  <2>1. /\ b \in Nat /\ m[b + SIZE] \in Nat /\ e(b) = b + Header + m[b + SIZE]
        /\ f \in Nat /\ m[f + SIZE] \in Nat /\ e(f) = f + Header + m[f + SIZE]
    BY BlockFacts
  <2>2. e2(b) = b + Header + (m[b + SIZE] + Header + m[f + SIZE])
    BY DEF End
  <2>3. e(b) = f
    BY <1>1
  <2>. HIDE DEF e, e2
  <2>. QED
    BY <2>1, <2>2, <2>3 DEF Header
<1>3. \A x \in S \ {b, f} : /\ e2(x) = e(x) /\ m2[x + NEXT] = m[x + NEXT]
                            /\ m2[x + PREV] = m[x + PREV]
  BY Zenon DEF SameLinks, End
<1>. HIDE DEF e, e2
<1>4. e(b) = f /\ b < f /\ b # f /\ f < e(f) /\ b \in S \ {f}
  BY <1>1 DEF Header
<1>5. \/ S \ {f} = {} /\ base = NULL /\ top = Base
      \/ Base \in S \ {f} /\ base = Base /\ \E x \in S \ {f} : m2[x + NEXT] = NULL
  <2>1. Base \in S /\ base = Base /\ \E x \in S : m[x + NEXT] = NULL
    BY Zenon DEF Tiled
  <2>2. Base # f
    BY <1>1, <1>4
  <2>3. PICK x \in S : m[x + NEXT] = NULL
    BY <2>1
  <2>4. x # b
    BY <1>1, <2>3
  <2>5. CASE x = f
    BY <1>4, <2>1, <2>2, <2>3, <2>5
  <2>6. CASE x # f
    BY <1>3, <2>1, <2>2, <2>3, <2>4, <2>6
  <2>. QED
    BY <2>5, <2>6
<1>6. ASSUME NEW x \in S \ {f}
      PROVE  /\ x \in Nat /\ Base <= x
             /\ e2(x) \in Nat /\ x + Header <= e2(x) /\ e2(x) <= top
             /\ \/ m2[x + NEXT] = NULL /\ e2(x) = top
                \/ m2[x + NEXT] = e2(x) /\ e2(x) \in S \ {f}
             /\ m2[x + PREV] = NULL \/ m2[x + PREV] \in Base..(x - Header)
             /\ x = Base \/ \E c \in S \ {f} : e2(c) = x
  <2>1. /\ x \in Nat /\ Base <= x
        /\ e(x) \in Nat /\ x + Header <= e(x) /\ e(x) <= top
        /\ \/ m[x + NEXT] = NULL /\ e(x) = top
           \/ m[x + NEXT] = e(x) /\ e(x) \in S
        /\ m[x + PREV] = NULL \/ m[x + PREV] \in Base..(x - Header)
    BY <1>1
  <2>2. x = Base \/ \E c \in S \ {f} : e2(c) = x
    <3>1. SUFFICES ASSUME x # Base PROVE \E c \in S \ {f} : e2(c) = x
      OBVIOUS
    <3>2. PICK c \in S : e(c) = x
      BY <1>1, <3>1
    <3>3. c # b
      BY <1>4, <3>2
    <3>4. CASE c = f
      BY <1>2, <1>4, <3>2, <3>4
    <3>5. CASE c # f
      BY <1>3, <3>2, <3>3, <3>5
    <3>. QED
      BY <3>4, <3>5
  <2>3. CASE x = b
    <3>1. /\ f \in Nat /\ e(f) \in Nat /\ f + Header <= e(f) /\ e(f) <= top
          /\ \/ m[f + NEXT] = NULL /\ e(f) = top
             \/ m[f + NEXT] = e(f) /\ e(f) \in S
      BY <1>1
    <3>2. x + Header <= e(f) /\ e(f) # f
      BY <1>4, <2>1, <2>3, <3>1 DEF Header
    <3>. QED
      BY <1>2, <2>1, <2>2, <2>3, <3>1, <3>2
  <2>4. CASE x # b
    <3>1. (x < b => e(x) <= b) /\ (b < x => e(b) <= x) /\ b \in Nat /\ f \in Nat
      BY <1>1
    <3>2. e(x) # f
      BY <1>4, <2>1, <2>4, <3>1 DEF Header
    <3>. QED
      BY <1>3, <2>1, <2>2, <2>4, <3>2
  <2>. QED
    BY <2>3, <2>4
<1>7. ASSUME NEW x \in S \ {f}, NEW y \in S \ {f}, x < y
      PROVE  e2(x) <= y
  <2>1. x \in Nat /\ y \in Nat /\ f \in Nat /\ e(x) <= y /\ (f < y => e(f) <= y)
    BY <1>1, <1>7
  <2>2. CASE x = b
    BY <1>2, <1>4, <2>1, <2>2
  <2>3. CASE x # b
    BY <1>3, <2>1, <2>3
  <2>. QED
    BY <2>2, <2>3
<1>. QED
  BY <1>1, <1>5, <1>6, <1>7, TiledIf DEF e2

\* A block cut in two.
LEMMA Split ==
  ASSUME NEW m, NEW top, NEW base, NEW S, Tiled(m, top, base, S),
         NEW b \in S, NEW k \in Nat, k + Header <= m[b + SIZE],
         NEW z, z = b + Header + k,
         NEW m2 \in Memory,
         m2[b + NEXT] = z, m2[b + PREV] = m[b + PREV], m2[b + SIZE] = k,
         m2[z + NEXT] = m[b + NEXT], m2[z + PREV] = b,
         m2[z + SIZE] = m[b + SIZE] - k - Header,
         \A c \in S \ {b} : SameLinks(m, m2, c)
  PROVE  Tiled(m2, top, base, S \cup {z})
<1>. DEFINE e(x) == End(m, x)
            e2(x) == End(m2, x)
<1>1. /\ Base \in Nat /\ top \in Nat /\ Base <= top /\ top <= Base + HeapWords
      /\ NULL \notin S
      /\ \A x \in S : /\ x \in Nat /\ Base <= x /\ x # NULL
                      /\ e(x) \in Nat /\ x + Header <= e(x) /\ e(x) <= top
                      /\ \/ m[x + NEXT] = NULL /\ e(x) = top
                         \/ m[x + NEXT] = e(x) /\ e(x) \in S
                      /\ m[x + PREV] = NULL \/ m[x + PREV] \in Base..(x - Header)
                      /\ x = Base \/ \E c \in S : e(c) = x
      /\ \A x, y \in S : x < y => e(x) <= y
  BY TileFacts
<1>2. e2(b) = z /\ e2(z) = e(b) /\ z \in Nat /\ b + Header <= z /\ z + Header <= e(b)
  <2>1. b \in Nat /\ m[b + SIZE] \in Nat /\ e(b) = b + Header + m[b + SIZE]
    BY BlockFacts
  <2>2. e2(b) = b + Header + k /\ e2(z) = z + Header + (m[b + SIZE] - k - Header)
    BY DEF End
  <2>. HIDE DEF e, e2
  <2>. QED
    BY <2>1, <2>2 DEF Header
<1>3. \A x \in S \ {b} : /\ e2(x) = e(x) /\ m2[x + NEXT] = m[x + NEXT]
                         /\ m2[x + PREV] = m[x + PREV]
  BY Zenon DEF SameLinks, End
<1>. HIDE DEF e, e2
<1>4. b \in Nat /\ e(b) \in Nat /\ z \notin S /\ b < z /\ z < e(b)
  BY <1>1, <1>2 DEF Header
<1>5. \/ S \cup {z} = {} /\ base = NULL /\ top = Base
      \/ Base \in S \cup {z} /\ base = Base /\ \E x \in S \cup {z} : m2[x + NEXT] = NULL
  <2>1. Base \in S /\ base = Base /\ \E x \in S : m[x + NEXT] = NULL
    BY Zenon DEF Tiled
  <2>2. PICK x \in S : m[x + NEXT] = NULL
    BY <2>1
  <2>3. CASE x = b
    BY <2>1, <2>2, <2>3
  <2>4. CASE x # b
    BY <1>3, <2>1, <2>2, <2>4
  <2>. QED
    BY <2>3, <2>4
<1>6. ASSUME NEW x \in S \cup {z}
      PROVE  /\ x \in Nat /\ Base <= x
             /\ e2(x) \in Nat /\ x + Header <= e2(x) /\ e2(x) <= top
             /\ \/ m2[x + NEXT] = NULL /\ e2(x) = top
                \/ m2[x + NEXT] = e2(x) /\ e2(x) \in S \cup {z}
             /\ m2[x + PREV] = NULL \/ m2[x + PREV] \in Base..(x - Header)
             /\ x = Base \/ \E c \in S \cup {z} : e2(c) = x
  <2>1. /\ b \in Nat /\ Base <= b /\ e(b) \in Nat /\ e(b) <= top
        /\ \/ m[b + NEXT] = NULL /\ e(b) = top
           \/ m[b + NEXT] = e(b) /\ e(b) \in S
        /\ m[b + PREV] = NULL \/ m[b + PREV] \in Base..(b - Header)
        /\ b = Base \/ \E c \in S : e(c) = b
    BY <1>1
  <2>2. CASE x = z
    <3>1. b \in Base..(z - Header) /\ Base <= z
      BY <1>1, <1>2, <2>1 DEF Header
    <3>. QED
      BY <1>2, <2>1, <2>2, <3>1
  <2>3. CASE x = b
    <3>1. z <= top /\ b # z
      BY <1>1, <1>2, <1>4, <2>1
    <3>2. b = Base \/ \E c \in S \cup {z} : e2(c) = b
      BY <1>1, <1>3, <1>4, <2>1 DEF Header
    <3>. QED
      BY <1>2, <2>1, <2>3, <3>1, <3>2
  <2>4. CASE x \in S \ {b}
    <3>1. x = Base \/ \E c \in S \cup {z} : e2(c) = x
      <4>1. SUFFICES ASSUME x # Base PROVE \E c \in S \cup {z} : e2(c) = x
        OBVIOUS
      <4>2. PICK c \in S : e(c) = x
        BY <1>1, <2>4, <4>1
      <4>3. CASE c = b
        BY <1>2, <4>2, <4>3
      <4>4. CASE c # b
        BY <1>3, <4>2, <4>4
      <4>. QED
        BY <4>3, <4>4
    <3>. QED
      BY <1>1, <1>3, <2>4, <3>1
  <2>. QED
    BY <2>2, <2>3, <2>4
<1>7. ASSUME NEW x \in S \cup {z}, NEW y \in S \cup {z}, x < y
      PROVE  e2(x) <= y
  <2>1. \A v \in S : /\ v \in Nat /\ e(v) \in Nat /\ v + Header <= e(v)
                     /\ (v < b => e(v) <= b) /\ (b < v => e(b) <= v)
    BY <1>1
  <2>2. CASE x = z
    <3>1. y \in S
      BY <1>2, <1>7, <2>2
    <3>. QED
      BY <1>2, <1>4, <1>7, <2>1, <2>2, <3>1
  <2>3. CASE x = b
    BY <1>2, <1>4, <1>7, <2>1, <2>3
  <2>4. CASE x \in S \ {b} /\ y = z
    BY <1>2, <1>3, <1>4, <1>7, <2>1, <2>4
  <2>5. CASE x \in S \ {b} /\ y \in S
    BY <1>1, <1>3, <1>7, <2>5
  <2>. QED
    BY <2>2, <2>3, <2>4, <2>5
<1>. QED
  BY <1>1, <1>5, <1>6, <1>7, TiledIf DEF e2

\* A block added at the end of the heap.
LEMMA Grown ==
  ASSUME NEW m, NEW top, NEW base, NEW S, Tiled(m, top, base, S),
         NEW size \in Nat, top + Header + size <= Base + HeapWords,
         NEW last,
         NEW m2 \in Memory,
         \/ S = {} /\ last = NULL /\ top = Base
         \/ last \in S /\ End(m, last) = top /\ base = Base /\ Base \in S
              /\ m2[last + NEXT] = top /\ m2[last + PREV] = m[last + PREV]
              /\ m2[last + SIZE] = m[last + SIZE],
         m2[top + NEXT] = NULL, m2[top + PREV] = last, m2[top + SIZE] = size,
         \A c \in S \ {last} : SameLinks(m, m2, c)
  PROVE  Tiled(m2, top + Header + size, Base, S \cup {top})
<1>. DEFINE e(x) == End(m, x)
            e2(x) == End(m2, x)
            top2 == top + Header + size
<1>1. /\ Base \in Nat /\ top \in Nat /\ Base <= top /\ top <= Base + HeapWords
      /\ NULL \notin S
      /\ \A x \in S : /\ x \in Nat /\ Base <= x /\ x # NULL
                      /\ e(x) \in Nat /\ x + Header <= e(x) /\ e(x) <= top
                      /\ \/ m[x + NEXT] = NULL /\ e(x) = top
                         \/ m[x + NEXT] = e(x) /\ e(x) \in S
                      /\ m[x + PREV] = NULL \/ m[x + PREV] \in Base..(x - Header)
                      /\ x = Base \/ \E c \in S : e(c) = x
      /\ \A x, y \in S : x < y => e(x) <= y
  BY TileFacts
<1>2. top2 \in Nat /\ top + Header <= top2 /\ top2 <= Base + HeapWords /\ e2(top) = top2
  BY <1>1 DEF End, Header
<1>3. \A x \in S \ {last} : /\ e2(x) = e(x) /\ m2[x + NEXT] = m[x + NEXT]
                            /\ m2[x + PREV] = m[x + PREV]
  BY Zenon DEF SameLinks, End
<1>4. last \in S => e2(last) = top /\ e(last) = top /\ m2[last + NEXT] = top
                    /\ m2[last + PREV] = m[last + PREV]
  BY <1>1, Zenon DEF End
<1>. HIDE DEF e, e2, top2
<1>5. top \notin S /\ \A x \in S : e2(x) = e(x) /\ m2[x + PREV] = m[x + PREV]
  BY <1>1, <1>3, <1>4 DEF Header
<1>6. \/ S \cup {top} = {} /\ Base = NULL /\ top2 = Base
      \/ Base \in S \cup {top} /\ Base = Base /\ \E x \in S \cup {top} : m2[x + NEXT] = NULL
  OBVIOUS
<1>7. ASSUME NEW x \in S \cup {top}
      PROVE  /\ x \in Nat /\ Base <= x
             /\ e2(x) \in Nat /\ x + Header <= e2(x) /\ e2(x) <= top2
             /\ \/ m2[x + NEXT] = NULL /\ e2(x) = top2
                \/ m2[x + NEXT] = e2(x) /\ e2(x) \in S \cup {top}
             /\ m2[x + PREV] = NULL \/ m2[x + PREV] \in Base..(x - Header)
             /\ x = Base \/ \E c \in S \cup {top} : e2(c) = x
  <2>1. CASE x = top
    <3>1. m2[top + PREV] = NULL \/ m2[top + PREV] \in Base..(top - Header)
      BY <1>1 DEF Header, e
    <3>2. top = Base \/ \E c \in S \cup {top} : e2(c) = top
      BY <1>4
    <3>. QED
      BY <1>1, <1>2, <2>1, <3>1, <3>2
  <2>2. CASE x \in S
    <3>1. /\ x \in Nat /\ Base <= x
          /\ e(x) \in Nat /\ x + Header <= e(x) /\ e(x) <= top
          /\ \/ m[x + NEXT] = NULL /\ e(x) = top
             \/ m[x + NEXT] = e(x) /\ e(x) \in S
          /\ m[x + PREV] = NULL \/ m[x + PREV] \in Base..(x - Header)
      BY <1>1, <2>2
    <3>2. e(x) <= top2
      BY <1>1, <1>2, <3>1 DEF Header
    <3>3. x = Base \/ \E c \in S \cup {top} : e2(c) = x
      BY <1>1, <1>5, <2>2
    <3>4. m2[x + NEXT] = e2(x) /\ e2(x) \in S \cup {top}
      <4>1. CASE x = last
        BY <1>4, <2>2, <4>1
      <4>2. CASE x # last
        <5>1. last \in S /\ last \in Nat /\ e(last) = top /\ last + Header <= e(last)
          BY <1>1, <1>4, <2>2
        <5>2. (x < last => e(x) <= last) /\ (last < x => e(last) <= x)
          BY <1>1, <2>2, <5>1
        <5>3. e(x) # top
          BY <1>1, <2>2, <3>1, <4>2, <5>1, <5>2 DEF Header
        <5>. QED
          BY <1>3, <2>2, <3>1, <4>2, <5>3
      <4>. QED
        BY <4>1, <4>2
    <3>. QED
      BY <1>5, <2>2, <3>1, <3>2, <3>3, <3>4
  <2>. QED
    BY <2>1, <2>2
<1>8. ASSUME NEW x \in S \cup {top}, NEW y \in S \cup {top}, x < y
      PROVE  e2(x) <= y
  BY <1>1, <1>5, <1>8 DEF Header
<1>9. Base <= top2
  BY <1>1, <1>2 DEF Header
<1>. QED
  BY <1>2, <1>6, <1>7, <1>8, <1>9, TiledIf DEF e2, top2

-----------------------------------------------------------------------------
(* What malloc and free do to the blocks in use *)

\* The blocks U have in m2 the sizes and the contents that they have in m.
Kept(m, m2, U) ==
  \A b \in U : m2[b + SIZE] = m[b + SIZE] /\ \A a \in Payload(m, b) : m2[a] = m[a]

\* What is kept by two changes in turn is kept by both.
LEMMA KeptTwice ==
  ASSUME NEW m, NEW m2, NEW m3, NEW U, Kept(m, m2, U), Kept(m2, m3, U)
  PROVE  Kept(m, m3, U)
<1>1. \A b \in U : /\ m2[b + SIZE] = m[b + SIZE] /\ m3[b + SIZE] = m2[b + SIZE]
                   /\ \A a \in Payload(m, b) : m2[a] = m[a]
                   /\ \A a \in Payload(m2, b) : m3[a] = m2[a]
  BY Zenon DEF Kept
<1>2. \A b \in U : Payload(m2, b) = Payload(m, b)
  BY <1>1, Zenon DEF Payload
<1>. QED
  BY <1>1, <1>2, Zenon DEF Kept

\* What is kept of all blocks of a set is kept of some of them.
LEMMA KeptLess ==
  ASSUME NEW m, NEW m2, NEW U, Kept(m, m2, U), NEW V \in SUBSET U
  PROVE  Kept(m, m2, V)
BY DEF Kept

\* Of the blocks S, only c may differ between m and m2.
OnlyIn(m, m2, S, c) ==
  /\ \A b \in S \ {c} : SameLinks(m, m2, b) /\ m2[b + FREE] = m[b + FREE]
  /\ Kept(m, m2, S \ {c})
  /\ Used(m2, S \ {c}) = Used(m, S) \ {c}

\* Words written inside one block leave the others as they are.
LEMMA OneBlock ==
  ASSUME NEW m, NEW top, NEW base, NEW S, Tiled(m, top, base, S),
         NEW c \in S, NEW m2, Elsewhere(m, m2, Extent(m, c))
  PROVE  OnlyIn(m, m2, S, c)
<1>1. ASSUME NEW b \in S \ {c}
      PROVE  /\ m2[b + NEXT] = m[b + NEXT] /\ m2[b + PREV] = m[b + PREV]
             /\ m2[b + FREE] = m[b + FREE] /\ m2[b + SIZE] = m[b + SIZE]
             /\ \A a \in Payload(m, b) : m2[a] = m[a]
  BY OthersAlone
<1>2. Used(m2, S \ {c}) = Used(m, S) \ {c}
  BY <1>1 DEF Used
<1>. QED
  BY <1>1, <1>2, Zenon DEF SameLinks, Kept, OnlyIn

\* What is stored in the contents of a block changes nothing else.
StoredIn(m, m2, top, base, S, c) ==
  /\ Tiled(m2, top, base, S) /\ Used(m2, S) = Used(m, S)
  /\ Kept(m, m2, S \ {c}) /\ m2[c + SIZE] = m[c + SIZE]

\* A store into the contents of a block keeps the tiling.
LEMMA StoreFacts ==
  ASSUME NEW m, NEW top, NEW base, NEW S, Tiled(m, top, base, S),
         NEW c \in S, NEW m2 \in Memory,
         Elsewhere(m, m2, Payload(m, c))
  PROVE  StoredIn(m, m2, top, base, S, c)
<1>1. /\ c \in Nat /\ m[c + SIZE] \in Nat
      /\ Payload(m, c) = (c + Header)..(End(m, c) - 1) /\ Extent(m, c) = c..(End(m, c) - 1)
      /\ c..(c + Header - 1) \subseteq Addresses
  BY BlockFacts
<1>2. Payload(m, c) \subseteq Extent(m, c)
  BY <1>1 DEF Header
<1>3. Elsewhere(m, m2, Extent(m, c))
  BY <1>2 DEF Elsewhere
<1>4. /\ \A b \in S \ {c} : SameLinks(m, m2, b) /\ m2[b + FREE] = m[b + FREE]
      /\ Kept(m, m2, S \ {c})
  <2>1. OnlyIn(m, m2, S, c)
    BY <1>3, OneBlock, Zenon
  <2>. QED
    BY <2>1, Zenon DEF OnlyIn
<1>5. \A a \in c..(c + Header - 1) : a \in Addresses /\ a \notin Payload(m, c)
  BY <1>1 DEF Header
<1>6. /\ c + NEXT \in c..(c + Header - 1) /\ c + PREV \in c..(c + Header - 1)
      /\ c + FREE \in c..(c + Header - 1) /\ c + SIZE \in c..(c + Header - 1)
  BY <1>1 DEF NEXT, PREV, FREE, SIZE, Header
<1>7. SameLinks(m, m2, c) /\ m2[c + FREE] = m[c + FREE] /\ m2[c + SIZE] = m[c + SIZE]
  BY <1>5, <1>6, Zenon DEF SameLinks, Elsewhere
<1>8. \A b \in S : SameLinks(m, m2, b) /\ m2[b + FREE] = m[b + FREE]
  BY <1>4, <1>7
<1>9. Tiled(m2, top, base, S)
  BY <1>8, Relinked
<1>10. Used(m2, S) = Used(m, S)
  BY <1>8 DEF Used
<1>. QED
  BY <1>4, <1>7, <1>9, <1>10, Zenon DEF StoredIn

\* What an allocation of block c brings about.
Allocated(m, S, m2, S2, c, size) ==
  /\ c \in S2 /\ m2[c + SIZE] >= size
  /\ c \notin Used(m, S) /\ Used(m2, S2) = Used(m, S) \cup {c}
  /\ Kept(m, m2, Used(m, S))

\* A free block taken whole.
LEMMA TakeFacts ==
  ASSUME NEW m, NEW top, NEW base, NEW S, Tiled(m, top, base, S),
         NEW c \in S, m[c + FREE] # 0, NEW size \in Nat, m[c + SIZE] >= size,
         NEW m2, m2 = Put(Zeroed(m, c, m[c + SIZE]), c + FREE, 0)
  PROVE  Tiled(m2, top, base, S) /\ Allocated(m, S, m2, S, c, size)
<1>. DEFINE m1 == Zeroed(m, c, m[c + SIZE])
<1>1. /\ c \in Nat /\ m[c + SIZE] \in Nat /\ End(m, c) = c + Header + m[c + SIZE]
      /\ Payload(m, c) = (c + Header)..(End(m, c) - 1) /\ Extent(m, c) = c..(End(m, c) - 1)
      /\ c..(c + Header - 1) \subseteq Addresses /\ Payload(m, c) \subseteq Addresses
  BY BlockFacts
<1>2. /\ c + FREE \in Addresses /\ c + Header \in Nat /\ m \in Memory
      /\ c + FREE \in Extent(m, c) /\ Payload(m, c) \subseteq Extent(m, c)
      /\ c + FREE # c + NEXT /\ c + FREE # c + PREV /\ c + FREE # c + SIZE
      /\ c + NEXT \in Addresses /\ c + PREV \in Addresses /\ c + SIZE \in Addresses
      /\ c + NEXT \notin Payload(m, c) /\ c + PREV \notin Payload(m, c)
      /\ c + SIZE \notin Payload(m, c)
  <2>. DEFINE s == m[c + SIZE]
              e == End(m, c)
  <2>1. s \in Nat /\ e = c + Header + s /\ c \in Nat
    BY <1>1
  <2>. HIDE DEF s, e
  <2>2. /\ c + FREE \in c..(e - 1) /\ (c + Header)..(e - 1) \subseteq c..(e - 1)
        /\ c + NEXT \notin (c + Header)..(e - 1) /\ c + PREV \notin (c + Header)..(e - 1)
        /\ c + SIZE \notin (c + Header)..(e - 1)
        /\ c + FREE # c + NEXT /\ c + FREE # c + PREV /\ c + FREE # c + SIZE
        /\ c + NEXT \in c..(c + Header - 1) /\ c + PREV \in c..(c + Header - 1)
        /\ c + SIZE \in c..(c + Header - 1) /\ c + FREE \in c..(c + Header - 1)
        /\ c + Header \in Nat
    BY <2>1 DEF NEXT, PREV, FREE, SIZE, Header
  <2>3. m \in Memory
    BY Zenon DEF Tiled, Memory
  <2>. QED
    BY <1>1, <2>2, <2>3 DEF e
<1>3. (c + Header)..(c + Header + m[c + SIZE] - 1) = Payload(m, c)
  BY Zenon DEF Payload
<1>4. m1 = Filled(m, c + Header, m[c + SIZE], 0)
  BY Zenon DEF Zeroed
<1>5. /\ m1 \in Memory
      /\ Elsewhere(m, m1, Payload(m, c))
  <2>1. 0 \in Nat
    OBVIOUS
  <2>2. (c + Header)..(c + Header + m[c + SIZE] - 1) \subseteq Addresses
    BY <1>1, <1>3, Zenon
  <2>3. m \in Memory /\ c + Header \in Nat /\ m[c + SIZE] \in Nat
    BY <1>1, <1>2
  <2>4. /\ Filled(m, c + Header, m[c + SIZE], 0) \in Memory
        /\ Elsewhere(m, Filled(m, c + Header, m[c + SIZE], 0),
                     (c + Header)..(c + Header + m[c + SIZE] - 1))
    BY <2>1, <2>2, <2>3, FilledFacts, Zenon
  <2>. QED
    BY <1>3, <1>4, <2>4, Zenon
<1>. HIDE DEF m1
<1>6. m2 = Put(m1, c + FREE, 0)
  BY DEF m1
<1>7. /\ m2 \in Memory /\ m2[c + FREE] = 0
      /\ Elsewhere(m1, m2, {c + FREE})
  <2>1. 0 \in Nat /\ c + FREE \in Addresses /\ m1 \in Memory
    BY <1>2, <1>5
  <2>. QED
    BY <1>6, <2>1, PutFacts
<1>8. Elsewhere(m, m2, Extent(m, c))
  BY <1>2, <1>5, <1>7, Zenon DEF Elsewhere
<1>9. SameLinks(m, m2, c) /\ m2[c + SIZE] = m[c + SIZE]
  BY <1>2, <1>5, <1>7, Zenon DEF SameLinks, Elsewhere
<1>10. /\ \A b \in S \ {c} : SameLinks(m, m2, b) /\ m2[b + FREE] = m[b + FREE]
       /\ Kept(m, m2, S \ {c}) /\ Used(m2, S \ {c}) = Used(m, S) \ {c}
  <2>1. OnlyIn(m, m2, S, c)
    BY <1>8, OneBlock, Zenon
  <2>. QED
    BY <2>1, Zenon DEF OnlyIn
<1>11. Tiled(m2, top, base, S)
  BY <1>7, <1>9, <1>10, Relinked
<1>12. /\ c \notin Used(m, S) /\ Used(m2, S) = Used(m, S) \cup {c}
       /\ Used(m, S) \subseteq S \ {c}
  BY <1>7, <1>10 DEF Used
<1>13. Kept(m, m2, Used(m, S))
  BY <1>10, <1>12, KeptLess
<1>. QED
  BY <1>9, <1>11, <1>12, <1>13 DEF Allocated

\* A free block cut in two, and the first part taken.
LEMMA SplitFacts ==
  ASSUME NEW m, NEW top, NEW base, NEW S, Tiled(m, top, base, S),
         NEW c \in S, m[c + FREE] # 0,
         NEW size \in Nat, size + Header <= m[c + SIZE],
         NEW m2, m2 = split_block_safe(m, c, size)
  PROVE  \E S2 : Tiled(m2, top, base, S2) /\ Allocated(m, S, m2, S2, c, size)
<1>. DEFINE z == c + Header + size
            rest == m[c + SIZE] - size - Header
            m0 == set_contents_safe(m, c, z, m[c + PREV], 0, size)
            m1 == Zeroed(m0, c, size)
            e == End(m, c)
<1>1. /\ c \in Nat /\ m[c + SIZE] \in Nat /\ e = c + Header + m[c + SIZE]
      /\ m[c + NEXT] \in Nat /\ m[c + PREV] \in Nat
      /\ Extent(m, c) = c..(e - 1) /\ Extent(m, c) \subseteq Addresses
      /\ c..(c + Header - 1) \subseteq Addresses
  BY BlockFacts
<1>2. m \in Memory
  BY Zenon DEF Tiled, Memory
<1>3. /\ z \in Nat /\ rest \in Nat /\ e \in Nat /\ z + Header <= e /\ c + Header <= z
      /\ c + Header \in Nat
      /\ c..(c + Header - 1) \subseteq Extent(m, c)
      /\ z..(z + Header - 1) \subseteq Extent(m, c)
      /\ (c + Header)..(c + Header + size - 1) \subseteq Extent(m, c)
  <2>. DEFINE s == m[c + SIZE]
  <2>1. s \in Nat /\ e = c + Header + s /\ c \in Nat /\ size + Header <= s
    BY <1>1
  <2>. HIDE DEF s, e
  <2>2. /\ z \in Nat /\ s - size - Header \in Nat /\ e \in Nat /\ z + Header <= e
        /\ c + Header <= z /\ c + Header \in Nat
    BY <2>1 DEF Header
  <2>3. /\ c..(c + Header - 1) \subseteq c..(e - 1)
        /\ z..(z + Header - 1) \subseteq c..(e - 1)
        /\ (c + Header)..(c + Header + size - 1) \subseteq c..(e - 1)
    BY <2>1, <2>2 DEF Header
  <2>. QED
    BY <1>1, <2>2, <2>3 DEF s
<1>4. m2 = set_contents_safe(m1, z, m[c + NEXT], c, 1, rest)
  BY Zenon DEF split_block_safe
<1>. HIDE DEF z, rest, e
<1>5. /\ m0 \in Memory
      /\ m0[c + NEXT] = z /\ m0[c + PREV] = m[c + PREV]
      /\ m0[c + FREE] = 0 /\ m0[c + SIZE] = size
      /\ Elsewhere(m, m0, c..(c + Header - 1))
  <2>1. /\ 0 \in Nat /\ c \in Nat /\ z \in Nat /\ m[c + PREV] \in Nat
        /\ c..(c + Header - 1) \subseteq Addresses
    BY <1>1, <1>3
  <2>2. m0 = set_contents_safe(m, c, z, m[c + PREV], 0, size)
    BY Zenon DEF m0
  <2>. HIDE DEF m0
  <2>3. 0 \in Nat /\ m[c + PREV] \in Nat
    BY <2>1
  <2>4. HasHeader(m, m0, c, z, m[c + PREV], 0, size)
    BY <1>2, <2>1, <2>2, <2>3, HeaderFacts, Zenon
  <2>. QED
    BY <2>4, Zenon DEF HasHeader
<1>. HIDE DEF m0
<1>6. (c + Header)..(c + Header + size - 1) \subseteq Addresses
  BY <1>1, <1>3
<1>7. m1 = Filled(m0, c + Header, size, 0)
  BY Zenon DEF Zeroed
<1>8. /\ m1 \in Memory
      /\ Elsewhere(m0, m1, (c + Header)..(c + Header + size - 1))
  <2>1. 0 \in Nat /\ c + Header \in Nat /\ m0 \in Memory
    BY <1>3, <1>5
  <2>2. /\ Filled(m0, c + Header, size, 0) \in Memory
        /\ Elsewhere(m0, Filled(m0, c + Header, size, 0), (c + Header)..(c + Header + size - 1))
    BY <1>6, <2>1, FilledFacts, Zenon
  <2>. QED
    BY <1>7, <2>2, Zenon
<1>. HIDE DEF m1
<1>9. /\ m2 \in Memory
      /\ m2[z + NEXT] = m[c + NEXT] /\ m2[z + PREV] = c
      /\ m2[z + FREE] = 1 /\ m2[z + SIZE] = rest
      /\ Elsewhere(m1, m2, z..(z + Header - 1))
  <2>1. /\ 1 \in Nat /\ c \in Nat /\ z \in Nat /\ m[c + NEXT] \in Nat /\ rest \in Nat
        /\ m1 \in Memory
    BY <1>1, <1>3, <1>8
  <2>2. z..(z + Header - 1) \subseteq Addresses
    BY <1>1, <1>3, Zenon
  <2>3. HasHeader(m1, set_contents_safe(m1, z, m[c + NEXT], c, 1, rest), z, m[c + NEXT], c, 1, rest)
    BY <2>1, <2>2, HeaderFacts, Zenon
  <2>. QED
    BY <1>4, <2>3, Zenon DEF HasHeader
<1>10. \A a \in c..(c + Header - 1) : /\ a \in Addresses
         /\ a \notin z..(z + Header - 1) /\ a \notin (c + Header)..(c + Header + size - 1)
  <2>1. c..(c + Header - 1) \subseteq Addresses /\ c \in Nat /\ z \in Nat /\ c + Header <= z
    BY <1>1, <1>3
  <2>. QED
    BY <2>1 DEF Header
<1>11. /\ c + NEXT \in c..(c + Header - 1) /\ c + PREV \in c..(c + Header - 1)
       /\ c + FREE \in c..(c + Header - 1) /\ c + SIZE \in c..(c + Header - 1)
  BY <1>1 DEF NEXT, PREV, FREE, SIZE, Header
<1>12. /\ m2[c + NEXT] = z /\ m2[c + PREV] = m[c + PREV]
       /\ m2[c + FREE] = 0 /\ m2[c + SIZE] = size
  BY <1>5, <1>8, <1>9, <1>10, <1>11, Zenon DEF Elsewhere
<1>13. Elsewhere(m, m2, Extent(m, c))
  BY <1>3, <1>5, <1>8, <1>9, Zenon DEF Elsewhere
<1>14. /\ \A b \in S \ {c} : SameLinks(m, m2, b) /\ m2[b + FREE] = m[b + FREE]
       /\ Kept(m, m2, S \ {c}) /\ Used(m2, S \ {c}) = Used(m, S) \ {c}
  <2>1. OnlyIn(m, m2, S, c)
    BY <1>13, OneBlock, Zenon
  <2>. QED
    BY <2>1, Zenon DEF OnlyIn
<1>15. Tiled(m2, top, base, S \cup {z})
  BY <1>9, <1>12, <1>14, Split DEF z, rest
<1>16. z # c
  BY <1>1, <1>3 DEF Header
<1>17. /\ c \notin Used(m, S) /\ Used(m2, S \cup {z}) = Used(m, S) \cup {c}
       /\ Used(m, S) \subseteq S \ {c}
  BY <1>9, <1>12, <1>14, <1>16 DEF Used
<1>18. Kept(m, m2, Used(m, S))
  BY <1>14, <1>17, KeptLess
<1>19. Allocated(m, S, m2, S \cup {z}, c, size)
  BY <1>12, <1>17, <1>18 DEF Allocated
<1>. QED
  BY <1>15, <1>19

\* A block that the heap grows by.
LEMMA ExtendFacts ==
  ASSUME NEW h, NEW S, Tiled(h.mem, h.brk, h.global_base, S), NEW size \in Nat,
         h.brk + Header + size <= Base + HeapWords,
         NEW r, r = extend_heap(h, size)
  PROVE  /\ Tiled(r.mem, r.brk, r.global_base, S \cup {h.brk})
         /\ Allocated(h.mem, S, r.mem, S \cup {h.brk}, h.brk, size)
         /\ r.ptr = h.brk + Header
<1>. DEFINE m == h.mem
            top == h.brk
            last == Last(h)
            linked == IF last = NULL THEN m ELSE Put(m, last + NEXT, top)
            m1 == set_contents_safe(linked, top, NULL, last, 0, size)
            m2 == Zeroed(m1, top, size)
<1>1. r = Result(m2, top + Header + size, IF last = NULL THEN top ELSE h.global_base, top + Header)
  <2>1. ~(top + Header + size > Base + HeapWords)
    BY TileFacts, HeapAssumption DEF Header
  <2>. QED
    BY <2>1, Zenon DEF extend_heap
<1>2. /\ r.mem = m2 /\ r.brk = top + Header + size /\ r.ptr = top + Header
      /\ r.global_base = IF last = NULL THEN top ELSE h.global_base
  BY <1>1 DEF Result
<1>3. \/ last = NULL /\ S = {} /\ h.global_base = NULL /\ top = Base
      \/ /\ last \in S /\ m[last + NEXT] = NULL /\ End(m, last) = top
         /\ last # NULL /\ h.global_base = Base /\ Base \in S
  BY LastFacts
<1>4. Tiled(m, top, h.global_base, S)
  OBVIOUS
<1>. HIDE DEF m, top, last
<1>5. /\ Base \in Nat /\ HeapWords \in Nat /\ top \in Nat /\ Base <= top
      /\ top + Header + size <= Base + HeapWords
  <2>1. Base \in Nat /\ HeapWords \in Nat
    BY HeapAssumption
  <2>2. Base \in Nat /\ top \in Nat /\ Base <= top
    BY <1>4, TileFacts
  <2>. QED
    BY <2>1, <2>2 DEF top
<1>6. /\ top..(top + Header - 1) \subseteq Addresses
      /\ (top + Header)..(top + Header + size - 1) \subseteq Addresses
      /\ top + Header \in Nat
  BY <1>5 DEF Header, Addresses
<1>7. \A c \in S : /\ c \in Nat /\ End(m, c) \in Nat /\ c + Header <= End(m, c)
                   /\ End(m, c) <= top /\ Extent(m, c) = c..(End(m, c) - 1)
                   /\ Payload(m, c) = (c + Header)..(End(m, c) - 1)
                   /\ Extent(m, c) \subseteq Addresses
                   /\ m[c + NEXT] \in Nat
  <2>. TAKE c \in S
  <2>1. c \in Nat /\ End(m, c) \in Nat /\ c + Header <= End(m, c) /\ End(m, c) <= top
    BY <1>4, TileFacts
  <2>2. /\ Payload(m, c) = (c + Header)..(End(m, c) - 1)
        /\ Extent(m, c) = c..(End(m, c) - 1) /\ Extent(m, c) \subseteq Addresses
        /\ m[c + NEXT] \in Nat
    BY <1>4, BlockFacts
  <2>. QED
    BY <2>1, <2>2
<1>8. \A c \in S : /\ c + NEXT \in Extent(m, c) /\ c + PREV \in Extent(m, c)
                   /\ c + FREE \in Extent(m, c) /\ c + SIZE \in Extent(m, c)
                   /\ Payload(m, c) \subseteq Extent(m, c) /\ c + NEXT \notin Payload(m, c)
                   /\ c + PREV # c + NEXT /\ c + FREE # c + NEXT /\ c + SIZE # c + NEXT
  <2>. TAKE c \in S
  <2>. DEFINE e == End(m, c)
  <2>1. c \in Nat /\ e \in Nat /\ c + Header <= e
    BY <1>7
  <2>2. Extent(m, c) = c..(e - 1) /\ Payload(m, c) = (c + Header)..(e - 1)
    BY <1>7
  <2>. HIDE DEF e
  <2>3. /\ c + NEXT \in c..(e - 1) /\ c + PREV \in c..(e - 1)
        /\ c + FREE \in c..(e - 1) /\ c + SIZE \in c..(e - 1)
        /\ (c + Header)..(e - 1) \subseteq c..(e - 1) /\ c + NEXT \notin (c + Header)..(e - 1)
        /\ c + PREV # c + NEXT /\ c + FREE # c + NEXT /\ c + SIZE # c + NEXT
    BY <2>1 DEF NEXT, PREV, FREE, SIZE, Header
  <2>. QED
    BY <2>2, <2>3
<1>9. m \in Memory
  BY <1>4, Zenon DEF Tiled, Memory
<1>10. /\ linked \in Memory
       /\ last \in S => linked[last + NEXT] = top
       /\ Elsewhere(m, linked, {last + NEXT})
       /\ last \in Nat
  <2>1. CASE last = NULL
    <3>1. linked = m /\ last \notin S /\ last \in Nat
      BY <1>3, <2>1 DEF NULL
    <3>. QED
      BY <1>9, <3>1 DEF Elsewhere
  <2>2. CASE last \in S /\ last # NULL
    <3>1. last + NEXT \in Addresses /\ last \in Nat
      BY <1>7, <1>8, <2>2
    <3>2. linked = Put(m, last + NEXT, top)
      BY <2>2
    <3>3. /\ Put(m, last + NEXT, top) \in Memory
          /\ Put(m, last + NEXT, top)[last + NEXT] = top
          /\ Elsewhere(m, Put(m, last + NEXT, top), {last + NEXT})
      BY <1>5, <1>9, <3>1, PutFacts, Zenon
    <3>. QED
      BY <3>1, <3>2, <3>3, Zenon
  <2>. QED
    BY <1>3, <2>1, <2>2
<1>. HIDE DEF linked
<1>11. HasHeader(linked, m1, top, NULL, last, 0, size)
  <2>1. 0 \in Nat /\ NULL \in Nat /\ top \in Nat /\ last \in Nat
    BY <1>5, <1>10 DEF NULL
  <2>. QED
    BY <1>6, <1>10, <2>1, HeaderFacts, Zenon
<1>. HIDE DEF m1
<1>12. /\ m2 \in Memory
       /\ Elsewhere(m1, m2, (top + Header)..(top + Header + size - 1))
  <2>1. 0 \in Nat /\ m1 \in Memory
    BY <1>11, Zenon DEF HasHeader
  <2>2. /\ Filled(m1, top + Header, size, 0) \in Memory
        /\ Elsewhere(m1, Filled(m1, top + Header, size, 0),
                     (top + Header)..(top + Header + size - 1))
    BY <1>6, <2>1, FilledFacts, Zenon
  <2>. QED
    BY <2>2, Zenon DEF Zeroed, m2
<1>. HIDE DEF m2
<1>13. /\ m1[top + NEXT] = NULL /\ m1[top + PREV] = last
       /\ m1[top + FREE] = 0 /\ m1[top + SIZE] = size
       /\ Elsewhere(linked, m1, top..(top + Header - 1))
  BY <1>11, Zenon DEF HasHeader
<1>14. /\ m2[top + NEXT] = NULL /\ m2[top + PREV] = last
       /\ m2[top + FREE] = 0 /\ m2[top + SIZE] = size
  <2>1. /\ top + NEXT \in top..(top + Header - 1) /\ top + PREV \in top..(top + Header - 1)
        /\ top + FREE \in top..(top + Header - 1) /\ top + SIZE \in top..(top + Header - 1)
    BY <1>5 DEF NEXT, PREV, FREE, SIZE, Header
  <2>2. \A a \in top..(top + Header - 1) : a \notin (top + Header)..(top + Header + size - 1)
    BY <1>5 DEF Header
  <2>. QED
    BY <1>6, <1>12, <1>13, <2>1, <2>2, Zenon DEF Elsewhere
<1>15. \A c \in S : \A a \in Extent(m, c) : m2[a] = linked[a]
  <2>. TAKE c \in S
  <2>. TAKE a \in Extent(m, c)
  <2>1. /\ a \in Addresses /\ a \notin top..(top + Header - 1)
        /\ a \notin (top + Header)..(top + Header + size - 1)
    <3>1. /\ c \in Nat /\ End(m, c) \in Nat /\ End(m, c) <= top /\ a \in c..(End(m, c) - 1)
          /\ a \in Addresses
      BY <1>7
    <3>2. a \in Nat /\ a < top
      BY <1>5, <3>1
    <3>. QED
      BY <1>5, <3>1, <3>2 DEF Header
  <2>. QED
    BY <1>12, <1>13, <2>1, Zenon DEF Elsewhere
<1>16. \A c \in S \ {last} : last + NEXT \notin Extent(m, c)
  <2>. TAKE c \in S \ {last}
  <2>1. last \in S
    BY <1>3
  <2>2. Extent(m, c) \cap Extent(m, last) = {}
    BY <1>4, <2>1, Apart
  <2>. QED
    BY <1>8, <2>1, <2>2
<1>17. \A c \in S : \A a \in Extent(m, c) : a # last + NEXT => m2[a] = m[a]
  BY <1>7, <1>10, <1>15 DEF Elsewhere
<1>18. \A c \in S \ {last} : SameLinks(m, m2, c)
  BY <1>8, <1>16, <1>17, Zenon DEF SameLinks
<1>19. last \in S => /\ m2[last + NEXT] = top /\ m2[last + PREV] = m[last + PREV]
                     /\ m2[last + SIZE] = m[last + SIZE]
  BY <1>8, <1>10, <1>15, <1>17
<1>20. \A c \in S : /\ m2[c + FREE] = m[c + FREE] /\ m2[c + SIZE] = m[c + SIZE]
                    /\ \A a \in Payload(m, c) : m2[a] = m[a]
  <2>. TAKE c \in S
  <2>1. CASE c = last
    BY <1>8, <1>17, <2>1
  <2>2. CASE c # last
    BY <1>8, <1>16, <1>17, <2>2
  <2>. QED
    BY <2>1, <2>2
<1>21. Tiled(m2, top + Header + size, Base, S \cup {top})
  <2>1. \/ S = {} /\ last = NULL /\ top = Base
        \/ last \in S /\ End(m, last) = top /\ h.global_base = Base /\ Base \in S
             /\ m2[last + NEXT] = top /\ m2[last + PREV] = m[last + PREV]
             /\ m2[last + SIZE] = m[last + SIZE]
    BY <1>3, <1>19
  <2>. QED
    BY <1>4, <1>5, <1>12, <1>14, <1>18, <2>1, Grown
<1>22. r.global_base = Base
  BY <1>2, <1>3
<1>23. top \notin S
  BY <1>5, <1>7 DEF Header
<1>24. top \notin Used(m, S) /\ Used(m2, S \cup {top}) = Used(m, S) \cup {top}
  BY <1>14, <1>20, <1>23 DEF Used
<1>25. Kept(m, m2, Used(m, S))
  BY <1>20 DEF Kept, Used
<1>26. Allocated(m, S, m2, S \cup {top}, top, size)
  BY <1>14, <1>24, <1>25 DEF Allocated
<1>. QED
  BY <1>2, <1>21, <1>22, <1>26 DEF m, top

\* What malloc returns: nothing, and the heap as it was; or the contents of a
\* block that was not in use, with room for what was asked.
Returned(h, S, r, size) ==
  \/ /\ r.ptr = NULL
     /\ r.mem = h.mem /\ r.brk = h.brk /\ r.global_base = h.global_base
  \/ /\ size # 0
     /\ \E S2, c : /\ Tiled(r.mem, r.brk, r.global_base, S2)
                   /\ Allocated(h.mem, S, r.mem, S2, c, size)
                   /\ r.ptr = c + Header

\* mm_malloc fails and changes nothing, or returns a block of a new tiling.
LEMMA MallocFacts ==
  ASSUME NEW h, NEW S, Tiled(h.mem, h.brk, h.global_base, S), NEW size \in Nat,
         NEW r, r = mm_malloc(h, size)
  PROVE  Returned(h, S, r, size)
<1>. DEFINE block == free_block_or_nah(h, size)
<1>1. CASE size = 0
  <2>1. r = Result(h.mem, h.brk, h.global_base, NULL)
    BY <1>1, Zenon DEF mm_malloc
  <2>. QED
    BY <2>1 DEF Result, Returned
<1>2. CASE size # 0 /\ block = NULL
  <2>1. r = extend_heap(h, size)
    BY <1>2, Zenon DEF mm_malloc
  <2>2. CASE h.brk + Header + size > Base + HeapWords
    <3>1. r = Result(h.mem, h.brk, h.global_base, NULL)
      BY <2>1, <2>2, Zenon DEF extend_heap
    <3>. QED
      BY <3>1 DEF Result, Returned
  <2>3. CASE ~(h.brk + Header + size > Base + HeapWords)
    <3>1. h.brk + Header + size <= Base + HeapWords
      BY <2>3, TileFacts, HeapAssumption DEF Header
    <3>2. /\ Tiled(r.mem, r.brk, r.global_base, S \cup {h.brk})
          /\ Allocated(h.mem, S, r.mem, S \cup {h.brk}, h.brk, size)
          /\ r.ptr = h.brk + Header
      BY <2>1, <3>1, ExtendFacts
    <3>. QED
      BY <1>2, <3>2, Zenon DEF Returned
  <2>. QED
    BY <2>2, <2>3
<1>3. CASE size # 0 /\ block # NULL
  <2>. DEFINE m2 == IF h.mem[block + SIZE] < size + Header + 1
                    THEN Put(Zeroed(h.mem, block, h.mem[block + SIZE]), block + FREE, 0)
                    ELSE split_block_safe(h.mem, block, size)
  <2>1. r = Result(m2, h.brk, h.global_base, block + Header)
    BY <1>3, Zenon DEF mm_malloc
  <2>2. r.mem = m2 /\ r.brk = h.brk /\ r.global_base = h.global_base /\ r.ptr = block + Header
    BY <2>1 DEF Result, Returned
  <2>3. block \in S /\ h.mem[block + FREE] # 0 /\ h.mem[block + SIZE] >= size
    BY <1>3, FirstFit
  <2>4. h.mem[block + SIZE] \in Nat
    BY <2>3, BlockFacts
  <2>. HIDE DEF block
  <2>5. CASE h.mem[block + SIZE] < size + Header + 1
    <3>1. m2 = Put(Zeroed(h.mem, block, h.mem[block + SIZE]), block + FREE, 0)
      BY <2>5
    <3>2. Tiled(m2, h.brk, h.global_base, S) /\ Allocated(h.mem, S, m2, S, block, size)
      BY <2>3, <3>1, TakeFacts
    <3>. QED
      BY <1>3, <2>2, <3>2, Zenon DEF Returned
  <2>6. CASE ~(h.mem[block + SIZE] < size + Header + 1)
    <3>1. m2 = split_block_safe(h.mem, block, size)
      BY <2>6
    <3>2. size + Header <= h.mem[block + SIZE]
      BY <2>4, <2>6 DEF Header
    <3>3. \E S2 : Tiled(m2, h.brk, h.global_base, S2) /\ Allocated(h.mem, S, m2, S2, block, size)
      BY <2>3, <3>1, <3>2, SplitFacts
    <3>. QED
      BY <1>3, <2>2, <3>3, Zenon DEF Returned
  <2>. QED
    BY <2>5, <2>6
<1>. QED
  BY <1>1, <1>2, <1>3

\* What a free of block b brings about.
Freed(m, S, m2, S2, b) ==
  Used(m2, S2) = Used(m, S) \ {b} /\ Kept(m, m2, Used(m, S) \ {b})

\* What leaves the blocks in use as they are.
Same(m, S, m2, S2) == Used(m2, S2) = Used(m, S) /\ Kept(m, m2, Used(m, S))

\* A block marked free.
LEMMA MarkFacts ==
  ASSUME NEW m, NEW top, NEW base, NEW S, Tiled(m, top, base, S), NEW b \in S,
         NEW m2, m2 = Put(m, b + FREE, 1)
  PROVE  Tiled(m2, top, base, S) /\ m2[b + FREE] = 1 /\ Freed(m, S, m2, S, b)
<1>1. /\ b \in Nat /\ m[b + SIZE] \in Nat /\ End(m, b) = b + Header + m[b + SIZE]
      /\ Extent(m, b) = b..(End(m, b) - 1) /\ Extent(m, b) \subseteq Addresses
  BY BlockFacts
<1>2. /\ b + FREE \in Extent(m, b) /\ b + NEXT \in Extent(m, b)
      /\ b + PREV \in Extent(m, b) /\ b + SIZE \in Extent(m, b)
      /\ b + FREE # b + NEXT /\ b + FREE # b + PREV /\ b + FREE # b + SIZE
  <2>. DEFINE s == m[b + SIZE]
              e == End(m, b)
  <2>1. s \in Nat /\ e = b + Header + s /\ b \in Nat
    BY <1>1
  <2>. HIDE DEF s, e
  <2>2. /\ b + FREE \in b..(e - 1) /\ b + NEXT \in b..(e - 1)
        /\ b + PREV \in b..(e - 1) /\ b + SIZE \in b..(e - 1)
        /\ b + FREE # b + NEXT /\ b + FREE # b + PREV /\ b + FREE # b + SIZE
    BY <2>1 DEF NEXT, PREV, FREE, SIZE, Header
  <2>. QED
    BY <1>1, <2>2 DEF e
<1>3. m \in Memory
  BY Zenon DEF Tiled, Memory
<1>4. m2 \in Memory /\ m2[b + FREE] = 1 /\ Elsewhere(m, m2, {b + FREE})
  <2>1. 1 \in Nat /\ b + FREE \in Addresses
    BY <1>1, <1>2
  <2>2. /\ Put(m, b + FREE, 1) \in Memory /\ Put(m, b + FREE, 1)[b + FREE] = 1
        /\ Elsewhere(m, Put(m, b + FREE, 1), {b + FREE})
    BY <1>3, <2>1, PutFacts, Zenon
  <2>. QED
    BY <2>2, Zenon
<1>5. Elsewhere(m, m2, Extent(m, b))
  BY <1>2, <1>4, Zenon DEF Elsewhere
<1>6. OnlyIn(m, m2, S, b)
  BY <1>5, OneBlock, Zenon
<1>7. /\ \A c \in S \ {b} : SameLinks(m, m2, c)
      /\ Kept(m, m2, S \ {b}) /\ Used(m2, S \ {b}) = Used(m, S) \ {b}
  BY <1>6, Zenon DEF OnlyIn
<1>8. SameLinks(m, m2, b)
  BY <1>1, <1>2, <1>4 DEF SameLinks, Elsewhere
<1>9. Tiled(m2, top, base, S)
  BY <1>4, <1>7, <1>8, Relinked
<1>10. Used(m2, S) = Used(m, S) \ {b} /\ Used(m, S) \ {b} \subseteq S \ {b}
  BY <1>4, <1>7 DEF Used
<1>11. Kept(m, m2, Used(m, S) \ {b})
  BY <1>7, <1>10, KeptLess
<1>. QED
  BY <1>4, <1>9, <1>10, <1>11 DEF Freed

\* A free block that takes in its free next.
Absorbs(m, m2, b, f) ==
  /\ m[b + NEXT] = f /\ m[b + FREE] = 1 /\ m[f + FREE] = 1
  /\ m2 = set_contents_safe(m, b, m[f + NEXT], m[b + PREV], 1,
                            m[b + SIZE] + Header + m[f + SIZE])

Absorbed(m, m2, top, base, S, b, f) ==
  /\ Tiled(m2, top, base, S \ {f}) /\ b # f /\ m2[b + FREE] = 1
  /\ Same(m, S, m2, S \ {f})

\* A block that combine_block merges with the free block behind it.
LEMMA AbsorbFacts ==
  ASSUME NEW m, NEW top, NEW base, NEW S, Tiled(m, top, base, S),
         NEW b \in S, NEW f \in S, NEW m2, Absorbs(m, m2, b, f)
  PROVE  Absorbed(m, m2, top, base, S, b, f)
<1>. DEFINE next == m[f + NEXT]
            prev == m[b + PREV]
            size == m[b + SIZE] + Header + m[f + SIZE]
<1>1. /\ b \in Nat /\ m[b + SIZE] \in Nat /\ End(m, b) = b + Header + m[b + SIZE]
      /\ Extent(m, b) = b..(End(m, b) - 1) /\ b..(b + Header - 1) \subseteq Addresses
      /\ m[f + SIZE] \in Nat /\ next \in Nat /\ prev \in Nat
  BY BlockFacts
<1>2. size \in Nat /\ 1 \in Nat /\ m \in Memory
  <2>1. m \in Memory
    BY Zenon DEF Tiled, Memory
  <2>2. m[b + SIZE] + Header + m[f + SIZE] \in Nat
    <3>1. m[b + SIZE] \in Nat /\ m[f + SIZE] \in Nat
      BY <1>1
    <3>. QED
      BY <3>1 DEF Header
  <2>. QED
    BY <2>1, <2>2
<1>3. /\ m2 = set_contents_safe(m, b, next, prev, 1, size)
      /\ m[b + NEXT] = f /\ m[b + FREE] = 1 /\ m[f + FREE] = 1
  BY Zenon DEF Absorbs
<1>4. b # f
  <2>1. b < End(m, b)
    BY <1>1 DEF Header
  <2>2. b # NULL /\ (m[b + NEXT] = NULL \/ m[b + NEXT] = End(m, b)) /\ f # NULL
    BY <1>3, TileFacts
  <2>. QED
    BY <1>1, <1>3, <2>1, <2>2
<1>5. HasHeader(m, set_contents_safe(m, b, next, prev, 1, size), b, next, prev, 1, size)
  <2>. HIDE DEF next, prev, size
  <2>. QED
    BY <1>1, <1>2, HeaderFacts, Zenon
<1>6. /\ m2 \in Memory /\ m2[b + NEXT] = next /\ m2[b + PREV] = prev
      /\ m2[b + FREE] = 1 /\ m2[b + SIZE] = size
      /\ Elsewhere(m, m2, b..(b + Header - 1))
  BY <1>3, <1>5, Zenon DEF HasHeader
<1>7. b..(b + Header - 1) \subseteq Extent(m, b)
  BY <1>1 DEF Header
<1>8. Elsewhere(m, m2, Extent(m, b))
  BY <1>6, <1>7, Zenon DEF Elsewhere
<1>9. OnlyIn(m, m2, S, b)
  BY <1>8, OneBlock, Zenon
<1>10. /\ \A c \in S \ {b} : SameLinks(m, m2, c) /\ m2[c + FREE] = m[c + FREE]
       /\ Kept(m, m2, S \ {b}) /\ Used(m2, S \ {b}) = Used(m, S) \ {b}
  BY <1>9, Zenon DEF OnlyIn
<1>11. Tiled(m2, top, base, S \ {f})
  BY <1>3, <1>6, <1>10, Merged
<1>12. Used(m2, S \ {f}) = Used(m, S) /\ Used(m, S) \subseteq S \ {b}
  BY <1>3, <1>6, <1>10 DEF Used
<1>13. Kept(m, m2, Used(m, S))
  BY <1>10, <1>12, KeptLess
<1>. QED
  BY <1>4, <1>6, <1>11, <1>12, <1>13 DEF Same, Absorbed

\* The first half of combine_block.
LEMMA ForwardFacts ==
  ASSUME NEW m, NEW top, NEW base, NEW S, Tiled(m, top, base, S),
         NEW b \in S, m[b + FREE] = 1, NEW m2, m2 = Forward(m, b)
  PROVE  \E S2 : /\ Tiled(m2, top, base, S2) /\ b \in S2 /\ m2[b + FREE] = 1
                 /\ Same(m, S, m2, S2)
<1>1. CASE m2 = m
  BY <1>1, Zenon DEF Kept, Same
<1>2. CASE m2 # m
  <2>1. m[b + NEXT] # NULL
    BY <1>2, Zenon DEF Forward
  <2>2. PICK f \in S : m[b + NEXT] = f
    BY <2>1, TileFacts
  <2>3. Absorbs(m, m2, b, f)
    BY <1>2, <2>1, <2>2, Zenon DEF Forward, Absorbs
  <2>4. Absorbed(m, m2, top, base, S, b, f)
    BY <2>3, AbsorbFacts, Zenon
  <2>5. /\ Tiled(m2, top, base, S \ {f}) /\ b # f /\ m2[b + FREE] = 1
        /\ Same(m, S, m2, S \ {f})
    BY <2>4, Zenon DEF Absorbed
  <2>6. b \in S \ {f}
    BY <2>5
  <2>. QED
    BY <2>5, <2>6, Zenon
<1>. QED
  BY <1>1, <1>2

\* The second half, where it does not stray.
LEMMA BackwardFacts ==
  ASSUME NEW m, NEW top, NEW base, NEW S, Tiled(m, top, base, S),
         NEW b \in S, m[b + FREE] = 1, NEW m2, m2 = Backward(m, b),
         NEW back, back = m[b + PREV],
         \/ ~JoinsBack(m, b)
         \/ back \in S /\ m[back + NEXT] = b
         \/ \E c \in S : m[c + FREE] = 1 /\ back..(back + Header - 1) \subseteq Payload(m, c)
  PROVE  \E S2 : /\ Tiled(m2, top, base, S2)
                 /\ Same(m, S, m2, S2)
<1>1. CASE ~JoinsBack(m, b)
  <2>1. m2 = m
    BY <1>1, Zenon DEF Backward
  <2>. QED
    BY <2>1, Zenon DEF Kept, Same
<1>. DEFINE size == m[back + SIZE] + Header + m[b + SIZE]
<1>2. ASSUME JoinsBack(m, b)
      PROVE  /\ back # NULL /\ m[back + FREE] = 1
             /\ m2 = set_contents_safe(m, back, m[b + NEXT], m[back + PREV], 1, size)
  BY <1>2, Zenon DEF JoinsBack, Backward
<1>3. CASE JoinsBack(m, b) /\ back \in S /\ m[back + NEXT] = b
  <2>1. back \in S /\ Absorbs(m, m2, back, b)
    BY <1>2, <1>3, Zenon DEF Absorbs
  <2>2. Tiled(m2, top, base, S \ {b}) /\ Same(m, S, m2, S \ {b})
    BY <2>1, AbsorbFacts, Zenon DEF Absorbed
  <2>. QED
    BY <2>2, Zenon
<1>4. ASSUME JoinsBack(m, b), NEW c \in S, m[c + FREE] = 1,
             back..(back + Header - 1) \subseteq Payload(m, c)
      PROVE  \E S2 : /\ Tiled(m2, top, base, S2)
                     /\ Same(m, S, m2, S2)
  <2>1. /\ back \in Base..(b - Header) /\ b \in Nat /\ Base \in Nat
    BY <1>2, <1>4, TileFacts
  <2>2. back \in Nat
    BY <2>1
  <2>3. /\ back..(back + Header - 1) \subseteq Addresses /\ m[b + NEXT] \in Nat
        /\ m[b + SIZE] \in Nat
    BY <1>4, BlockFacts
  <2>4. m \in Memory
    BY Zenon DEF Tiled, Memory
  <2>5. m[back + PREV] \in Nat /\ m[back + SIZE] \in Nat
    <3>1. back + PREV \in back..(back + Header - 1) /\ back + SIZE \in back..(back + Header - 1)
      BY <2>2 DEF PREV, SIZE, Header
    <3>2. back + PREV \in Addresses /\ back + SIZE \in Addresses
      BY <2>3, <3>1
    <3>. QED
      BY <2>4, <3>2 DEF Memory
  <2>6. size \in Nat /\ 1 \in Nat
    BY <2>3, <2>5 DEF Header
  <2>. HIDE DEF size
  <2>7. HasHeader(m, set_contents_safe(m, back, m[b + NEXT], m[back + PREV], 1, size),
                  back, m[b + NEXT], m[back + PREV], 1, size)
    BY <2>2, <2>3, <2>4, <2>5, <2>6, HeaderFacts, Zenon
  <2>8. m2 \in Memory /\ Elsewhere(m, m2, back..(back + Header - 1))
    BY <1>2, <1>4, <2>7, Zenon DEF HasHeader
  <2>9. Elsewhere(m, m2, Payload(m, c))
    BY <1>4, <2>8, Zenon DEF Elsewhere
  <2>10. Tiled(m2, top, base, S) /\ Used(m2, S) = Used(m, S) /\ Kept(m, m2, S \ {c})
    BY <2>8, <2>9, StoreFacts, Zenon DEF StoredIn
  <2>11. Used(m, S) \subseteq S \ {c}
    BY <1>4 DEF Used
  <2>12. Kept(m, m2, Used(m, S))
    BY <2>10, <2>11, KeptLess
  <2>. QED
    BY <2>10, <2>12, Zenon DEF Same
<1>. QED
  BY <1>1, <1>3, <1>4

\* Where it strays, it still writes in the heap.
LEMMA BackwardStays ==
  ASSUME NEW m, NEW top, NEW base, NEW S, Tiled(m, top, base, S), NEW b \in S
  PROVE  Backward(m, b) \in Memory
<1>. DEFINE back == m[b + PREV]
            size == m[back + SIZE] + Header + m[b + SIZE]
<1>1. m \in Memory
  BY Zenon DEF Tiled, Memory
<1>2. CASE ~JoinsBack(m, b)
  BY <1>1, <1>2, Zenon DEF Backward
<1>3. CASE JoinsBack(m, b)
  <2>1. back # NULL
    BY <1>3, Zenon DEF JoinsBack
  <2>2. back \in Base..(b - Header) /\ b \in Nat /\ Base \in Nat
    BY <2>1, TileFacts
  <2>3. /\ m[b + NEXT] \in Nat /\ m[b + SIZE] \in Nat /\ Base <= b
        /\ b..(b + Header - 1) \subseteq Addresses
    BY BlockFacts
  <2>4. Backward(m, b) = set_contents_safe(m, back, m[b + NEXT], m[back + PREV], 1, size)
    BY <1>3, Zenon DEF Backward
  <2>. HIDE DEF back
  <2>5. b \in Addresses /\ HeapWords \in Nat
    BY <2>2, <2>3, HeapAssumption DEF Header
  <2>6. back \in Nat /\ back..(back + Header - 1) \subseteq Addresses
    BY <2>2, <2>5 DEF Header, Addresses
  <2>7. back + PREV \in Addresses /\ back + SIZE \in Addresses
    BY <2>6 DEF PREV, SIZE, Header
  <2>8. m[back + PREV] \in Nat /\ m[back + SIZE] \in Nat
    BY <1>1, <2>7 DEF Memory
  <2>9. size \in Nat /\ 1 \in Nat
    BY <2>3, <2>8 DEF Header
  <2>. HIDE DEF size
  <2>10. HasHeader(m, set_contents_safe(m, back, m[b + NEXT], m[back + PREV], 1, size),
                  back, m[b + NEXT], m[back + PREV], 1, size)
    BY <1>1, <2>3, <2>6, <2>8, <2>9, HeaderFacts, Zenon
  <2>. QED
    BY <2>4, <2>10, Zenon DEF HasHeader
<1>. QED
  BY <1>2, <1>3

\* free gives the block up and keeps every other in use, unless it strays.
LEMMA FreeFacts ==
  ASSUME NEW m, NEW top, NEW base, NEW S, Tiled(m, top, base, S),
         NEW ptr, ptr - Header \in S,
         NEW m2, m2 = mm_free(m, ptr)
  PROVE  /\ m2 \in Memory
         /\ ~Strays([mem |-> m, brk |-> top, global_base |-> base], ptr) =>
              \E S2 : Tiled(m2, top, base, S2) /\ Freed(m, S, m2, S2, ptr - Header)
<1>. DEFINE b == ptr - Header
            h == [mem |-> m, brk |-> top, global_base |-> base]
            m0 == Put(m, b + FREE, 1)
            m1 == Released(m, ptr)
            back == m1[b + PREV]
            g == [h EXCEPT !.mem = m1]
<1>1. b \in S
  OBVIOUS
<1>2. m1 = Forward(m0, b)
  BY Zenon DEF Released
<1>3. m2 = Backward(m1, b)
  BY Zenon DEF mm_free
<1>4. Strays(h, ptr) <=>
        /\ JoinsBack(m1, b)
        /\ ~(back \in Blocks(g) /\ m1[back + NEXT] = b)
        /\ \A c \in Blocks(g) :
             m1[c + FREE] = 1 => \E a \in back..(back + Header - 1) : a \notin Payload(m1, c)
  <2>1. h.mem = m
    OBVIOUS
  <2>. HIDE DEF h
  <2>. QED
    BY <2>1, Zenon DEF Strays
<1>5. g.mem = m1 /\ g.brk = top /\ g.global_base = base
  <2>. HIDE DEF m1
  <2>. QED
    OBVIOUS
<1>. HIDE DEF b, m0, m1, h, g
<1>6. Tiled(m0, top, base, S) /\ m0[b + FREE] = 1 /\ Freed(m, S, m0, S, b)
  BY <1>1, MarkFacts DEF m0
<1>7. PICK S1 : /\ Tiled(m1, top, base, S1) /\ b \in S1 /\ m1[b + FREE] = 1
                /\ Same(m0, S, m1, S1)
  BY <1>1, <1>2, <1>6, ForwardFacts
<1>8. m2 \in Memory
  BY <1>3, <1>7, BackwardStays
<1>9. Blocks(g) = S1
  BY <1>5, <1>7, BlocksAre
<1>10. ASSUME ~Strays(h, ptr)
       PROVE  \E S2 : Tiled(m2, top, base, S2) /\ Freed(m, S, m2, S2, b)
  <2>1. \/ ~JoinsBack(m1, b)
        \/ back \in S1 /\ m1[back + NEXT] = b
        \/ \E c \in S1 : /\ m1[c + FREE] = 1
                         /\ \A a \in back..(back + Header - 1) : a \in Payload(m1, c)
    BY <1>4, <1>9, <1>10, Zenon
  <2>2. \/ ~JoinsBack(m1, b)
        \/ back \in S1 /\ m1[back + NEXT] = b
        \/ \E c \in S1 : m1[c + FREE] = 1 /\ back..(back + Header - 1) \subseteq Payload(m1, c)
    BY <2>1, Zenon
  <2>3. PICK S2 : /\ Tiled(m2, top, base, S2)
                  /\ Same(m1, S1, m2, S2)
    <3>. HIDE DEF back
    <3>1. back = m1[b + PREV]
      BY DEF back
    <3>. QED
      BY <1>3, <1>7, <2>2, <3>1, BackwardFacts
  <2>4. Used(m2, S2) = Used(m, S) \ {b}
    BY <1>6, <1>7, <2>3 DEF Freed, Same
  <2>5. Kept(m0, m2, Used(m0, S))
    BY <1>7, <2>3, KeptTwice DEF Same
  <2>6. Kept(m, m0, Used(m0, S)) /\ Used(m0, S) = Used(m, S) \ {b}
    BY <1>6 DEF Freed
  <2>7. Kept(m, m2, Used(m, S) \ {b})
    BY <2>5, <2>6, KeptTwice
  <2>. QED
    BY <2>3, <2>4, <2>7 DEF Freed
<1>. QED
  BY <1>8, <1>10 DEF b, h

-----------------------------------------------------------------------------
(* What the callers hold *)

\* One value of a function replaced or added.
IsPut(g, f, a, w) ==
  /\ DOMAIN g = DOMAIN f \cup {a} /\ g[a] = w
  /\ \A x \in DOMAIN f : x # a => g[x] = f[x]

\* One word written over a function with any domain.
LEMMA PutValues ==
  ASSUME NEW f, NEW a, NEW w
  PROVE  IsPut(Put(f, a, w), f, a, w)
<1>. DEFINE g == [x \in {a} |-> w]
<1>1. DOMAIN g = {a} /\ g[a] = w
  OBVIOUS
<1>2. Put(f, a, w) = Over(g, f)
  BY Zenon DEF Put
<1>. HIDE DEF g
<1>3. Over(g, f) = [x \in {a} \cup DOMAIN f |-> IF x \in {a} THEN g[x] ELSE f[x]]
  BY <1>1, Zenon DEF Over
<1>4. IsPut(Over(g, f), f, a, w)
  BY <1>1, <1>3 DEF IsPut
<1>. QED
  BY <1>2, <1>4, Zenon

\* What an owner has stored in a block that was size words long.
LEMMA StoredFacts ==
  ASSUME NEW f, NEW size \in Nat, DOMAIN f \subseteq 0..(size - 1), NEW u
  PROVE  /\ DOMAIN Stored(f, size, u) = 0..(size - 1)
         /\ \A i \in 0..(size - 1) : Stored(f, size, u)[i] = IF i \in DOMAIN f THEN f[i] ELSE u
<1>. DEFINE D == 0..(size - 1)
            g == [i \in D |-> u]
<1>1. DOMAIN g = D /\ \A i \in D : g[i] = u
  OBVIOUS
<1>2. Stored(f, size, u) = Over(f, g)
  BY Zenon DEF Stored
<1>. HIDE DEF g, D
<1>3. Over(f, g) = [x \in DOMAIN f \cup D |-> IF x \in DOMAIN f THEN f[x] ELSE g[x]]
  BY <1>1, Zenon DEF Over
<1>4. DOMAIN f \cup D = D
  BY DEF D
<1>5. Over(f, g) = [x \in D |-> IF x \in DOMAIN f THEN f[x] ELSE g[x]]
  BY <1>3, <1>4, Zenon
<1>. QED
  BY <1>1, <1>2, <1>5 DEF D

\* An owner whose block is kept and stays in use still holds it.
LEMMA HoldsKept ==
  ASSUME NEW m, NEW top, NEW base, NEW S, Tiled(m, top, base, S),
         NEW own, NEW p \in Nat, Holds(m, S, own, p),
         NEW m2, NEW S2, NEW own2, own2[p] = own[p],
         NEW U, Kept(m, m2, U), p - Header \in U, p - Header \in Used(m2, S2)
  PROVE  Holds(m2, S2, own2, p)
<1>. DEFINE b == p - Header
<1>1. b \in S /\ b + Header = p
  BY DEF Holds, Used, Header
<1>2. PICK n \in Nat : /\ DOMAIN own[p] = 0..(n - 1) /\ n <= m[b + SIZE]
                       /\ \A i \in 0..(n - 1) : m[p + i] = own[p][i]
  BY Zenon DEF Holds
<1>. HIDE DEF b
<1>3. /\ b \in Nat /\ m[b + SIZE] \in Nat /\ End(m, b) = b + Header + m[b + SIZE]
      /\ Payload(m, b) = (b + Header)..(End(m, b) - 1)
  BY <1>1, BlockFacts
<1>4. m2[b + SIZE] = m[b + SIZE] /\ \A a \in Payload(m, b) : m2[a] = m[a]
  BY Zenon DEF Kept, b
<1>5. \A i \in 0..(n - 1) : m2[p + i] = own2[p][i]
  <2>. TAKE i \in 0..(n - 1)
  <2>1. p + i \in Payload(m, b)
    <3>. DEFINE s == m[b + SIZE]
                e == End(m, b)
    <3>1. s \in Nat /\ e = p + s /\ n <= s
      BY <1>1, <1>2, <1>3
    <3>. HIDE DEF s, e
    <3>2. p + i \in p..(e - 1)
      BY <3>1
    <3>. QED
      BY <1>1, <1>3, <3>2 DEF e
  <2>2. m[p + i] = own[p][i]
    BY <1>2
  <2>. QED
    BY <1>4, <2>1, <2>2
<1>6. DOMAIN own2[p] = 0..(n - 1) /\ n <= m2[b + SIZE]
  BY <1>2, <1>4
<1>. QED
  BY <1>5, <1>6, Zenon DEF Holds, b

\* A heap whose owners hold what they stored.
Sound(m, top, base, S, own) ==
  Tiled(m, top, base, S) /\ \A p \in DOMAIN own : p \in Addresses /\ Holds(m, S, own, p)

\* The blocks in use that nobody can free.
Orphans(m, S, own) == {b \in Used(m, S) : b + Header \notin DOMAIN own}

-----------------------------------------------------------------------------
(* The calls *)

\* What a step comes to: sound again if it does not stray, and without new
\* orphans if it changes the heap.
Proceeds(S) ==
  /\ TypeOK'
  /\ ~strayed' => \E S2 : /\ Sound(mem', brk', global_base', S2, owned')
                          /\ heap' # heap =>
                               Orphans(mem', S2, owned') \subseteq Orphans(mem, S, owned)

\* The types that a tiling implies.
LEMMA SoundTypes ==
  ASSUME NEW m, NEW top, NEW base, NEW S, Tiled(m, top, base, S)
  PROVE  /\ m \in [Addresses -> Nat] /\ top \in Base..(Base + HeapWords)
         /\ base \in {NULL, Base}
BY Zenon DEF Tiled

\* mm_malloc, and the words its caller stores.
LEMMA MallocStep ==
  ASSUME TypeOK, NEW S, Sound(mem, brk, global_base, S, owned),
         NEW size \in Sizes, Malloc(size)
  PROVE  Proceeds(S)
<1>. DEFINE r == mm_malloc(Heap, size)
<1>1. size \in Nat /\ UserWords \subseteq Nat
  BY HeapAssumption
<1>2. Heap.mem = mem /\ Heap.brk = brk /\ Heap.global_base = global_base
  BY DEF Heap
<1>3. Tiled(Heap.mem, Heap.brk, Heap.global_base, S)
  BY <1>2, Zenon DEF Sound
<1>4. \/ /\ r.ptr = NULL
         /\ r.mem = mem /\ r.brk = brk /\ r.global_base = global_base
      \/ /\ size # 0
         /\ \E S2, c : /\ Tiled(r.mem, r.brk, r.global_base, S2)
                       /\ Allocated(mem, S, r.mem, S2, c, size)
                       /\ r.ptr = c + Header
  <2>. HIDE DEF r
  <2>1. r = mm_malloc(Heap, size)
    BY Zenon DEF r
  <2>2. Returned(Heap, S, r, size)
    BY <1>1, <1>3, <2>1, MallocFacts, Zenon
  <2>. QED
    BY <1>2, <2>2, Zenon DEF Returned
<1>5. /\ ~strayed /\ strayed' = strayed /\ brk' = r.brk /\ global_base' = r.global_base
      /\ \/ r.ptr = NULL /\ mem' = mem /\ owned' = owned
         \/ /\ r.ptr # NULL
            /\ \E u \in UserWords : /\ mem' = Filled(r.mem, r.ptr, size, u)
                                    /\ owned' = Owning(owned, r.ptr, Stored(<< >>, size, u))
  BY Zenon DEF Malloc
<1>. HIDE DEF r
<1>6. CASE r.ptr = NULL
  <2>1. r.brk = brk /\ r.global_base = global_base
    <3>1. \A S2, c : Allocated(mem, S, r.mem, S2, c, size) => c \in S2
      BY Zenon DEF Allocated
    <3>2. ASSUME NEW S2, NEW c, Tiled(r.mem, r.brk, r.global_base, S2),
                 Allocated(mem, S, r.mem, S2, c, size), r.ptr = c + Header
          PROVE  FALSE
      <4>1. c \in Nat
        BY <3>1, <3>2, BlockFacts
      <4>. QED
        BY <1>6, <3>2, <4>1 DEF NULL, Header
    <3>. QED
      BY <1>4, <3>2, Zenon
  <2>2. mem' = mem /\ owned' = owned /\ brk' = brk /\ global_base' = global_base
    BY <1>5, <1>6, <2>1
  <2>3. heap' = heap
    BY <2>2 DEF heap
  <2>. QED
    BY <1>5, <2>2, <2>3 DEF Proceeds, TypeOK
<1>7. CASE r.ptr # NULL
  <2>1. PICK u \in UserWords : /\ mem' = Filled(r.mem, r.ptr, size, u)
                               /\ owned' = Owning(owned, r.ptr, Stored(<< >>, size, u))
    BY <1>5, <1>7
  <2>2. PICK S2, c : /\ Tiled(r.mem, r.brk, r.global_base, S2)
                     /\ Allocated(mem, S, r.mem, S2, c, size)
                     /\ r.ptr = c + Header
    BY <1>4, <1>7
  <2>3. size # 0
    BY <1>4, <1>7
  <2>4. /\ c \in S2 /\ r.mem[c + SIZE] >= size
        /\ c \notin Used(mem, S) /\ Used(r.mem, S2) = Used(mem, S) \cup {c}
        /\ Kept(mem, r.mem, Used(mem, S))
    BY <2>2, Zenon DEF Allocated
  <2>. DEFINE p == c + Header
              m1 == r.mem
  <2>5. /\ c \in Nat /\ m1[c + SIZE] \in Nat /\ End(m1, c) = c + Header + m1[c + SIZE]
        /\ Payload(m1, c) = (c + Header)..(End(m1, c) - 1) /\ Payload(m1, c) \subseteq Addresses
    BY <2>2, <2>4, BlockFacts
  <2>6. p..(p + size - 1) \subseteq Payload(m1, c) /\ p \in Payload(m1, c) /\ p \in Nat
    <3>. DEFINE s == m1[c + SIZE]
                e == End(m1, c)
    <3>1. s \in Nat /\ e = p + s /\ size <= s /\ c \in Nat
      BY <1>1, <2>4, <2>5
    <3>. HIDE DEF s, e
    <3>2. p..(p + size - 1) \subseteq p..(e - 1) /\ p \in p..(e - 1) /\ p \in Nat
      BY <1>1, <2>3, <3>1 DEF Header
    <3>. QED
      BY <2>5, <3>2 DEF e
  <2>7. m1 \in Memory
    BY <2>2, SoundTypes DEF Memory
  <2>. HIDE DEF p, m1
  <2>8. u \in Nat
    BY <1>1
  <2>9. /\ mem' \in Memory /\ Elsewhere(m1, mem', p..(p + size - 1))
        /\ \A a \in p..(p + size - 1) : mem'[a] = u
    <3>1. p..(p + size - 1) \subseteq Addresses
      BY <2>5, <2>6
    <3>2. mem' = Filled(m1, p, size, u)
      BY <2>1, <2>2 DEF p, m1
    <3>. QED
      BY <1>1, <2>6, <2>7, <2>8, <3>1, <3>2, FilledFacts, Zenon
  <2>10. Elsewhere(m1, mem', Payload(m1, c))
    BY <2>6, <2>9, Zenon DEF Elsewhere
  <2>11. Tiled(m1, brk', global_base', S2)
    BY <1>5, <2>2 DEF m1
  <2>12. /\ Tiled(mem', brk', global_base', S2) /\ Used(mem', S2) = Used(m1, S2)
         /\ Kept(m1, mem', S2 \ {c}) /\ mem'[c + SIZE] = m1[c + SIZE]
    <3>1. c \in S2 /\ mem' \in Memory
      BY <2>4, <2>9
    <3>2. StoredIn(m1, mem', brk', global_base', S2, c)
      BY <2>10, <2>11, <3>1, StoreFacts, Zenon
    <3>. QED
      BY <3>2, Zenon DEF StoredIn
  <2>13. Used(mem', S2) = Used(mem, S) \cup {c} /\ Used(mem, S) \subseteq S2 \ {c}
    BY <2>4, <2>12 DEF m1, Used
  <2>14. Kept(mem, mem', Used(mem, S))
    <3>1. Kept(m1, mem', Used(mem, S))
      BY <2>12, <2>13, KeptLess
    <3>. QED
      BY <2>4, <3>1, KeptTwice DEF m1
  <2>. DEFINE new == Stored(<< >>, size, u)
  <2>15. DOMAIN new = 0..(size - 1) /\ \A i \in 0..(size - 1) : new[i] = u
    <3>1. DOMAIN << >> = {}
      OBVIOUS
    <3>2. DOMAIN << >> \subseteq 0..(size - 1)
      BY <3>1
    <3>. QED
      BY <1>1, <3>1, <3>2, StoredFacts
  <2>. HIDE DEF new
  <2>16. /\ DOMAIN owned' = DOMAIN owned \cup {p} /\ owned'[p] = new
         /\ \A q \in DOMAIN owned : q # p => owned'[q] = owned[q]
    <3>1. owned' = Put(owned, p, new)
      BY <2>1, <2>2, Zenon DEF Owning, p, new
    <3>2. IsPut(owned', owned, p, new)
      BY <3>1, PutValues, Zenon
    <3>. QED
      BY <3>2, Zenon DEF IsPut
  <2>17. p - Header = c
    BY <2>5 DEF p, Header
  <2>18. Holds(mem', S2, owned', p)
    <3>1. c \in Used(mem', S2)
      BY <2>13
    <3>2. DOMAIN owned'[p] = 0..(size - 1) /\ size <= mem'[c + SIZE]
      BY <1>1, <2>4, <2>5, <2>12, <2>15, <2>16 DEF m1
    <3>3. \A i \in 0..(size - 1) : mem'[p + i] = owned'[p][i]
      BY <1>1, <2>6, <2>9, <2>15, <2>16
    <3>. QED
      BY <1>1, <2>17, <3>1, <3>2, <3>3, Zenon DEF Holds
  <2>19. ASSUME NEW q \in DOMAIN owned, q # p
         PROVE  Holds(mem', S2, owned', q)
    <3>1. q \in Addresses /\ Holds(mem, S, owned, q) /\ Tiled(mem, brk, global_base, S)
      BY Zenon DEF Sound
    <3>2. q \in Nat
      BY <3>1, HeapAssumption DEF Addresses
    <3>3. q - Header \in Used(mem, S)
      BY <3>1, Zenon DEF Holds
    <3>4. q - Header \in Used(mem', S2)
      BY <2>13, <3>3
    <3>. QED
      BY <2>14, <2>16, <2>19, <3>1, <3>2, <3>3, <3>4, HoldsKept
  <2>20. DOMAIN owned' \subseteq Addresses
    BY <2>5, <2>6, <2>16 DEF Sound
  <2>21. Sound(mem', brk', global_base', S2, owned')
    BY <2>12, <2>16, <2>18, <2>19, <2>20 DEF Sound
  <2>22. Orphans(mem', S2, owned') \subseteq Orphans(mem, S, owned)
    BY <2>13, <2>16 DEF Orphans, p
  <2>23. TypeOK'
    BY <1>5, <2>12, <2>20, SoundTypes DEF TypeOK
  <2>. QED
    BY <2>21, <2>22, <2>23 DEF Proceeds
<1>. QED
  BY <1>6, <1>7

\* mm_free, with both merges of combine_block.
LEMMA FreeStep ==
  ASSUME TypeOK, NEW S, Sound(mem, brk, global_base, S, owned),
         NEW ptr \in DOMAIN owned, Free(ptr)
  PROVE  Proceeds(S)
<1>. DEFINE b == ptr - Header
<1>1. /\ mem' = mm_free(mem, ptr) /\ owned' = Disowning(owned, ptr)
      /\ strayed' = Strays(Heap, ptr) /\ brk' = brk /\ global_base' = global_base
  BY Zenon DEF Free
<1>2. /\ Tiled(mem, brk, global_base, S)
      /\ \A q \in DOMAIN owned : q \in Addresses /\ Holds(mem, S, owned, q)
  BY Zenon DEF Sound
<1>3. b \in Used(mem, S)
  BY <1>2, Zenon DEF Holds
<1>4. b \in S
  BY <1>3 DEF Used
<1>5. /\ mem' \in Memory
      /\ ~strayed' => \E S2 : Tiled(mem', brk, global_base, S2) /\ Freed(mem, S, mem', S2, b)
  <2>1. Heap = [mem |-> mem, brk |-> brk, global_base |-> global_base]
    BY DEF Heap
  <2>. QED
    BY <1>1, <1>2, <1>4, <2>1, FreeFacts, Zenon
<1>6. DOMAIN owned' = DOMAIN owned \ {ptr} /\ \A q \in DOMAIN owned' : owned'[q] = owned[q]
  BY <1>1 DEF Disowning
<1>7. TypeOK'
  <2>1. strayed' \in BOOLEAN
    BY <1>1, Zenon DEF Strays
  <2>. QED
    BY <1>1, <1>5, <1>6, <2>1 DEF TypeOK, Memory
<1>8. ASSUME ~strayed'
      PROVE  \E S2 : /\ Sound(mem', brk', global_base', S2, owned')
                     /\ heap' # heap =>
                          Orphans(mem', S2, owned') \subseteq Orphans(mem, S, owned)
  <2>1. PICK S2 : Tiled(mem', brk, global_base, S2) /\ Freed(mem, S, mem', S2, b)
    BY <1>5, <1>8
  <2>2. /\ Used(mem', S2) = Used(mem, S) \ {b}
        /\ Kept(mem, mem', Used(mem, S) \ {b})
    BY <2>1, Zenon DEF Freed
  <2>3. ASSUME NEW q \in DOMAIN owned'
        PROVE  q \in Addresses /\ Holds(mem', S2, owned', q)
    <3>1. q \in DOMAIN owned /\ q # ptr /\ owned'[q] = owned[q]
      BY <1>6
    <3>2. q \in Addresses /\ Holds(mem, S, owned, q) /\ ptr \in Addresses
      BY <1>2, <3>1
    <3>3. q \in Nat /\ ptr \in Nat
      BY <3>2, HeapAssumption DEF Addresses
    <3>4. q - Header \in Used(mem, S)
      BY <3>2, Zenon DEF Holds
    <3>5. q - Header # b
      BY <3>1, <3>3 DEF Header
    <3>6. q - Header \in Used(mem, S) \ {b} /\ q - Header \in Used(mem', S2)
      BY <2>2, <3>4, <3>5
    <3>. HIDE DEF b
    <3>. QED
      BY <1>2, <2>2, <3>1, <3>2, <3>3, <3>6, HoldsKept
  <2>4. Sound(mem', brk', global_base', S2, owned')
    BY <1>1, <2>1, <2>3 DEF Sound
  <2>5. Orphans(mem', S2, owned') \subseteq Orphans(mem, S, owned)
    <3>1. \A c \in Used(mem, S) \ {b} : c + Header # ptr
      <4>1. ptr \in Nat
        BY <1>2, HeapAssumption DEF Addresses
      <4>2. \A c \in Used(mem, S) : c \in Nat
        BY <1>2, BlockFacts DEF Used
      <4>. QED
        BY <4>1, <4>2 DEF Header
    <3>. QED
      BY <1>6, <2>2, <3>1 DEF Orphans
  <2>. QED
    BY <2>4, <2>5
<1>. QED
  BY <1>7, <1>8 DEF Proceeds

\* mm_realloc to no bytes: the heap stays, the caller has no pointer left.
LEMMA ReallocToZeroStep ==
  ASSUME TypeOK, NEW S, Sound(mem, brk, global_base, S, owned),
         NEW ptr \in DOMAIN owned, ReallocToZero(ptr)
  PROVE  Proceeds(S)
<1>1. /\ mem' = mem /\ brk' = brk /\ global_base' = global_base /\ strayed' = strayed
      /\ owned' = Disowning(owned, ptr) /\ heap' = heap
  BY DEF ReallocToZero, heap
<1>2. DOMAIN owned' = DOMAIN owned \ {ptr} /\ \A q \in DOMAIN owned' : owned'[q] = owned[q]
  BY <1>1 DEF Disowning
<1>3. \A q \in DOMAIN owned' : q \in Addresses /\ Holds(mem', S, owned', q)
  <2>. TAKE q \in DOMAIN owned'
  <2>1. q \in DOMAIN owned /\ owned'[q] = owned[q]
    BY <1>2
  <2>2. q \in Addresses /\ Holds(mem, S, owned, q)
    BY <2>1, Zenon DEF Sound
  <2>. QED
    BY <1>1, <2>1, <2>2, Zenon DEF Holds
<1>4. Sound(mem', brk', global_base', S, owned')
  BY <1>1, <1>3, Zenon DEF Sound
<1>5. TypeOK'
  BY <1>1, <1>2 DEF TypeOK
<1>. QED
  BY <1>1, <1>4, <1>5 DEF Proceeds

\* The words of an old block b copied into a new one c.
IsCopied(m, m2, b, c, size) ==
  /\ m2 \in Memory /\ Elsewhere(m, m2, Payload(m, c))
  /\ \A i \in Nat : i < size /\ i < m[b + SIZE] => m2[c + Header + i] = m[b + Header + i]

\* The copy of mm_realloc writes the new block and brings the old words along.
LEMMA CopiedFacts ==
  ASSUME NEW r, NEW top, NEW base, NEW S, Tiled(r.mem, top, base, S),
         NEW b \in S, NEW c \in S, NEW ptr \in Nat, ptr = b + Header, r.ptr = c + Header,
         NEW size \in Nat, r.mem[c + SIZE] >= size
  PROVE  IsCopied(r.mem, Copied(r, ptr, size), b, c, size)
<1>. DEFINE m == r.mem
            p == r.ptr
            old == m[ptr - Header + SIZE]
            n == IF old < size THEN old ELSE size
            f == [a \in p..(p + n - 1) |-> m[ptr + (a - p)]]
            m2 == Copied(r, ptr, size)
<1>1. /\ b \in Nat /\ m[b + SIZE] \in Nat /\ End(m, b) = b + Header + m[b + SIZE]
      /\ Payload(m, b) = (b + Header)..(End(m, b) - 1) /\ Payload(m, b) \subseteq Addresses
  BY BlockFacts
<1>2. /\ c \in Nat /\ m[c + SIZE] \in Nat /\ End(m, c) = c + Header + m[c + SIZE]
      /\ Payload(m, c) = (c + Header)..(End(m, c) - 1) /\ Payload(m, c) \subseteq Addresses
  BY BlockFacts
<1>3. m \in Memory
  BY Zenon DEF Tiled, Memory
<1>4. ptr - Header = b
  BY <1>1 DEF Header
<1>5. m2 = Over(f, m)
  BY Zenon DEF Copied
<1>6. n \in Nat /\ n <= m[b + SIZE] /\ n <= size /\ n <= m[c + SIZE]
      /\ \A i \in Nat : i < size /\ i < m[b + SIZE] => i < n
  <2>1. old = m[b + SIZE]
    BY <1>4
  <2>. HIDE DEF old, m
  <2>2. old \in Nat /\ m[c + SIZE] \in Nat /\ m[c + SIZE] >= size
    BY <1>1, <1>2, <2>1 DEF m
  <2>. QED
    BY <2>1, <2>2
<1>7. p \in Nat /\ p = c + Header
  BY <1>2 DEF Header
<1>. HIDE DEF n, p
<1>8. DOMAIN f = p..(p + n - 1) /\ \A a \in p..(p + n - 1) : f[a] = m[ptr + (a - p)]
  OBVIOUS
<1>. HIDE DEF f, m, m2
<1>9. p..(p + n - 1) \subseteq Payload(m, c)
  <2>. DEFINE s == m[c + SIZE]
              e == End(m, c)
  <2>1. s \in Nat /\ e = p + s /\ n <= s
    BY <1>2, <1>6, <1>7
  <2>. HIDE DEF s, e
  <2>2. p..(p + n - 1) \subseteq p..(e - 1)
    BY <1>6, <1>7, <2>1
  <2>. QED
    BY <1>2, <1>7, <2>2 DEF e
<1>10. \A a \in p..(p + n - 1) : m[ptr + (a - p)] \in Nat
  <2>. TAKE a \in p..(p + n - 1)
  <2>1. ptr + (a - p) \in Payload(m, b)
    <3>. DEFINE s == m[b + SIZE]
                e == End(m, b)
    <3>1. s \in Nat /\ e = ptr + s /\ n <= s
      BY <1>1, <1>6
    <3>. HIDE DEF s, e
    <3>2. ptr + (a - p) \in ptr..(e - 1)
      BY <1>6, <1>7, <3>1
    <3>. QED
      BY <1>1, <3>2 DEF e
  <2>2. ptr + (a - p) \in Addresses
    BY <1>1, <2>1
  <2>. QED
    BY <1>3, <2>2 DEF Memory
<1>11. /\ Over(f, m) \in Memory
       /\ \A a \in DOMAIN f : Over(f, m)[a] = f[a]
       /\ \A a \in Addresses : a \notin DOMAIN f => Over(f, m)[a] = m[a]
  <2>1. DOMAIN f \subseteq Addresses
    BY <1>2, <1>8, <1>9
  <2>2. \A a \in DOMAIN f : f[a] \in Nat
    BY <1>8, <1>10, Zenon
  <2>. QED
    BY <1>3, <2>1, <2>2, OverFacts
<1>12. Elsewhere(m, m2, Payload(m, c))
  BY <1>5, <1>8, <1>9, <1>11, Zenon DEF Elsewhere
<1>13. ASSUME NEW i \in Nat, i < size, i < m[b + SIZE]
       PROVE  m2[p + i] = m[ptr + i]
  <2>1. i < n
    BY <1>6, <1>13
  <2>2. p + i \in p..(p + n - 1) /\ (p + i) - p = i
    BY <1>6, <1>7, <2>1
  <2>3. m2[p + i] = f[p + i]
    BY <1>5, <1>8, <1>11, <2>2
  <2>4. f[p + i] = m[ptr + ((p + i) - p)]
    BY <1>8, <2>2, Zenon
  <2>. QED
    BY <2>2, <2>3, <2>4
<1>. QED
  BY <1>5, <1>7, <1>11, <1>12, <1>13 DEF m, m2, IsCopied

\* What realloc leaves of the heap: the new block in place of the old one.
LEMMA ReallocStep ==
  ASSUME TypeOK, NEW S, Sound(mem, brk, global_base, S, owned),
         NEW ptr \in DOMAIN owned, NEW size \in Sizes, Realloc(ptr, size)
  PROVE  Proceeds(S)
<1>. DEFINE r == mm_malloc(Heap, size)
            copied == Copied(r, ptr, size)
            freed == mm_free(copied, ptr)
            kept == [i \in DOMAIN owned[ptr] \cap 0..(size - 1) |-> owned[ptr][i]]
            b == ptr - Header
<1>1. size \in Nat /\ UserWords \subseteq Nat
  BY HeapAssumption
<1>2. Heap.mem = mem /\ Heap.brk = brk /\ Heap.global_base = global_base
  BY DEF Heap
<1>3. /\ Tiled(mem, brk, global_base, S)
      /\ \A q \in DOMAIN owned : q \in Addresses /\ Holds(mem, S, owned, q)
  BY Zenon DEF Sound
<1>4. \/ /\ r.ptr = NULL
         /\ r.mem = mem /\ r.brk = brk /\ r.global_base = global_base
      \/ /\ size # 0
         /\ \E S2, c : /\ Tiled(r.mem, r.brk, r.global_base, S2)
                       /\ Allocated(mem, S, r.mem, S2, c, size)
                       /\ r.ptr = c + Header
  <2>. HIDE DEF r
  <2>1. r = mm_malloc(Heap, size)
    BY Zenon DEF r
  <2>2. Tiled(Heap.mem, Heap.brk, Heap.global_base, S)
    BY <1>2, <1>3, Zenon
  <2>3. Returned(Heap, S, r, size)
    BY <1>1, <2>1, <2>2, MallocFacts, Zenon
  <2>. QED
    BY <1>2, <2>3, Zenon DEF Returned
<1>5. /\ ~strayed /\ size # 0 /\ brk' = r.brk /\ global_base' = r.global_base
      /\ \/ r.ptr = NULL /\ mem' = mem /\ owned' = owned /\ strayed' = strayed
         \/ /\ r.ptr # NULL
            /\ \E u \in UserWords :
                 /\ mem' = Over([a \in {r.ptr + i : i \in 0..(size - 1) \ DOMAIN kept}
                                   |-> u], freed)
                 /\ owned' = Owning(Disowning(owned, ptr), r.ptr, Stored(kept, size, u))
            /\ strayed' = Strays([mem |-> copied, brk |-> r.brk,
                                  global_base |-> r.global_base], ptr)
  BY Zenon DEF Realloc
<1>. HIDE DEF r, copied, freed, kept, b
<1>6. CASE r.ptr = NULL
  <2>1. r.brk = brk /\ r.global_base = global_base
    <3>1. \A S2, c : Allocated(mem, S, r.mem, S2, c, size) => c \in S2
      BY Zenon DEF Allocated
    <3>2. ASSUME NEW S2, NEW c, Tiled(r.mem, r.brk, r.global_base, S2),
                 Allocated(mem, S, r.mem, S2, c, size), r.ptr = c + Header
          PROVE  FALSE
      <4>1. c \in Nat
        BY <3>1, <3>2, BlockFacts
      <4>. QED
        BY <1>6, <3>2, <4>1 DEF NULL, Header
    <3>. QED
      BY <1>4, <3>2, Zenon
  <2>2. mem' = mem /\ owned' = owned /\ brk' = brk /\ global_base' = global_base
        /\ strayed' = strayed
    BY <1>5, <1>6, <2>1
  <2>3. heap' = heap
    BY <2>2 DEF heap
  <2>. QED
    BY <2>2, <2>3 DEF Proceeds, TypeOK
<1>7. CASE r.ptr # NULL
  <2>1. PICK u \in UserWords :
          /\ mem' = Over([a \in {r.ptr + i : i \in 0..(size - 1) \ DOMAIN kept} |-> u], freed)
          /\ owned' = Owning(Disowning(owned, ptr), r.ptr, Stored(kept, size, u))
    BY <1>5, <1>7
  <2>2. PICK S1, c : /\ Tiled(r.mem, r.brk, r.global_base, S1)
                     /\ Allocated(mem, S, r.mem, S1, c, size)
                     /\ r.ptr = c + Header
    BY <1>4, <1>7
  <2>3. /\ c \in S1 /\ r.mem[c + SIZE] >= size
        /\ c \notin Used(mem, S) /\ Used(r.mem, S1) = Used(mem, S) \cup {c}
        /\ Kept(mem, r.mem, Used(mem, S))
    BY <2>2, Zenon DEF Allocated
  <2>. DEFINE p == c + Header
              m1 == r.mem
              V == Used(mem, S) \ {b}
  <2>4. /\ ptr \in Nat /\ ptr \in Addresses /\ b \in Used(mem, S) /\ b \in S1 /\ b # c
        /\ ptr = b + Header
    <3>1. ptr \in Addresses /\ b \in Used(mem, S)
      BY <1>3, Zenon DEF Holds, b
    <3>2. ptr \in Nat
      BY <3>1, HeapAssumption DEF Addresses
    <3>3. ptr = b + Header
      BY <3>2 DEF b, Header
    <3>4. b \in Used(r.mem, S1)
      BY <2>3, <3>1
    <3>. QED
      BY <2>3, <3>1, <3>2, <3>3, <3>4 DEF Used
  <2>5. /\ c \in Nat /\ m1[c + SIZE] \in Nat /\ End(m1, c) = c + Header + m1[c + SIZE]
        /\ Payload(m1, c) = (c + Header)..(End(m1, c) - 1) /\ Payload(m1, c) \subseteq Addresses
    BY <2>2, <2>3, BlockFacts
  <2>6. p \in Nat /\ p \in Payload(m1, c) /\ \A i \in 0..(size - 1) : p + i \in Payload(m1, c)
    <3>. DEFINE s == m1[c + SIZE]
                e == End(m1, c)
    <3>1. s \in Nat /\ e = p + s /\ size <= s /\ c \in Nat
      BY <1>1, <2>3, <2>5
    <3>. HIDE DEF s, e
    <3>2. /\ p \in Nat /\ p \in p..(e - 1) /\ \A i \in 0..(size - 1) : p + i \in p..(e - 1)
      BY <1>1, <1>5, <3>1 DEF Header
    <3>. QED
      BY <2>5, <3>2 DEF e
  <2>7. /\ copied \in Memory /\ Elsewhere(m1, copied, Payload(m1, c))
        /\ \A i \in Nat : i < size /\ i < m1[b + SIZE] => copied[p + i] = m1[ptr + i]
    <3>1. IsCopied(r.mem, copied, b, c, size)
      BY <1>1, <2>2, <2>3, <2>4, CopiedFacts, Zenon DEF copied
    <3>. QED
      BY <2>4, <3>1 DEF IsCopied, m1, p
  <2>. HIDE DEF p, m1, V
  <2>8. Tiled(m1, r.brk, r.global_base, S1) /\ r.ptr = p
    BY <2>2 DEF m1, p
  <2>9. /\ Tiled(copied, r.brk, r.global_base, S1) /\ Used(copied, S1) = Used(m1, S1)
        /\ Kept(m1, copied, S1 \ {c}) /\ copied[c + SIZE] = m1[c + SIZE]
    <3>1. StoredIn(m1, copied, r.brk, r.global_base, S1, c)
      BY <2>3, <2>7, <2>8, StoreFacts, Zenon
    <3>. QED
      BY <3>1, Zenon DEF StoredIn
  <2>10. /\ freed \in Memory
         /\ ~strayed' => \E S2 : Tiled(freed, r.brk, r.global_base, S2)
                                 /\ Freed(copied, S1, freed, S2, b)
    <3>1. ptr - Header \in S1
      BY <2>4 DEF b
    <3>. QED
      BY <1>5, <1>7, <2>9, <3>1, FreeFacts, Zenon DEF freed, b
  <2>. DEFINE fill == [a \in {p + i : i \in 0..(size - 1) \ DOMAIN kept} |-> u]
  <2>11. /\ DOMAIN fill = {p + i : i \in 0..(size - 1) \ DOMAIN kept}
         /\ \A a \in DOMAIN fill : fill[a] = u
    OBVIOUS
  <2>12. mem' = Over(fill, freed)
    BY <2>1, <2>8
  <2>. HIDE DEF fill
  <2>13. DOMAIN fill \subseteq Payload(m1, c)
    BY <2>6, <2>11
  <2>14. /\ mem' \in Memory
         /\ \A a \in DOMAIN fill : mem'[a] = u
         /\ \A a \in Addresses : a \notin DOMAIN fill => mem'[a] = freed[a]
    <3>1. DOMAIN fill \subseteq Addresses
      BY <2>5, <2>13
    <3>2. u \in Nat
      BY <1>1
    <3>3. \A a \in DOMAIN fill : fill[a] \in Nat
      BY <2>11, <3>2
    <3>4. /\ Over(fill, freed) \in Memory
          /\ \A a \in DOMAIN fill : Over(fill, freed)[a] = fill[a]
          /\ \A a \in Addresses : a \notin DOMAIN fill => Over(fill, freed)[a] = freed[a]
      BY <2>10, <3>1, <3>3, OverFacts
    <3>. QED
      BY <2>11, <2>12, <3>4
  <2>. DEFINE new == Stored(kept, size, u)
  <2>15. /\ DOMAIN kept = DOMAIN owned[ptr] \cap 0..(size - 1)
         /\ \A i \in DOMAIN kept : kept[i] = owned[ptr][i]
    BY DEF kept
  <2>16. /\ DOMAIN new = 0..(size - 1)
         /\ \A i \in 0..(size - 1) : new[i] = IF i \in DOMAIN kept THEN kept[i] ELSE u
    <3>1. DOMAIN kept \subseteq 0..(size - 1)
      BY <2>15
    <3>. QED
      BY <1>1, <3>1, StoredFacts
  <2>. HIDE DEF new
  <2>17. /\ DOMAIN owned' = (DOMAIN owned \ {ptr}) \cup {p} /\ owned'[p] = new
         /\ \A q \in DOMAIN owned \ {ptr} : q # p => owned'[q] = owned[q]
    <3>. DEFINE rest == Disowning(owned, ptr)
    <3>1. DOMAIN rest = DOMAIN owned \ {ptr} /\ \A q \in DOMAIN owned \ {ptr} : rest[q] = owned[q]
      BY DEF Disowning
    <3>. HIDE DEF rest
    <3>2. owned' = Put(rest, p, new)
      BY <2>1, <2>8, Zenon DEF Owning, new, rest
    <3>3. IsPut(owned', rest, p, new)
      BY <3>2, PutValues, Zenon
    <3>. QED
      BY <3>1, <3>3, Zenon DEF IsPut
  <2>18. DOMAIN owned' \subseteq Addresses
    BY <1>3, <2>5, <2>6, <2>17
  <2>19. TypeOK'
    <3>1. strayed' \in BOOLEAN
      BY <1>5, <1>7, Zenon DEF Strays
    <3>2. brk' \in Base..(Base + HeapWords) /\ global_base' \in {NULL, Base}
      BY <1>5, <2>8, SoundTypes
    <3>. QED
      BY <2>14, <2>18, <3>1, <3>2 DEF TypeOK, Memory
  <2>20. ASSUME ~strayed'
         PROVE  \E S2 : /\ Sound(mem', brk', global_base', S2, owned')
                        /\ heap' # heap =>
                             Orphans(mem', S2, owned') \subseteq Orphans(mem, S, owned)
    <3>1. PICK S2 : Tiled(freed, brk', global_base', S2) /\ Freed(copied, S1, freed, S2, b)
      BY <1>5, <2>10, <2>20
    <3>2. /\ Used(freed, S2) = Used(copied, S1) \ {b}
          /\ Kept(copied, freed, Used(copied, S1) \ {b})
      BY <3>1, Zenon DEF Freed
    <3>3. Used(freed, S2) = V \cup {c} /\ c \notin V /\ Used(copied, S1) \ {b} = V \cup {c}
      BY <2>3, <2>4, <2>9, <3>2 DEF m1, V
    <3>4. c \in S2
      BY <3>3 DEF Used
    <3>5. /\ freed[c + SIZE] = copied[c + SIZE] /\ Payload(copied, c) = Payload(m1, c)
          /\ \A a \in Payload(copied, c) : freed[a] = copied[a]
          /\ Payload(freed, c) = Payload(m1, c)
      <4>1. c \in Used(copied, S1) \ {b}
        BY <3>3
      <4>2. /\ freed[c + SIZE] = copied[c + SIZE]
            /\ \A a \in Payload(copied, c) : freed[a] = copied[a]
        BY <3>2, <4>1, Zenon DEF Kept
      <4>. QED
        BY <2>9, <4>2, Zenon DEF Payload
    <3>6. Elsewhere(freed, mem', Payload(freed, c))
      BY <2>13, <2>14, <3>5, Zenon DEF Elsewhere
    <3>7. /\ Tiled(mem', brk', global_base', S2) /\ Used(mem', S2) = Used(freed, S2)
          /\ Kept(freed, mem', S2 \ {c}) /\ mem'[c + SIZE] = freed[c + SIZE]
      <4>1. StoredIn(freed, mem', brk', global_base', S2, c)
        BY <2>14, <3>1, <3>4, <3>6, StoreFacts, Zenon
      <4>. QED
        BY <4>1, Zenon DEF StoredIn
    <3>8. Used(mem', S2) = V \cup {c}
      BY <3>3, <3>7
    <3>9. Kept(mem, mem', V)
      <4>1. V \subseteq Used(mem, S) /\ V \subseteq S1 \ {c} /\ V \subseteq Used(copied, S1) \ {b}
            /\ V \subseteq S2 \ {c}
        <5>1. V \subseteq Used(copied, S1) /\ V \subseteq Used(freed, S2) /\ c \notin V
          BY <3>3
        <5>. QED
          BY <3>3, <5>1 DEF Used, V
      <4>2. Kept(mem, m1, V)
        BY <2>3, <4>1, KeptLess DEF m1
      <4>3. Kept(m1, copied, V)
        BY <2>9, <4>1, KeptLess
      <4>4. Kept(copied, freed, V)
        BY <3>2, <4>1, KeptLess
      <4>5. Kept(freed, mem', V)
        BY <3>7, <4>1, KeptLess
      <4>. QED
        BY <4>2, <4>3, <4>4, <4>5, KeptTwice
    <3>10. Holds(mem', S2, owned', p)
      <4>1. p - Header = c /\ c \in Used(mem', S2)
        BY <2>5, <3>8 DEF p, Header
      <4>2. DOMAIN owned'[p] = 0..(size - 1) /\ size <= mem'[c + SIZE]
        BY <1>1, <2>3, <2>5, <2>9, <2>16, <2>17, <3>5, <3>7 DEF m1
      <4>3. ASSUME NEW i \in 0..(size - 1)
            PROVE  mem'[p + i] = owned'[p][i]
        <5>1. i \in Nat /\ i < size
          BY <1>1
        <5>2. CASE i \in DOMAIN kept
          <6>1. PICK n \in Nat : /\ DOMAIN owned[ptr] = 0..(n - 1) /\ n <= mem[b + SIZE]
                                 /\ \A j \in 0..(n - 1) : mem[ptr + j] = owned[ptr][j]
            BY <1>3, Zenon DEF Holds, b
          <6>2. i \in 0..(n - 1) /\ owned'[p][i] = owned[ptr][i]
            BY <2>15, <2>16, <2>17, <5>2, <6>1
          <6>3. /\ b \in Nat /\ mem[b + SIZE] \in Nat /\ End(mem, b) = b + Header + mem[b + SIZE]
                /\ Payload(mem, b) = (b + Header)..(End(mem, b) - 1)
            BY <1>3, <2>4, BlockFacts DEF Used
          <6>4. m1[b + SIZE] = mem[b + SIZE] /\ \A a \in Payload(mem, b) : m1[a] = mem[a]
            BY <2>3, <2>4, Zenon DEF Kept, m1
          <6>5. i < mem[b + SIZE] /\ ptr + i \in Payload(mem, b)
            <7>. DEFINE s == mem[b + SIZE]
                        e == End(mem, b)
            <7>1. s \in Nat /\ e = ptr + s /\ n <= s
              BY <2>4, <6>1, <6>3
            <7>. HIDE DEF s, e
            <7>2. i < s /\ ptr + i \in ptr..(e - 1)
              BY <2>4, <6>2, <7>1
            <7>. QED
              BY <2>4, <6>3, <7>2 DEF e, s
          <6>6. copied[p + i] = mem[ptr + i]
            BY <2>7, <5>1, <6>4, <6>5
          <6>7. freed[p + i] = copied[p + i]
            BY <2>6, <3>5
          <6>8. p + i \notin DOMAIN fill /\ p + i \in Addresses
            <7>1. \A j \in 0..(size - 1) : p + j = p + i => j = i
              BY <1>1, <2>6
            <7>. QED
              BY <2>5, <2>6, <2>11, <5>2, <7>1
          <6>. QED
            BY <2>14, <6>1, <6>2, <6>6, <6>7, <6>8
        <5>3. CASE i \notin DOMAIN kept
          <6>1. p + i \in DOMAIN fill
            BY <2>11, <5>3
          <6>. QED
            BY <2>14, <2>16, <2>17, <5>3, <6>1
        <5>. QED
          BY <5>2, <5>3
      <4>. QED
        BY <1>1, <4>1, <4>2, <4>3, Zenon DEF Holds
    <3>11. ASSUME NEW q \in DOMAIN owned \ {ptr}, q # p
           PROVE  Holds(mem', S2, owned', q)
      <4>1. q \in Addresses /\ Holds(mem, S, owned, q)
        BY <1>3
      <4>2. q \in Nat
        BY <4>1, HeapAssumption DEF Addresses
      <4>3. q - Header \in Used(mem, S)
        BY <4>1, Zenon DEF Holds
      <4>4. q - Header # b
        BY <2>4, <4>2 DEF b, Header
      <4>5. q - Header \in V /\ q - Header \in Used(mem', S2)
        BY <3>8, <4>3, <4>4 DEF V
      <4>6. owned'[q] = owned[q]
        BY <2>17, <3>11
      <4>. QED
        BY <1>3, <3>9, <4>1, <4>2, <4>5, <4>6, HoldsKept
    <3>12. Sound(mem', brk', global_base', S2, owned')
      BY <2>17, <2>18, <3>7, <3>10, <3>11 DEF Sound
    <3>13. Orphans(mem', S2, owned') \subseteq Orphans(mem, S, owned)
      <4>1. \A x \in V : x + Header # ptr
        <5>1. \A x \in V : x \in Nat /\ x # b
          BY <1>3, BlockFacts DEF V, Used
        <5>2. b \in Nat
          BY <1>3, <2>4, BlockFacts DEF Used
        <5>. QED
          BY <2>4, <5>1, <5>2 DEF Header
      <4>. QED
        BY <2>17, <3>8, <4>1 DEF Orphans, p, V
    <3>. QED
      BY <3>12, <3>13
  <2>. QED
    BY <2>19, <2>20 DEF Proceeds
<1>. QED
  BY <1>6, <1>7

\* Every call proceeds from a sound heap to a sound heap.
LEMMA StepProceeds ==
  ASSUME TypeOK, NEW S, Sound(mem, brk, global_base, S, owned), Next
  PROVE  Proceeds(S)
<1>1. CASE \E size \in Sizes : Malloc(size)
  BY <1>1, MallocStep
<1>2. ASSUME NEW ptr \in DOMAIN owned, Free(ptr)
      PROVE  Proceeds(S)
  BY <1>2, FreeStep
<1>3. ASSUME NEW ptr \in DOMAIN owned, ReallocToZero(ptr)
      PROVE  Proceeds(S)
  BY <1>3, ReallocToZeroStep
<1>4. ASSUME NEW ptr \in DOMAIN owned, NEW size \in Sizes, Realloc(ptr, size)
      PROVE  Proceeds(S)
  BY <1>4, ReallocStep
<1>. QED
  BY <1>1, <1>2, <1>3, <1>4 DEF Next

\* No call is made once a free has strayed.
LEMMA StopsStrayed == Next => ~strayed
BY Zenon DEF Next, Malloc, Free, ReallocToZero, Realloc

\* The empty heap is tiled by no block.
LEMMA InitHeapInv == Init => HeapInv
<1>. SUFFICES ASSUME Init PROVE HeapInv
  OBVIOUS
<1>1. /\ mem = [a \in Addresses |-> 0] /\ brk = Base /\ global_base = NULL
      /\ owned = << >> /\ strayed = FALSE
  BY DEF Init
<1>2. /\ mem \in [Addresses -> Nat] /\ brk \in Base..(Base + HeapWords)
      /\ global_base \in {NULL, Base} /\ DOMAIN owned = {}
  BY <1>1, HeapAssumption
<1>3. Tiled(mem, brk, global_base, {})
  BY <1>1, <1>2 DEF Tiled
<1>. QED
  BY <1>1, <1>2, <1>3 DEF HeapInv, TypeOK

\* Every call keeps the invariant.
LEMMA NextHeapInv == HeapInv /\ [Next]_vars => HeapInv'
<1>. SUFFICES ASSUME HeapInv, [Next]_vars PROVE HeapInv'
  OBVIOUS
<1>1. CASE Next
  <2>1. TypeOK /\ ~strayed
    BY <1>1, StopsStrayed DEF HeapInv
  <2>2. PICK S : /\ Tiled(mem, brk, global_base, S)
                 /\ \A p \in DOMAIN owned : Holds(mem, S, owned, p)
    BY <2>1 DEF HeapInv
  <2>3. Sound(mem, brk, global_base, S, owned)
    BY <2>1, <2>2 DEF Sound, TypeOK
  <2>4. Proceeds(S)
    BY <1>1, <2>1, <2>3, StepProceeds
  <2>. QED
    BY <2>4, Zenon DEF Proceeds, HeapInv, Sound
<1>2. CASE UNCHANGED vars
  <2>1. /\ mem' = mem /\ brk' = brk /\ global_base' = global_base
        /\ owned' = owned /\ strayed' = strayed
    BY <1>2 DEF vars, heap
  <2>. QED
    BY <2>1 DEF HeapInv, TypeOK
<1>. QED
  BY <1>1, <1>2

\* The invariant of every run of the allocator.
THEOREM HeapInvariant == Spec => []HeapInv
BY InitHeapInv, NextHeapInv, PTL DEF Spec

-----------------------------------------------------------------------------
(* The theorems *)

\* The blocks tile the heap up to brk, and every pointer the callers hold leads
\* to a block in use with room for what they stored: after every sequence of
\* mm_malloc, mm_free and mm_realloc, on a heap of any size, until a free
\* strays (mm_alloc.c:45-158).
THEOREM Tiles == Spec => []HeapTiled
<1>1. HeapInv => HeapTiled
  <2>. SUFFICES ASSUME HeapInv PROVE HeapTiled
    OBVIOUS
  <2>1. ASSUME ~strayed
        PROVE  /\ \A b \in Blocks(Heap) :
                    LET end == b + Header + mem[b + SIZE]
                    IN  IF mem[b + NEXT] = NULL THEN end = brk ELSE mem[b + NEXT] = end
               /\ \A p \in DOMAIN owned :
                    /\ p - Header \in Blocks(Heap) /\ mem[p - Header + FREE] = 0
                    /\ Cardinality(DOMAIN owned[p]) <= mem[p - Header + SIZE]
    <3>1. PICK S : /\ Tiled(mem, brk, global_base, S)
                   /\ \A p \in DOMAIN owned : Holds(mem, S, owned, p)
      BY <2>1, Zenon DEF HeapInv
    <3>2. Blocks(Heap) = S
      BY <3>1, BlocksAre DEF Heap
    <3>3. ASSUME NEW b \in S
          PROVE  IF mem[b + NEXT] = NULL THEN End(mem, b) = brk ELSE mem[b + NEXT] = End(mem, b)
      <4>1. /\ \/ mem[b + NEXT] = NULL /\ End(mem, b) = brk
               \/ mem[b + NEXT] = End(mem, b) /\ End(mem, b) \in S
            /\ NULL \notin S
        BY <3>1, TileFacts
      <4>. QED
        BY <4>1
    <3>4. ASSUME NEW p \in DOMAIN owned
          PROVE  /\ p - Header \in S /\ mem[p - Header + FREE] = 0
                 /\ Cardinality(DOMAIN owned[p]) <= mem[p - Header + SIZE]
      <4>1. PICK n \in Nat : DOMAIN owned[p] = 0..(n - 1) /\ n <= mem[p - Header + SIZE]
        BY <3>1, Zenon DEF Holds
      <4>2. Cardinality(0..(n - 1)) = n
        BY FS_Interval
      <4>3. p - Header \in Used(mem, S)
        BY <3>1, Zenon DEF Holds
      <4>. QED
        BY <4>1, <4>2, <4>3 DEF Used
    <3>. QED
      BY <3>2, <3>3, <3>4, Zenon DEF End
  <2>. QED
    BY <2>1, Zenon DEF HeapTiled, HeapInv
<1>. QED
  BY <1>1, HeapInvariant, PTL

\* Callers find what they stored, whatever others allocate, free and reallocate
\* meanwhile, and realloc brings it along to the new block, until a free strays
\* (mm_alloc.c:118-213).
THEOREM KeepsData == Spec => []DataKept
<1>1. HeapInv => DataKept
  <2>. SUFFICES ASSUME HeapInv, ~strayed, NEW p \in DOMAIN owned, NEW i \in DOMAIN owned[p]
                PROVE  mem[p + i] = owned[p][i]
    BY DEF DataKept
  <2>1. PICK S : Holds(mem, S, owned, p)
    BY Zenon DEF HeapInv
  <2>. QED
    BY <2>1, Zenon DEF Holds
<1>. QED
  BY <1>1, HeapInvariant, PTL

\* A call that changes the heap leaves no block in use that nobody can free
\* and that was not so before: what malloc takes or splits off is owned or free,
\* and realloc gives the old block back (mm_alloc.c:89-112, 160-199).
THEOREM LosesNothingElse == Spec => NothingElseLost
<1>1. HeapInv /\ HeapInv' /\ [Next]_vars => [~strayed' /\ heap' # heap => Lost' \subseteq Lost]_vars
  <2>. SUFFICES ASSUME HeapInv, Next, ~strayed', heap' # heap PROVE Lost' \subseteq Lost
    BY DEF vars
  <2>1. TypeOK /\ ~strayed
    BY StopsStrayed DEF HeapInv
  <2>2. PICK S : /\ Tiled(mem, brk, global_base, S)
                 /\ \A p \in DOMAIN owned : Holds(mem, S, owned, p)
    BY <2>1 DEF HeapInv
  <2>3. Sound(mem, brk, global_base, S, owned)
    BY <2>1, <2>2 DEF Sound, TypeOK
  <2>4. Proceeds(S)
    BY <2>1, <2>3, StepProceeds
  <2>5. PICK S2 : /\ Sound(mem', brk', global_base', S2, owned')
                  /\ Orphans(mem', S2, owned') \subseteq Orphans(mem, S, owned)
    BY <2>4, Zenon DEF Proceeds
  <2>6. Blocks(Heap) = S
    BY <2>2, BlocksAre DEF Heap
  <2>7. Blocks(Heap)' = S2
    <3>1. Tiled(mem', brk', global_base', S2)
      BY <2>5, Zenon DEF Sound
    <3>. QED
      BY <3>1, BlocksAre DEF Heap
  <2>8. Lost = Orphans(mem, S, owned)
    BY <2>6 DEF Lost, Orphans, Used
  <2>9. Lost' = Orphans(mem', S2, owned')
    BY <2>7 DEF Lost, Orphans, Used
  <2>. QED
    BY <2>5, <2>8, <2>9
<1>. QED
  BY <1>1, HeapInvariant, PTL DEF Spec, NothingElseLost

====
