---------------------------- MODULE KVStoreProofs ----------------------------
(***************************************************************************)
(* Proofs about the persistent store, for any keys, values and hash        *)
(* function, any number of threads that put, delete and get, and any       *)
(* number of crashes: up to the first call that acts on a stale position,  *)
(* the files of every hash form a complete chain without a duplicate, and  *)
(* the chains are the map of KVMap.                                        *)
(***************************************************************************)
EXTENDS KVStore, FiniteSetTheorems, TLAPS

Entries == [key : Keys, val : Vals]

\* A chain of n files without two entries for a key; files that a crash left
\* empty stay in it.
ChainOf(c, n) ==
  /\ c \in [0..(n - 1) -> Contents]
  /\ \A p, q \in 0..(n - 1) : c[p] # Empty /\ c[q] # Empty /\ c[p].key = c[q].key => p = q

\* What a search for k returns, with its value.
Value(c, k) == IF Position(c, k) = NULL THEN NULL ELSE c[Position(c, k)].val

-----------------------------------------------------------------------------
(* Chains *)

\* NULL and Empty are no entries and no positions.
LEMMA Apart ==
  /\ NULL \notin Nat /\ NULL \notin Vals /\ NULL \notin Keys /\ NULL \notin Threads
  /\ Empty \notin Entries /\ Contents = Entries \cup {Empty}
BY StoreAssumption DEF Entries, Contents

\* The end of a complete chain is its length (kvstore.c:62-75).
LEMMA FirstFreeIs ==
  ASSUME NEW n \in Nat, NEW c, ChainOf(c, n), NEW p \in 0..n
  PROVE  FirstFree(c, p) = n
<1>1. DOMAIN c = 0..(n - 1)
  BY DEF ChainOf
<1>2. Cardinality(0..(n - 1)) = n
  <2>1. n - 1 \in Int /\ 0 \in Int
    OBVIOUS
  <2>2. Cardinality(0..(n - 1)) = IF 0 > n - 1 THEN 0 ELSE (n - 1) - 0 + 1
    BY <2>1, FS_Interval
  <2>. QED
    BY <2>2
<1>3. FirstFree(c, p) = CHOOSE x \in p..(p + n) : x \notin 0..(n - 1) /\ \A m \in p..(x - 1) : m \in 0..(n - 1)
  BY <1>1, <1>2 DEF FirstFree
<1>4. n \in p..(p + n) /\ n \notin 0..(n - 1) /\ \A m \in p..(n - 1) : m \in 0..(n - 1)
  OBVIOUS
<1>5. ASSUME NEW x \in p..(p + n), x \notin 0..(n - 1), \A m \in p..(x - 1) : m \in 0..(n - 1)
      PROVE  x = n
  <2>1. x >= n
    BY <1>5
  <2>2. ~(x > n)
    <3>. SUFFICES ASSUME x > n PROVE FALSE
      OBVIOUS
    <3>1. n \in p..(x - 1)
      OBVIOUS
    <3>. QED
      BY <1>4, <1>5, <3>1
  <2>. QED
    BY <2>1, <2>2
<1>. QED
  BY <1>3, <1>4, <1>5

\* find_entry reaches every file of a complete chain (kvstore.c:36-60).
LEMMA MatchesAre ==
  ASSUME NEW n \in Nat, NEW c, ChainOf(c, n), NEW k
  PROVE  Matches(c, k) = {p \in 0..(n - 1) : c[p] # Empty /\ c[p].key = k}
<1>1. DOMAIN c = 0..(n - 1)
  BY DEF ChainOf
<1>2. FirstFree(c, 0) = n
  BY FirstFreeIs
<1>3. \A p \in 0..(n - 1) : p < n
  OBVIOUS
<1>. QED
  BY <1>1, <1>2, <1>3 DEF Matches

\* It finds the one entry of a key.
LEMMA Found ==
  ASSUME NEW n \in Nat, NEW c, ChainOf(c, n), NEW k, NEW p \in 0..(n - 1), c[p] # Empty, c[p].key = k
  PROVE  Position(c, k) = p /\ Matches(c, k) = {p}
<1>1. Matches(c, k) = {p}
  BY MatchesAre DEF ChainOf
<1>2. (CHOOSE q \in {p} : \A r \in {p} : q <= r) = p
  OBVIOUS
<1>. QED
  BY <1>1, <1>2 DEF Position

\* It finds nothing where there is none.
LEMMA NotFound ==
  ASSUME NEW n \in Nat, NEW c, ChainOf(c, n), NEW k, \A p \in 0..(n - 1) : c[p] # Empty => c[p].key # k
  PROVE  Position(c, k) = NULL /\ Matches(c, k) = {}
<1>1. Matches(c, k) = {}
  BY MatchesAre
<1>. QED
  BY <1>1 DEF Position

\* What a search returns tells which.
LEMMA Searched ==
  ASSUME NEW n \in Nat, NEW c, ChainOf(c, n), NEW k
  PROVE  \/ /\ Position(c, k) = NULL /\ Value(c, k) = NULL
            /\ \A p \in 0..(n - 1) : c[p] # Empty => c[p].key # k
         \/ /\ Position(c, k) \in 0..(n - 1) /\ Position(c, k) # NULL
            /\ c[Position(c, k)] \in Entries /\ c[Position(c, k)] # Empty /\ c[Position(c, k)].key = k
            /\ Value(c, k) = c[Position(c, k)].val /\ Value(c, k) \in Vals
<1>1. CASE \A p \in 0..(n - 1) : c[p] # Empty => c[p].key # k
  BY <1>1, NotFound DEF Value
<1>2. ASSUME NEW p \in 0..(n - 1), c[p] # Empty, c[p].key = k
      PROVE  /\ Position(c, k) \in 0..(n - 1) /\ Position(c, k) # NULL
             /\ c[Position(c, k)] \in Entries /\ c[Position(c, k)] # Empty /\ c[Position(c, k)].key = k
             /\ Value(c, k) = c[Position(c, k)].val /\ Value(c, k) \in Vals
  <2>1. Position(c, k) = p
    BY <1>2, Found
  <2>2. p \in Nat /\ p # NULL
    BY Apart
  <2>3. c[p] \in Entries
    BY <1>2, Apart DEF ChainOf
  <2>4. c[p].val \in Vals
    BY <2>3 DEF Entries
  <2>. QED
    BY <1>2, <2>1, <2>2, <2>3, <2>4 DEF Value
<1>. QED
  BY <1>1, <1>2

\* Two chains with the same entry, or none, for a key give it the same value.
LEMMA SameEntry ==
  ASSUME NEW n \in Nat, NEW c, ChainOf(c, n), NEW m \in Nat, NEW d, ChainOf(d, m), NEW k,
         \A p \in 0..(n - 1) : c[p] # Empty /\ c[p].key = k => \E q \in 0..(m - 1) : d[q] = c[p],
         \A q \in 0..(m - 1) : d[q] # Empty /\ d[q].key = k => \E p \in 0..(n - 1) : c[p] = d[q]
  PROVE  Value(c, k) = Value(d, k)
<1>1. CASE \A p \in 0..(n - 1) : c[p] # Empty => c[p].key # k
  <2>1. \A q \in 0..(m - 1) : d[q] # Empty => d[q].key # k
    BY <1>1
  <2>2. Position(c, k) = NULL /\ Position(d, k) = NULL
    BY <1>1, <2>1, NotFound
  <2>. QED
    BY <2>2 DEF Value
<1>2. ASSUME NEW p \in 0..(n - 1), c[p] # Empty, c[p].key = k
      PROVE  Value(c, k) = Value(d, k)
  <2>1. PICK q \in 0..(m - 1) : d[q] = c[p]
    BY <1>2
  <2>2. Position(c, k) = p /\ Position(d, k) = q
    BY <1>2, <2>1, Found
  <2>3. p # NULL /\ q # NULL
    BY Apart
  <2>. QED
    BY <2>1, <2>2, <2>3 DEF Value
<1>. QED
  BY <1>1, <1>2

\* The place of a key's entry, or the end of a chain that has none.
Fits(c, n, place, k) ==
  /\ ChainOf(c, n) /\ place \in 0..n
  /\ \A q \in 0..(n - 1) : q # place /\ c[q] # Empty => c[q].key # k
  /\ place # n /\ c[place] # Empty => c[place].key = k

\* Of the chain c only that place has changed, and of the map only k's value.
Rewritten(c, d, n, m, place, e, k) ==
  /\ place \in 0..(m - 1) /\ ChainOf(d, m) /\ d[place] = e
  /\ \A q \in 0..(m - 1) : q # place => d[q] = c[q] /\ q \in 0..(n - 1)
  /\ Value(d, k) = IF e = Empty THEN NULL ELSE e.val
  /\ \A j \in Keys : j # k => Value(d, j) = Value(c, j)

\* Writing at the place of a key's entry, or at the end when it has none, leaves
\* a chain in which only that key's value has changed (kvstore.c:132-160).
LEMMA WithChain ==
  ASSUME NEW n \in Nat, NEW c, NEW k, NEW place, Fits(c, n, place, k),
         NEW e \in Contents, e = Empty \/ e.key = k
  PROVE  \E m \in Nat : Rewritten(c, With(c, place, e), n, m, place, e, k)
<1>0. /\ ChainOf(c, n) /\ place \in 0..n
      /\ \A q \in 0..(n - 1) : q # place /\ c[q] # Empty => c[q].key # k
      /\ place # n /\ c[place] # Empty => c[place].key = k
  BY DEF Fits
<1>m. PICK m : m = IF place = n THEN n + 1 ELSE n
  OBVIOUS
<1>. DEFINE d == With(c, place, e)
<1>1. DOMAIN c = 0..(n - 1) /\ \A q \in 0..(n - 1) : c[q] \in Contents
  BY <1>0 DEF ChainOf
<1>2. m \in Nat /\ place \in 0..(m - 1) /\ (0..(n - 1)) \cup {place} = 0..(m - 1)
  BY <1>0, <1>m
<1>3. d = [q \in 0..(m - 1) |-> IF q = place THEN e ELSE c[q]]
  BY <1>1, <1>2 DEF With
<1>4. d[place] = e
  BY <1>2, <1>3
<1>5. \A q \in 0..(m - 1) : q # place => d[q] = c[q] /\ q \in 0..(n - 1)
  BY <1>2, <1>3
<1>6. d \in [0..(m - 1) -> Contents]
  BY <1>1, <1>2, <1>3, <1>5
<1>. HIDE DEF d
<1>7. ASSUME NEW p \in 0..(m - 1), NEW q \in 0..(m - 1), d[p] # Empty, d[q] # Empty, d[p].key = d[q].key
      PROVE  p = q
  <2>1. CASE p = place /\ q # place
    BY <1>0, <1>4, <1>5, <1>7, <2>1
  <2>2. CASE p # place /\ q = place
    BY <1>0, <1>4, <1>5, <1>7, <2>2
  <2>3. CASE p # place /\ q # place
    BY <1>0, <1>5, <1>7, <2>3 DEF ChainOf
  <2>. QED
    BY <2>1, <2>2, <2>3
<1>8. ChainOf(d, m)
  BY <1>6, <1>7 DEF ChainOf
<1>9. Value(d, k) = IF e = Empty THEN NULL ELSE e.val
  <2>1. CASE e = Empty
    <3>1. \A q \in 0..(m - 1) : d[q] # Empty => d[q].key # k
      BY <1>0, <1>4, <1>5, <2>1
    <3>. QED
      BY <1>2, <1>8, <2>1, <3>1, NotFound DEF Value
  <2>2. CASE e # Empty
    <3>1. Position(d, k) = place
      BY <1>2, <1>4, <1>8, <2>2, Found
    <3>2. place # NULL
      BY <1>0, Apart
    <3>. QED
      BY <1>4, <2>2, <3>1, <3>2 DEF Value
  <2>. QED
    BY <2>1, <2>2
<1>10. ASSUME NEW j \in Keys, j # k PROVE Value(d, j) = Value(c, j)
  <2>1. ASSUME NEW p \in 0..(n - 1), c[p] # Empty, c[p].key = j PROVE \E q \in 0..(m - 1) : d[q] = c[p]
    <3>1. p # place /\ p \in 0..(m - 1)
      BY <1>0, <1>10, <2>1, <1>2
    <3>. QED
      BY <1>5, <3>1
  <2>2. ASSUME NEW q \in 0..(m - 1), d[q] # Empty, d[q].key = j PROVE \E p \in 0..(n - 1) : c[p] = d[q]
    <3>1. q # place
      BY <1>4, <1>10, <2>2
    <3>. QED
      BY <1>5, <3>1
  <2>. QED
    BY <1>0, <1>2, <1>8, <2>1, <2>2, SameEntry
<1>. QED
  BY <1>2, <1>4, <1>5, <1>8, <1>9, <1>10 DEF d, Rewritten

\* Opening a file and then writing it is writing it (kvstore.c:140-156).
LEMMA WithTwice ==
  ASSUME NEW c, NEW p, NEW a, NEW b
  PROVE  With(With(c, p, a), p, b) = With(c, p, b)
BY DEF With

\* Deleting a key's entry: the last file takes its place, and only that key has
\* lost its value (kvstore.c:181-215).
LEMMA DeletedChain ==
  ASSUME NEW n \in Nat, NEW c, ChainOf(c, n), NEW k, NEW p \in 0..(n - 1), c[p] # Empty, c[p].key = k
  PROVE  /\ n - 1 \in Nat /\ ChainOf(Deleted(c, p), n - 1)
         /\ Value(Deleted(c, p), k) = NULL
         /\ \A j \in Keys : j # k => Value(Deleted(c, p), j) = Value(c, j)
<1>. DEFINE d == Deleted(c, p)
            last == n - 1
<1>1. DOMAIN c = 0..last /\ \A q \in 0..last : c[q] \in Contents
  BY DEF ChainOf
<1>2. FirstFree(c, p + 1) - 1 = last
  <2>1. p + 1 \in 0..n
    OBVIOUS
  <2>2. FirstFree(c, p + 1) = n
    BY <2>1, FirstFreeIs
  <2>. QED
    BY <2>2
<1>3. last \in Nat /\ last \in 0..last /\ (0..last) \ {last} = 0..(last - 1)
  OBVIOUS
<1>4. d = [q \in 0..(last - 1) |-> IF q = p THEN c[last] ELSE c[q]]
  <2>1. CASE last = p
    <3>1. d = [q \in (0..last) \ {last} |-> c[q]]
      BY <1>1, <1>2, <2>1 DEF Deleted, Without
    <3>2. \A q \in 0..(last - 1) : q # p
      BY <2>1
    <3>. QED
      BY <1>3, <3>1, <3>2
  <2>2. CASE last # p
    <3>1. (0..last) \cup {p} = 0..last
      OBVIOUS
    <3>2. With(c, p, c[last]) = [q \in 0..last |-> IF q = p THEN c[last] ELSE c[q]]
      BY <1>1, <3>1 DEF With
    <3>3. d = Without(With(c, p, c[last]), last)
      BY <1>2, <2>2 DEF Deleted
    <3>4. d = [q \in (0..last) \ {last} |-> IF q = p THEN c[last] ELSE c[q]]
      BY <3>2, <3>3 DEF Without
    <3>. QED
      BY <1>3, <3>4
  <2>. QED
    BY <2>1, <2>2
<1>. HIDE DEF d, last
<1>5. last = n - 1
  BY DEF last
<1>6. \A q \in 0..(last - 1) : q \in 0..last /\ q # last
  BY <1>3
<1>7. d \in [0..(last - 1) -> Contents]
  BY <1>1, <1>3, <1>4, <1>6
\* Where each file of the new chain comes from.
<1>8. \A q \in 0..(last - 1) : d[q] = c[IF q = p THEN last ELSE q]
  BY <1>4
<1>9. \A q, r \in 0..last : c[q] # Empty /\ c[r] # Empty /\ c[q].key = c[r].key => q = r
  BY <1>5 DEF ChainOf
<1>10. p \in 0..last
  BY <1>5
<1>11. \A q, r \in 0..(last - 1) : d[q] # Empty /\ d[r] # Empty /\ d[q].key = d[r].key => q = r
  <2>. SUFFICES ASSUME NEW q \in 0..(last - 1), NEW r \in 0..(last - 1), d[q] # Empty, d[r] # Empty,
                       d[q].key = d[r].key
                PROVE  q = r
    OBVIOUS
  <2>1. (IF q = p THEN last ELSE q) = (IF r = p THEN last ELSE r)
    BY <1>3, <1>6, <1>8, <1>9
  <2>. QED
    BY <1>6, <2>1
<1>12. ChainOf(d, last)
  BY <1>7, <1>11 DEF ChainOf
<1>13. \A q \in 0..(last - 1) : d[q] # Empty => d[q].key # k
  <2>. SUFFICES ASSUME NEW q \in 0..(last - 1), d[q] # Empty, d[q].key = k PROVE FALSE
    OBVIOUS
  <2>1. (IF q = p THEN last ELSE q) = p
    BY <1>3, <1>6, <1>8, <1>9, <1>10
  <2>. QED
    BY <1>6, <2>1
<1>14. Value(d, k) = NULL
  BY <1>3, <1>12, <1>13, NotFound DEF Value
<1>15. ASSUME NEW j \in Keys, j # k PROVE Value(d, j) = Value(c, j)
  <2>1. ASSUME NEW q \in 0..(last - 1), d[q] # Empty, d[q].key = j PROVE \E r \in 0..(n - 1) : c[r] = d[q]
    <3>1. (IF q = p THEN last ELSE q) \in 0..(n - 1)
      BY <1>3, <1>5, <1>6
    <3>. QED
      BY <1>8, <3>1
  <2>2. ASSUME NEW r \in 0..(n - 1), c[r] # Empty, c[r].key = j PROVE \E q \in 0..(last - 1) : d[q] = c[r]
    <3>1. r # p
      BY <1>15, <2>2
    <3>2. CASE r = last
      <4>1. p \in 0..(last - 1)
        BY <1>3, <1>10, <3>1, <3>2
      <4>. QED
        BY <1>8, <3>2, <4>1
    <3>3. CASE r # last
      <4>1. r \in 0..(last - 1)
        BY <1>3, <1>5, <3>3
      <4>. QED
        BY <1>8, <3>1, <4>1
    <3>. QED
      BY <3>2, <3>3
  <2>. QED
    BY <1>3, <1>12, <2>1, <2>2, SameEntry
<1>. QED
  BY <1>3, <1>5, <1>12, <1>14, <1>15 DEF d

-----------------------------------------------------------------------------
(* The invariant *)

\* A delete has found something, and the file that a put has open is the only
\* one of its key.
CallInPlace(st, op, p, c, k) ==
  /\ st = "act" /\ op = "del" => p # NULL
  /\ st = "write" => /\ p \in DOMAIN c /\ c[p] = Empty
                     /\ \A q \in DOMAIN c : c[q] # Empty => c[q].key # k

ThreadInPlace(t) ==
  /\ lock = t <=> pc[t] = "write"
  /\ pc[t] = "idle" <=> call[t] = NULL
  /\ pc[t] \in {"act", "write"} => call[t].op # "get"
  /\ pc[t] = "write" => call[t].op = "put"
  /\ \A k \in Keys : k = call[t].key =>
       CallInPlace(pc[t], call[t].op, pos[t], files[Hash[k]], k)

StoreInv ==
  /\ files = [h \in Hashes |-> files[h]]
  /\ \A h \in Hashes : \E n \in Nat : ChainOf(files[h], n)
  /\ lock \in Threads \cup {NULL}
  /\ pc \in [Threads -> {"idle", "find", "act", "write"}]
  /\ call \in [Threads -> Calls \cup {NULL}]
  /\ pos \in [Threads -> Nat \cup {NULL}]
  /\ result \in [Threads -> Vals \cup {"OK", "ERRNOKEY", "ENOENT", NULL}]
  /\ crashes \in 0..MaxCrashes
  /\ \A t \in Threads : ThreadInPlace(t)

\* What a thread in a call has to do with.
LEMMA CallFacts ==
  ASSUME StoreInv, NEW t \in Threads, pc[t] # "idle"
  PROVE  /\ ThreadInPlace(t) /\ call[t] \in Calls /\ call[t] # NULL
         /\ call[t].key \in Keys /\ Hash[call[t].key] \in Hashes
         /\ call[t].op \in {"get", "put", "del"} /\ (call[t].op = "put" => call[t].val \in Vals)
         /\ Chain(t) = files[Hash[call[t].key]]
         /\ \E n \in Nat : ChainOf(Chain(t), n)
         /\ CallInPlace(pc[t], call[t].op, pos[t], Chain(t), call[t].key)
<1>1. ThreadInPlace(t)
  BY DEF StoreInv
<1>2. call[t] # NULL /\ call[t] \in Calls
  BY <1>1 DEF StoreInv, ThreadInPlace
<1>3. call[t].key \in Keys /\ call[t].op \in {"get", "put", "del"} /\ (call[t].op = "put" => call[t].val \in Vals)
  BY <1>2 DEF Calls
<1>4. Hash[call[t].key] \in Hashes
  BY <1>3, StoreAssumption
<1>5. Chain(t) = files[Hash[call[t].key]]
  BY DEF Chain
<1>6. \E n \in Nat : ChainOf(Chain(t), n)
  BY <1>4, <1>5 DEF StoreInv
<1>7. CallInPlace(pc[t], call[t].op, pos[t], Chain(t), call[t].key)
  BY <1>1, <1>3, <1>5 DEF ThreadInPlace
<1>. QED
  BY <1>1, <1>2, <1>3, <1>4, <1>5, <1>6, <1>7

\* Other threads keep their place: when a step changes files, they have none
\* open.
LEMMA OthersStay ==
  ASSUME StoreInv, NEW u \in Threads, pc'[u] = pc[u], call'[u] = call[u], pos'[u] = pos[u],
         lock' = u <=> lock = u, files' = files \/ pc[u] # "write"
  PROVE  ThreadInPlace(u)'
<1>1. ThreadInPlace(u)
  BY DEF StoreInv
<1>2. CASE files' = files
  BY <1>1, <1>2 DEF ThreadInPlace
<1>3. CASE pc[u] # "write"
  BY <1>1, <1>3 DEF ThreadInPlace, CallInPlace
<1>. QED
  BY <1>2, <1>3

\* A new process on an empty directory.
LEMMA StoreInitInv == Init => StoreInv
<1>. SUFFICES ASSUME Init PROVE StoreInv
  OBVIOUS
<1>1. ASSUME NEW h \in Hashes PROVE ChainOf(files[h], 0)
  <2>1. files[h] = << >> /\ 0..(0 - 1) = {}
    BY DEF Init
  <2>2. << >> \in [{} -> Contents]
    OBVIOUS
  <2>. QED
    BY <2>1, <2>2 DEF ChainOf
<1>2. ASSUME NEW t \in Threads PROVE ThreadInPlace(t)
  BY Apart DEF Init, ThreadInPlace, CallInPlace
<1>3. crashes \in 0..MaxCrashes
  BY StoreAssumption DEF Init
<1>4. \A h \in Hashes : \E n \in Nat : ChainOf(files[h], n)
  BY <1>1
<1>. QED
  BY <1>2, <1>3, <1>4 DEF Init, StoreInv

-----------------------------------------------------------------------------
(* The steps *)

\* The map that the files hold, files that are open aside.
Stored == [k \in Keys |-> Value(files[Hash[k]], k)]

\* A step of a thread that leaves the files alone.
LEMMA QuietStep ==
  ASSUME StoreInv, NEW t \in Threads, UNCHANGED <<files, lock, crashes>>,
         pc' \in [Threads -> {"idle", "find", "act", "write"}],
         call' \in [Threads -> Calls \cup {NULL}],
         pos' \in [Threads -> Nat \cup {NULL}],
         result' \in [Threads -> Vals \cup {"OK", "ERRNOKEY", "ENOENT", NULL}],
         \A u \in Threads : u # t => pc'[u] = pc[u] /\ call'[u] = call[u] /\ pos'[u] = pos[u],
         ThreadInPlace(t)'
  PROVE  StoreInv'
<1>1. ASSUME NEW u \in Threads PROVE ThreadInPlace(u)'
  <2>1. CASE u = t
    BY <2>1
  <2>2. CASE u # t
    BY <2>2, OthersStay
  <2>. QED
    BY <2>1, <2>2
<1>. QED
  BY <1>1 DEF StoreInv

\* A step on the chain of the key's hash, by the thread that holds the lock before
\* it or after it.
LEMMA WriterStep ==
  ASSUME StoreInv, NEW t \in Threads, pc[t] \in {"act", "write"}, NEW d, NEW n \in Nat, ChainOf(d, n),
         SetChain(t, d), UNCHANGED crashes, lock' \in {t, NULL}, lock \in {t, NULL},
         pc' \in [Threads -> {"idle", "find", "act", "write"}],
         call' \in [Threads -> Calls \cup {NULL}],
         pos' \in [Threads -> Nat \cup {NULL}],
         result' \in [Threads -> Vals \cup {"OK", "ERRNOKEY", "ENOENT", NULL}],
         \A u \in Threads : u # t => pc'[u] = pc[u] /\ call'[u] = call[u] /\ pos'[u] = pos[u],
         ThreadInPlace(t)'
  PROVE  StoreInv'
<1>1. Hash[call[t].key] \in Hashes
  BY CallFacts
<1>2. /\ files' = [h \in Hashes |-> files'[h]]
      /\ \A h \in Hashes : files'[h] = IF h = Hash[call[t].key] THEN d ELSE files[h]
  BY <1>1 DEF SetChain, StoreInv
<1>3. \A h \in Hashes : \E m \in Nat : ChainOf(files'[h], m)
  BY <1>2 DEF StoreInv
<1>4. ASSUME NEW u \in Threads PROVE ThreadInPlace(u)'
  <2>1. CASE u = t
    BY <2>1
  <2>2. CASE u # t
    <3>1. lock # u /\ lock' # u
      BY <2>2, Apart
    <3>2. pc[u] # "write"
      BY <3>1 DEF StoreInv, ThreadInPlace
    <3>. QED
      BY <2>2, <3>1, <3>2, OthersStay
  <2>. QED
    BY <2>1, <2>2
<1>5. lock' \in Threads \cup {NULL} /\ crashes' \in 0..MaxCrashes
  BY DEF StoreInv
<1>. QED
  BY <1>2, <1>3, <1>4, <1>5 DEF StoreInv

\* It changes the value of its key, if of any.
LEMMA WriterStores ==
  ASSUME StoreInv, NEW t \in Threads, pc[t] # "idle", NEW d, NEW v, SetChain(t, d),
         Value(d, call[t].key) = v,
         \A j \in Keys : j # call[t].key => Value(d, j) = Value(Chain(t), j)
  PROVE  Stored' = [Stored EXCEPT ![call[t].key] = v]
<1>1. PICK k \in Keys : k = call[t].key /\ Hash[k] \in Hashes /\ Chain(t) = files[Hash[k]]
  BY CallFacts
<1>2. \A h \in Hashes : files'[h] = IF h = Hash[k] THEN d ELSE files[h]
  BY <1>1 DEF SetChain, StoreInv
<1>3. ASSUME NEW j \in Keys PROVE Value(files'[Hash[j]], j) = IF j = k THEN v ELSE Value(files[Hash[j]], j)
  <2>1. Hash[j] \in Hashes
    BY StoreAssumption
  <2>2. CASE Hash[j] = Hash[k]
    BY <1>1, <1>2, <2>1, <2>2
  <2>3. CASE Hash[j] # Hash[k]
    BY <1>1, <1>2, <2>1, <2>3
  <2>. QED
    BY <2>2, <2>3
<1>4. Stored' = [j \in Keys |-> Value(files'[Hash[j]], j)]
  BY DEF Stored
<1>5. [Stored EXCEPT ![k] = v] = [j \in Keys |-> IF j = k THEN v ELSE Value(files[Hash[j]], j)]
  BY DEF Stored
<1>. QED
  BY <1>1, <1>3, <1>4, <1>5

\* A call returns: its thread is idle again.
LEMMA Returned ==
  ASSUME StoreInv, NEW t \in Threads, NEW res \in Vals \cup {"OK", "ERRNOKEY", "ENOENT", NULL}, Return(t, res),
         lock' # t
  PROVE  /\ pc' \in [Threads -> {"idle", "find", "act", "write"}]
         /\ call' \in [Threads -> Calls \cup {NULL}]
         /\ pos' \in [Threads -> Nat \cup {NULL}]
         /\ result' \in [Threads -> Vals \cup {"OK", "ERRNOKEY", "ENOENT", NULL}]
         /\ \A u \in Threads : u # t => pc'[u] = pc[u] /\ call'[u] = call[u] /\ pos'[u] = pos[u]
         /\ ThreadInPlace(t)'
<1>1. pc'[t] = "idle" /\ call'[t] = NULL
  BY DEF Return, StoreInv
<1>2. ThreadInPlace(t)'
  BY <1>1 DEF ThreadInPlace, CallInPlace
<1>. QED
  BY <1>2 DEF Return, StoreInv

\* A thread starts a call (kvstore.h:55-66).
LEMMA InvokeKeeps ==
  ASSUME StoreInv, NEW t \in Threads, Invoke(t)
  PROVE  StoreInv'
<1>1. PICK c \in Calls : call' = [call EXCEPT ![t] = c]
  BY DEF Invoke
<1>2. c # NULL
  BY <1>1, CallAssumption
<1>3. /\ pc'[t] = "find" /\ call'[t] = c /\ pc[t] = "idle"
      /\ UNCHANGED <<files, lock, pos, result, crashes>>
      /\ pc' \in [Threads -> {"idle", "find", "act", "write"}]
      /\ call' \in [Threads -> Calls \cup {NULL}]
      /\ \A u \in Threads : u # t => pc'[u] = pc[u] /\ call'[u] = call[u]
  BY <1>1 DEF Invoke, StoreInv
<1>4. lock # t
  BY <1>3 DEF StoreInv, ThreadInPlace
<1>5. ThreadInPlace(t)'
  BY <1>2, <1>3, <1>4 DEF ThreadInPlace, CallInPlace
<1>6. pos' \in [Threads -> Nat \cup {NULL}] /\ result' \in [Threads -> Vals \cup {"OK", "ERRNOKEY", "ENOENT", NULL}]
  BY <1>3 DEF StoreInv
<1>. QED
  BY <1>3, <1>5, <1>6, QuietStep

\* A get returns what the search found (kvstore.c:84-110).
LEMMA GetKeeps ==
  ASSUME StoreInv, NEW t \in Threads, Get(t)
  PROVE  StoreInv' /\ Value(Chain(t), call[t].key) = IF Position(Chain(t), call[t].key) = NULL
                                                     THEN NULL ELSE Chain(t)[Position(Chain(t), call[t].key)].val
<1>1. pc[t] = "find" /\ lock = NULL /\ UNCHANGED <<files, lock, crashes>>
  BY DEF Get, At
<1>2. PICK n \in Nat : ChainOf(Chain(t), n)
  BY <1>1, CallFacts
<1>. DEFINE p == Position(Chain(t), call[t].key)
            res == IF p = NULL THEN "ERRNOKEY" ELSE Chain(t)[p].val
<1>3. res \in Vals \cup {"OK", "ERRNOKEY", "ENOENT", NULL}
  <2>1. p = NULL \/ Chain(t)[p].val \in Vals
    BY <1>2, Searched
  <2>. QED
    BY <2>1
<1>4. Return(t, res)
  BY DEF Get
<1>5. lock' # t
  BY <1>1, Apart
<1>. HIDE DEF res
<1>6. StoreInv'
  BY <1>1, <1>3, <1>4, <1>5, Returned, QuietStep
<1>. QED
  BY <1>6 DEF Value

\* The search of a put is right when it is made (kvstore.c:120-131).
LEMMA PutFindKeeps ==
  ASSUME StoreInv, NEW t \in Threads, PutFind(t)
  PROVE  StoreInv'
<1>. DEFINE p == Position(Chain(t), call[t].key)
<1>1. /\ pc[t] = "find" /\ call[t].op = "put" /\ lock = NULL /\ UNCHANGED <<files, lock, call, result, crashes>>
      /\ pos' = [pos EXCEPT ![t] = p] /\ pc' = [pc EXCEPT ![t] = "act"]
  BY DEF PutFind, At
<1>2. PICK n \in Nat : ChainOf(Chain(t), n)
  BY <1>1, CallFacts
<1>3. p \in Nat \cup {NULL}
  BY <1>2, Searched
<1>4. Chain(t) = files[Hash[call[t].key]] /\ ThreadInPlace(t) /\ call[t] # NULL
  BY <1>1, CallFacts
<1>. HIDE DEF p
<1>5. /\ pos' \in [Threads -> Nat \cup {NULL}] /\ pc' \in [Threads -> {"idle", "find", "act", "write"}]
      /\ pos'[t] = p /\ pc'[t] = "act"
      /\ \A u \in Threads : u # t => pc'[u] = pc[u] /\ pos'[u] = pos[u]
  BY <1>1, <1>3 DEF StoreInv
<1>6. ThreadInPlace(t)'
  <2>1. \A k \in Keys : k = call'[t].key => CallInPlace("act", "put", p, files'[Hash[k]], k)
    BY <1>1, <1>4 DEF CallInPlace, p
  <2>2. lock' # t
    BY <1>1, Apart
  <2>. QED
    BY <1>1, <1>4, <1>5, <2>1, <2>2 DEF ThreadInPlace
<1>7. call' \in [Threads -> Calls \cup {NULL}]
      /\ result' \in [Threads -> Vals \cup {"OK", "ERRNOKEY", "ENOENT", NULL}]
  BY <1>1 DEF StoreInv
<1>. QED
  BY <1>1, <1>5, <1>6, <1>7, QuietStep

\* A put opens a file of its own: the key's, or a new one at the end
\* (kvstore.c:132-146).
LEMMA PutOpenKeeps ==
  ASSUME StoreInv, NEW t \in Threads, PutOpen(t), ~strayed'
  PROVE  StoreInv' /\ Stored' = [Stored EXCEPT ![call[t].key] = NULL]
<1>1. /\ pc[t] = "act" /\ call[t].op = "put" /\ lock = NULL /\ lock' = t /\ UNCHANGED <<call, result, crashes>>
      /\ pc' = [pc EXCEPT ![t] = "write"]
  BY DEF PutOpen, At
<1>2. PICK n \in Nat : ChainOf(Chain(t), n)
  BY <1>1, CallFacts
<1>. DEFINE c == Chain(t)
            k == call[t].key
            place == PutPlace(t)
            d == With(c, place, Empty)
<1>3. pos[t] = Position(c, k) /\ k \in Keys /\ c = files[Hash[k]] /\ call[t] # NULL /\ ThreadInPlace(t)
  <2>1. pos[t] = Position(c, k)
    BY DEF PutOpen, Stale
  <2>. QED
    BY <1>1, <2>1, CallFacts
<1>4. /\ place \in 0..n
      /\ \A q \in 0..(n - 1) : q # place /\ c[q] # Empty => c[q].key # k
      /\ place # n /\ c[place] # Empty => c[place].key = k
  <2>1. CASE pos[t] = NULL
    <3>1. FirstFree(c, 0) = n
      BY <1>2, FirstFreeIs
    <3>2. place = n
      BY <2>1, <3>1 DEF PutPlace
    <3>3. \A q \in 0..(n - 1) : c[q] # Empty => c[q].key # k
      BY <1>2, <1>3, <2>1, Searched
    <3>. QED
      BY <3>2, <3>3
  <2>2. CASE pos[t] # NULL
    <3>1. place = pos[t]
      BY <2>2 DEF PutPlace
    <3>2. pos[t] \in 0..(n - 1) /\ c[pos[t]] # Empty /\ c[pos[t]].key = k
      BY <1>2, <1>3, <2>2, Searched
    <3>3. \A q \in 0..(n - 1) : q # pos[t] /\ c[q] # Empty => c[q].key # k
      BY <1>2, <3>2 DEF ChainOf
    <3>4. place \in 0..n
      BY <3>1, <3>2
    <3>. QED
      BY <3>1, <3>2, <3>3, <3>4
  <2>. QED
    BY <2>1, <2>2
<1>5. Empty \in Contents
  BY DEF Contents
<1>. HIDE DEF place, c, k
<1>6. PICK m \in Nat :
        /\ place \in 0..(m - 1) /\ ChainOf(d, m) /\ d[place] = Empty
        /\ \A q \in 0..(m - 1) : q # place => d[q] = c[q] /\ q \in 0..(n - 1)
        /\ Value(d, k) = NULL
        /\ \A j \in Keys : j # k => Value(d, j) = Value(c, j)
  <2>1. ChainOf(c, n)
    BY <1>2 DEF c
  <2>2. Fits(c, n, place, k)
    BY <1>4, <2>1 DEF Fits
  <2>3. PICK m \in Nat : Rewritten(c, d, n, m, place, Empty, k)
    BY <1>5, <2>2, WithChain
  <2>. QED
    BY <2>3 DEF Rewritten
<1>7. SetChain(t, d) /\ pos' = [pos EXCEPT ![t] = place]
  BY DEF PutOpen, c, place
<1>. HIDE DEF d
<1>8. /\ pc' \in [Threads -> {"idle", "find", "act", "write"}] /\ pos' \in [Threads -> Nat \cup {NULL}]
      /\ pos'[t] = place /\ pc'[t] = "write"
      /\ \A u \in Threads : u # t => pc'[u] = pc[u] /\ call'[u] = call[u] /\ pos'[u] = pos[u]
  <2>1. place \in Nat
    BY <1>6
  <2>. QED
    BY <1>1, <1>7, <2>1 DEF StoreInv
<1>9. Hash[k] \in Hashes /\ files'[Hash[k]] = d
  BY <1>1, <1>3, <1>7, StoreAssumption DEF SetChain, StoreInv, k
<1>10. ThreadInPlace(t)'
  <2>1. DOMAIN d = 0..(m - 1)
    BY <1>6 DEF ChainOf
  <2>2. \A q \in 0..(m - 1) : d[q] # Empty => d[q].key # k
    BY <1>4, <1>6
  <2>3. CallInPlace("write", "put", place, d, k)
    BY <1>6, <2>1, <2>2 DEF CallInPlace
  <2>4. \A j \in Keys : j = call'[t].key => CallInPlace("write", "put", place, files'[Hash[j]], j)
    BY <1>1, <1>9, <2>3 DEF k
  <2>. QED
    BY <1>1, <1>3, <1>8, <2>4 DEF ThreadInPlace
<1>11. StoreInv'
  <2>1. call' \in [Threads -> Calls \cup {NULL}]
        /\ result' \in [Threads -> Vals \cup {"OK", "ERRNOKEY", "ENOENT", NULL}]
    BY <1>1 DEF StoreInv
  <2>. QED
    BY <1>1, <1>6, <1>7, <1>8, <1>10, <2>1, WriterStep
<1>12. Stored' = [Stored EXCEPT ![call[t].key] = NULL]
  BY <1>1, <1>6, <1>7, WriterStores DEF c, k
<1>. QED
  BY <1>11, <1>12

\* A put writes its entry, and its key has the new value (kvstore.c:147-160).
LEMMA PutWriteKeeps ==
  ASSUME StoreInv, NEW t \in Threads, PutWrite(t)
  PROVE  /\ StoreInv' /\ lock = t
         /\ Stored' = [Stored EXCEPT ![call[t].key] = call[t].val]
<1>1. pc[t] = "write" /\ call[t].op = "put" /\ lock' = NULL /\ Return(t, "OK") /\ UNCHANGED crashes
  BY DEF PutWrite, At
<1>2. PICK n \in Nat : ChainOf(Chain(t), n)
  BY <1>1, CallFacts
<1>. DEFINE c == Chain(t)
            k == call[t].key
            e == Entry(call[t].key, call[t].val)
            d == With(c, pos[t], e)
<1>3. /\ pos[t] \in DOMAIN c /\ c[pos[t]] = Empty /\ \A q \in DOMAIN c : c[q] # Empty => c[q].key # k
      /\ k \in Keys /\ call[t].val \in Vals /\ lock = t
  BY <1>1, CallFacts DEF CallInPlace, ThreadInPlace
<1>4. DOMAIN c = 0..(n - 1)
  BY <1>2 DEF ChainOf
<1>5. e \in Contents /\ e # Empty /\ e.key = k /\ e.val = call[t].val
  BY <1>3, Apart DEF Entry, Entries
<1>. HIDE DEF c, k, e
<1>6. PICK m \in Nat :
        /\ ChainOf(d, m) /\ Value(d, k) = e.val
        /\ \A j \in Keys : j # k => Value(d, j) = Value(c, j)
  <2>1. ChainOf(c, n)
    BY <1>2 DEF c
  <2>2. pos[t] \in 0..n
    BY <1>3, <1>4
  <2>3. Fits(c, n, pos[t], k)
    BY <1>3, <1>4, <2>1, <2>2 DEF Fits
  <2>4. PICK m \in Nat : Rewritten(c, d, n, m, pos[t], e, k)
    BY <1>5, <2>3, WithChain
  <2>. QED
    BY <1>5, <2>4 DEF Rewritten
<1>7. SetChain(t, d)
  BY DEF PutWrite, c, e
<1>. HIDE DEF d
<1>8. lock' # t
  BY <1>1, Apart
<1>9. StoreInv'
  BY <1>1, <1>3, <1>6, <1>7, <1>8, Returned, WriterStep
<1>10. Stored' = [Stored EXCEPT ![call[t].key] = e.val]
  BY <1>1, <1>6, <1>7, WriterStores DEF c, k
<1>. QED
  BY <1>3, <1>5, <1>9, <1>10

\* The search of a delete finds its key or reports that there is none
\* (kvstore.c:168-180).
LEMMA DelFindKeeps ==
  ASSUME StoreInv, NEW t \in Threads, DelFind(t)
  PROVE  StoreInv'
<1>. DEFINE p == Position(Chain(t), call[t].key)
<1>1. /\ pc[t] = "find" /\ call[t].op = "del" /\ lock = NULL /\ UNCHANGED <<files, lock, crashes>>
      /\ \/ p = NULL /\ Return(t, "ERRNOKEY")
         \/ /\ p # NULL /\ pos' = [pos EXCEPT ![t] = p] /\ pc' = [pc EXCEPT ![t] = "act"]
            /\ UNCHANGED <<call, result>>
  BY DEF DelFind, At
<1>2. PICK n \in Nat : ChainOf(Chain(t), n)
  BY <1>1, CallFacts
<1>3. p \in Nat \cup {NULL}
  BY <1>2, Searched
<1>4. Chain(t) = files[Hash[call[t].key]] /\ ThreadInPlace(t) /\ call[t] # NULL
  BY <1>1, CallFacts
<1>5. lock' # t
  BY <1>1, Apart
<1>. HIDE DEF p
<1>6. CASE p = NULL /\ Return(t, "ERRNOKEY")
  BY <1>1, <1>5, <1>6, Returned, QuietStep
<1>7. CASE p # NULL /\ pos' = [pos EXCEPT ![t] = p] /\ pc' = [pc EXCEPT ![t] = "act"] /\ UNCHANGED <<call, result>>
  <2>1. /\ pos' \in [Threads -> Nat \cup {NULL}] /\ pc' \in [Threads -> {"idle", "find", "act", "write"}]
        /\ pos'[t] = p /\ pc'[t] = "act"
        /\ \A u \in Threads : u # t => pc'[u] = pc[u] /\ call'[u] = call[u] /\ pos'[u] = pos[u]
    BY <1>3, <1>7 DEF StoreInv
  <2>2. ThreadInPlace(t)'
    <3>1. \A k \in Keys : k = call'[t].key => CallInPlace("act", "del", p, files'[Hash[k]], k)
      BY <1>1, <1>4, <1>7 DEF CallInPlace, p
    <3>. QED
      BY <1>1, <1>4, <1>5, <1>7, <2>1, <3>1 DEF ThreadInPlace
  <2>3. call' \in [Threads -> Calls \cup {NULL}]
        /\ result' \in [Threads -> Vals \cup {"OK", "ERRNOKEY", "ENOENT", NULL}]
    BY <1>7 DEF StoreInv
  <2>. QED
    BY <1>1, <2>1, <2>2, <2>3, QuietStep
<1>. QED
  BY <1>1, <1>6, <1>7

\* The entry that the search found, when it is still there, goes (kvstore.c:181-215).
LEMMA DelRemoveKeeps ==
  ASSUME StoreInv, NEW t \in Threads, DelRemove(t), ~strayed'
  PROVE  /\ StoreInv' /\ Stored' = [Stored EXCEPT ![call[t].key] = NULL]
         /\ Return(t, "OK") /\ Stored[call[t].key] # NULL
<1>1. pc[t] = "act" /\ call[t].op = "del" /\ lock = NULL /\ UNCHANGED <<lock, crashes>>
  BY DEF DelRemove, At
<1>2. PICK n \in Nat : ChainOf(Chain(t), n)
  BY <1>1, CallFacts
<1>. DEFINE c == Chain(t)
            k == call[t].key
            d == Deleted(c, pos[t])
<1>3. pos[t] = Position(c, k) /\ pos[t] # NULL /\ k \in Keys /\ c = files[Hash[k]]
  <2>1. pos[t] = Position(c, k)
    BY DEF DelRemove, Stale
  <2>. QED
    BY <1>1, <2>1, CallFacts DEF CallInPlace
<1>4. /\ pos[t] \in 0..(n - 1) /\ c[pos[t]] # Empty /\ c[pos[t]].key = k
      /\ Value(c, k) \in Vals
  <2>1. PICK a, b : a = c /\ b = k
    OBVIOUS
  <2>2. ChainOf(a, n) /\ Position(a, b) # NULL /\ pos[t] = Position(a, b)
    BY <1>2, <1>3, <2>1
  <2>3. /\ Position(a, b) \in 0..(n - 1) /\ a[Position(a, b)] # Empty /\ a[Position(a, b)].key = b
        /\ Value(a, b) \in Vals
    BY <2>2, Searched
  <2>. QED
    BY <2>1, <2>2, <2>3
<1>5. pos[t] \in DOMAIN c
  BY <1>2, <1>4 DEF ChainOf
<1>6. SetChain(t, d) /\ Return(t, "OK")
  BY <1>5 DEF DelRemove
<1>. HIDE DEF c, k
<1>7. /\ n - 1 \in Nat /\ ChainOf(d, n - 1) /\ Value(d, k) = NULL
      /\ \A j \in Keys : j # k => Value(d, j) = Value(c, j)
  <2>1. ChainOf(c, n)
    BY <1>2 DEF c
  <2>2. PICK p \in 0..(n - 1) : p = pos[t]
    BY <1>4
  <2>3. c[p] # Empty /\ c[p].key = k
    BY <1>4, <2>2
  <2>4. /\ n - 1 \in Nat /\ ChainOf(Deleted(c, p), n - 1) /\ Value(Deleted(c, p), k) = NULL
        /\ \A j \in Keys : j # k => Value(Deleted(c, p), j) = Value(c, j)
    BY <2>1, <2>3, DeletedChain
  <2>. QED
    BY <2>2, <2>4, Zenon
<1>. HIDE DEF d
<1>8. lock' # t /\ lock' \in {t, NULL} /\ lock \in {t, NULL}
  BY <1>1, Apart
<1>9. StoreInv'
  BY <1>1, <1>6, <1>7, <1>8, Returned, WriterStep
<1>10. Stored' = [Stored EXCEPT ![call[t].key] = NULL]
  BY <1>1, <1>6, <1>7, WriterStores DEF c, k
<1>11. Stored[call[t].key] # NULL
  <2>1. Stored[k] = Value(c, k)
    BY <1>3 DEF Stored
  <2>. QED
    BY <1>4, <2>1, Apart DEF k
<1>. QED
  BY <1>6, <1>9, <1>10, <1>11

\* A crash forgets the calls and leaves the files (kvserver.c, and the
\* restart on the same directory).
LEMMA RestartKeeps ==
  ASSUME StoreInv, Restart, crashes' \in 0..MaxCrashes
  PROVE  StoreInv'
<1>1. ASSUME NEW t \in Threads PROVE ThreadInPlace(t)'
  <2>1. pc'[t] = "idle" /\ call'[t] = NULL /\ lock' # t
    BY Apart DEF Restart
  <2>. QED
    BY <2>1 DEF ThreadInPlace, CallInPlace
<1>. QED
  BY <1>1 DEF Restart, StoreInv

\* Every step but one on a stale position keeps the invariant, stuttering included.
LEMMA StoreNextInv == StoreInv /\ [Next]_vars /\ ~strayed' => StoreInv'
<1>. SUFFICES ASSUME StoreInv, [Next]_vars, ~strayed' PROVE StoreInv'
  OBVIOUS
<1>1. CASE UNCHANGED vars
  <2>1. \A t \in Threads : ThreadInPlace(t)'
    BY <1>1, OthersStay DEF vars
  <2>. QED
    BY <1>1, <2>1 DEF vars, StoreInv
<1>2. CASE Crash
  <2>1. crashes' \in 0..MaxCrashes
    BY <1>2, StoreAssumption DEF Crash, StoreInv
  <2>. QED
    BY <1>2, <2>1, RestartKeeps DEF Crash
<1>3. ASSUME NEW t \in Threads, Step(t) PROVE StoreInv'
  <2>1. CASE FindFaults(t)
    <3>1. crashes' \in 0..MaxCrashes
      BY <2>1 DEF FindFaults, StoreInv
    <3>. QED
      BY <2>1, <3>1, RestartKeeps DEF FindFaults
  <2>2. CASE ~FindFaults(t)
    BY <1>3, <2>2, InvokeKeeps, GetKeeps, PutFindKeeps, PutOpenKeeps, PutWriteKeeps, DelFindKeeps, DelRemoveKeeps
       DEF Step
  <2>. QED
    BY <2>1, <2>2
<1>. QED
  BY <1>1, <1>2, <1>3 DEF Next

\* What is stray stays so.
LEMMA StaysStray == strayed \in BOOLEAN /\ [Next]_vars => strayed' \in BOOLEAN /\ (strayed => strayed')
BY DEF Next, vars, Crash, Restart, Step, Invoke, Get, PutFind, PutOpen, PutWrite, DelFind, DelRemove, FindFaults

\* For any number of threads, the chains are complete and every call is in its
\* place, up to the first step on a stale position.
THEOREM StoreInvariant == Spec => [](~strayed => StoreInv)
<1>. DEFINE Safe == strayed \in BOOLEAN /\ (~strayed => StoreInv)
<1>1. Init => Safe
  BY StoreInitInv DEF Init
<1>2. Safe /\ [Next]_vars => Safe'
  <2>. SUFFICES ASSUME Safe, [Next]_vars PROVE Safe'
    OBVIOUS
  <2>1. strayed' \in BOOLEAN /\ (strayed => strayed')
    BY StaysStray
  <2>2. ~strayed' => StoreInv'
    BY <2>1, StoreNextInv
  <2>. QED
    BY <2>1, <2>2
<1>3. Safe => (~strayed => StoreInv)
  OBVIOUS
<1>. QED
  BY <1>1, <1>2, <1>3, PTL DEF Spec

\* Chains are always complete, so that find_entry reaches every entry, and no
\* key has two (kvstore.h:30-32, kvstore.c:36-215).
THEOREM ChainsStayComplete == Spec => []ChainsComplete
<1>1. (~strayed => StoreInv) => ChainsComplete
  <2>. SUFFICES ASSUME ~strayed, StoreInv PROVE ChainsComplete
    BY DEF ChainsComplete
  <2>1. ASSUME NEW h \in Hashes
        PROVE  /\ DOMAIN files[h] \subseteq Nat /\ \A p \in DOMAIN files[h] : files[h][p] \in Contents
               /\ DOMAIN files[h] = 0..(FirstFree(files[h], 0) - 1)
               /\ \A k \in Keys : Cardinality(Matches(files[h], k)) <= 1
    <3>1. PICK n \in Nat : ChainOf(files[h], n)
      BY DEF StoreInv
    <3>2. FirstFree(files[h], 0) = n
      BY <3>1, FirstFreeIs
    <3>3. DOMAIN files[h] = 0..(n - 1) /\ \A p \in 0..(n - 1) : files[h][p] \in Contents
      BY <3>1 DEF ChainOf
    <3>4. ASSUME NEW k \in Keys PROVE Cardinality(Matches(files[h], k)) <= 1
      <4>1. CASE \A p \in 0..(n - 1) : files[h][p] # Empty => files[h][p].key # k
        <5>1. Matches(files[h], k) = {}
          BY <3>1, <4>1, NotFound
        <5>. QED
          BY <5>1, FS_EmptySet
      <4>2. ASSUME NEW p \in 0..(n - 1), files[h][p] # Empty, files[h][p].key = k
            PROVE  Cardinality(Matches(files[h], k)) <= 1
        <5>1. Matches(files[h], k) = {p}
          BY <3>1, <4>2, Found
        <5>2. Cardinality({p}) = 1
          BY FS_Singleton
        <5>. QED
          BY <5>1, <5>2
      <4>. QED
        BY <4>1, <4>2
    <3>. QED
      BY <3>2, <3>3, <3>4
  <2>2. DOMAIN files = Hashes
    BY DEF StoreInv
  <2>3. TypeOK
    BY <2>1, <2>2 DEF StoreInv, TypeOK, ThreadInPlace
  <2>. QED
    BY <2>1, <2>3 DEF ChainsComplete
<1>. QED
  BY <1>1, StoreInvariant, PTL

-----------------------------------------------------------------------------
(* The store is a map *)

\* The map that the calls see: what the files hold and, of an open file, what
\* is going into it.
LEMMA ViewIs ==
  StoreInv => /\ lock = NULL => View = Stored
              /\ lock # NULL => /\ lock \in Threads /\ call[lock].key \in Keys
                                /\ Stored[call[lock].key] = NULL
                                /\ View = [Stored EXCEPT ![call[lock].key] = call[lock].val]
<1>. SUFFICES ASSUME StoreInv
              PROVE  /\ lock = NULL => View = Stored
                     /\ lock # NULL => /\ lock \in Threads /\ call[lock].key \in Keys
                                       /\ Stored[call[lock].key] = NULL
                                       /\ View = [Stored EXCEPT ![call[lock].key] = call[lock].val]
  OBVIOUS
<1>1. View = [k \in Keys |-> Value(Written[Hash[k]], k)]
  BY DEF View, Value
<1>2. ASSUME lock = NULL PROVE View = Stored
  BY <1>1, <1>2 DEF Written, Stored
<1>3. ASSUME NEW t \in Threads, lock = t
      PROVE  /\ call[t].key \in Keys /\ Stored[call[t].key] = NULL
             /\ View = [Stored EXCEPT ![call[t].key] = call[t].val]
  <2>1. pc[t] = "write"
    BY <1>3 DEF StoreInv, ThreadInPlace
  <2>2. PICK n \in Nat : ChainOf(Chain(t), n)
    BY <2>1, CallFacts
  <2>. DEFINE c == Chain(t)
              k == call[t].key
              e == Entry(call[t].key, call[t].val)
              d == With(c, pos[t], e)
  <2>3. /\ pos[t] \in DOMAIN c /\ c[pos[t]] = Empty /\ \A q \in DOMAIN c : c[q] # Empty => c[q].key # k
        /\ k \in Keys /\ call[t].val \in Vals /\ c = files[Hash[k]] /\ Hash[k] \in Hashes
    BY <2>1, CallFacts DEF CallInPlace, ThreadInPlace
  <2>4. DOMAIN c = 0..(n - 1)
    BY <2>2 DEF ChainOf
  <2>5. e \in Contents /\ e # Empty /\ e.key = k /\ e.val = call[t].val
    BY <2>3, Apart DEF Entry, Entries
  <2>6. lock # NULL /\ Written = [files EXCEPT ![Hash[k]] = d]
    BY <1>3, <2>3, Apart DEF Written
  <2>. HIDE DEF c, k, e
  <2>7. Value(c, k) = NULL
    <3>1. ChainOf(c, n)
      BY <2>2 DEF c
    <3>2. Position(c, k) = NULL
      BY <2>3, <2>4, <3>1, NotFound
    <3>. QED
      BY <3>2 DEF Value
  <2>8. Value(d, k) = call[t].val /\ \A j \in Keys : j # k => Value(d, j) = Value(c, j)
    <3>1. ChainOf(c, n)
      BY <2>2 DEF c
    <3>2. pos[t] \in 0..n
      BY <2>3, <2>4
    <3>3. Fits(c, n, pos[t], k)
      BY <2>3, <2>4, <3>1, <3>2 DEF Fits
    <3>4. PICK m \in Nat : Rewritten(c, d, n, m, pos[t], e, k)
      BY <2>5, <3>3, WithChain
    <3>. QED
      BY <2>5, <3>4 DEF Rewritten
  <2>. HIDE DEF d
  <2>9. \A h \in Hashes : Written[h] = IF h = Hash[k] THEN d ELSE files[h]
    BY <2>3, <2>6 DEF StoreInv
  <2>10. ASSUME NEW j \in Keys
         PROVE  Value(Written[Hash[j]], j) = IF j = k THEN call[t].val ELSE Value(files[Hash[j]], j)
    <3>1. Hash[j] \in Hashes
      BY StoreAssumption
    <3>2. CASE Hash[j] = Hash[k]
      BY <2>3, <2>8, <2>9, <3>1, <3>2
    <3>3. CASE Hash[j] # Hash[k]
      BY <2>9, <3>1, <3>3
    <3>. QED
      BY <3>2, <3>3
  <2>11. [Stored EXCEPT ![k] = call[t].val] =
           [j \in Keys |-> IF j = k THEN call[t].val ELSE Value(files[Hash[j]], j)]
    BY DEF Stored
  <2>12. Stored[k] = NULL
    BY <2>3, <2>7 DEF Stored
  <2>. QED
    BY <1>1, <2>3, <2>10, <2>11, <2>12 DEF k
<1>4. lock \in Threads \cup {NULL}
  BY DEF StoreInv
<1>. QED
  BY <1>2, <1>3, <1>4

\* Every step of a thread is one of the map, or changes nothing that it shows.
LEMMA StepSimulates ==
  ASSUME StoreInv, NEW t \in Threads, Step(t), ~strayed',
         lock' = NULL => View' = Stored',
         lock' # NULL => View' = [Stored' EXCEPT ![call'[lock'].key] = call'[lock'].val]
  PROVE  [Abstract!Next]_(Abstract!vars)
<1>. SUFFICES \/ Abstract!Crash \/ UNCHANGED Abstract!vars
              \/ Abstract!Invoke(t) \/ Abstract!Get(t) \/ Abstract!Del(t) \/ Abstract!Put(t) \/ Abstract!PutReturns(t)
  BY DEF Abstract!Next
<1>0. Stored = [k \in Keys |-> Stored[k]] /\ \A k \in Keys : Stored[k] = Value(files[Hash[k]], k)
  BY DEF Stored
<1>s. files' = files => Stored' = Stored
  BY DEF Stored
<1>n. \A u \in Threads : u # NULL
  BY Apart
<1>1. CASE Invoke(t)
  <2>1. call[t] = NULL
    BY <1>1 DEF Invoke, StoreInv, ThreadInPlace
  <2>2. \E c \in Abstract!Calls : call' = [call EXCEPT ![t] = c]
    BY <1>1 DEF Invoke, Calls, Abstract!Calls
  <2>3. UNCHANGED <<files, lock, result>>
    BY <1>1 DEF Invoke
  <2>4. View' = View
    <3>1. CASE lock = NULL
      BY <1>s, <2>3, <3>1, ViewIs
    <3>2. CASE lock # NULL
      <4>1. lock # t
        BY <1>1, <3>2 DEF Invoke, StoreInv, ThreadInPlace
      <4>2. call'[lock] = call[lock]
        BY <2>2, <4>1, <3>2, ViewIs DEF StoreInv
      <4>. QED
        BY <1>s, <2>3, <3>2, <4>2, ViewIs
    <3>. QED
      BY <3>1, <3>2
  <2>. QED
    BY <2>1, <2>2, <2>3, <2>4 DEF Abstract!Invoke
<1>2. CASE Get(t)
  <2>1. /\ pc[t] = "find" /\ call[t].op = "get" /\ lock = NULL /\ UNCHANGED <<files, lock, crashes>>
        /\ Return(t, IF Position(Chain(t), call[t].key) = NULL THEN "ERRNOKEY"
                     ELSE Chain(t)[Position(Chain(t), call[t].key)].val)
    BY <1>2 DEF Get, At
  <2>2. call[t].key \in Keys /\ call[t] # NULL /\ Chain(t) = files[Hash[call[t].key]]
        /\ \E n \in Nat : ChainOf(Chain(t), n)
    BY <2>1, CallFacts
  <2>3. View = Stored /\ View' = View
    BY <1>s, <2>1, ViewIs
  <2>4. View[call[t].key] = Value(Chain(t), call[t].key)
    BY <1>0, <2>2, <2>3
  <2>5. (IF Position(Chain(t), call[t].key) = NULL THEN "ERRNOKEY"
         ELSE Chain(t)[Position(Chain(t), call[t].key)].val)
          = IF View[call[t].key] = NULL THEN "ERRNOKEY" ELSE View[call[t].key]
    BY <2>2, <2>4, Searched, Apart
  <2>. QED
    BY <2>1, <2>2, <2>3, <2>5 DEF Return, Abstract!Get, Abstract!In
<1>3. CASE PutFind(t)
  <2>1. UNCHANGED <<files, lock, call, result>> /\ lock = NULL
    BY <1>3 DEF PutFind
  <2>2. View' = View
    BY <1>s, <2>1, ViewIs
  <2>. QED
    BY <2>1, <2>2 DEF Abstract!vars
<1>4. CASE PutOpen(t)
  <2>1. pc[t] = "act" /\ call[t].op = "put" /\ lock = NULL /\ lock' = t /\ UNCHANGED <<call, result>>
    BY <1>4 DEF PutOpen, At
  <2>2. call[t].key \in Keys /\ call[t] # NULL
    BY <2>1, CallFacts
  <2>3. Stored' = [Stored EXCEPT ![call[t].key] = NULL]
    BY <1>4, PutOpenKeeps
  <2>4. View' = [Stored' EXCEPT ![call[t].key] = call[t].val]
    BY <1>n, <2>1
  <2>5. View' = [View EXCEPT ![call[t].key] = call[t].val]
    BY <1>0, <2>1, <2>2, <2>3, <2>4, ViewIs
  <2>. QED
    BY <2>1, <2>2, <2>5 DEF Abstract!Put, Abstract!In
<1>5. CASE PutWrite(t)
  <2>1. lock' = NULL /\ Return(t, "OK")
    BY <1>5 DEF PutWrite
  <2>2. lock = t /\ Stored' = [Stored EXCEPT ![call[t].key] = call[t].val]
    BY <1>5, PutWriteKeeps
  <2>3. View' = View
    BY <1>n, <2>1, <2>2, ViewIs
  <2>. QED
    BY <2>1, <2>2, <2>3 DEF Return, Abstract!PutReturns
<1>6. CASE DelFind(t)
  <2>1. /\ pc[t] = "find" /\ call[t].op = "del" /\ lock = NULL /\ UNCHANGED <<files, lock, crashes>>
        /\ \/ Position(Chain(t), call[t].key) = NULL /\ Return(t, "ERRNOKEY")
           \/ UNCHANGED <<call, result>>
    BY <1>6 DEF DelFind, At
  <2>2. View = Stored /\ View' = View
    BY <1>s, <2>1, ViewIs
  <2>3. CASE UNCHANGED <<call, result>>
    BY <2>1, <2>2, <2>3 DEF Abstract!vars
  <2>4. CASE Position(Chain(t), call[t].key) = NULL /\ Return(t, "ERRNOKEY")
    <3>1. call[t].key \in Keys /\ call[t] # NULL /\ Chain(t) = files[Hash[call[t].key]]
      BY <2>1, CallFacts
    <3>2. View[call[t].key] = NULL
      BY <1>0, <2>2, <2>4, <3>1 DEF Value
    <3>3. View' = [View EXCEPT ![call[t].key] = NULL]
      BY <1>0, <2>2, <3>1, <3>2
    <3>. QED
      BY <2>1, <2>4, <3>1, <3>2, <3>3 DEF Return, Abstract!Del, Abstract!In
  <2>. QED
    BY <2>1, <2>3, <2>4
<1>7. CASE DelRemove(t)
  <2>1. pc[t] = "act" /\ call[t].op = "del" /\ lock = NULL /\ UNCHANGED lock
    BY <1>7 DEF DelRemove, At
  <2>2. call[t].key \in Keys /\ call[t] # NULL
    BY <2>1, CallFacts
  <2>3. Stored' = [Stored EXCEPT ![call[t].key] = NULL] /\ Return(t, "OK") /\ Stored[call[t].key] # NULL
    BY <1>7, DelRemoveKeeps
  <2>4. View = Stored /\ View' = Stored'
    BY <2>1, ViewIs
  <2>. QED
    BY <2>1, <2>2, <2>3, <2>4 DEF Return, Abstract!Del, Abstract!In
<1>8. CASE FindFaults(t)
  <2>1. lock = NULL /\ Restart
    BY <1>8 DEF FindFaults
  <2>2. View' = View
    BY <1>s, <2>1, ViewIs DEF Restart
  <2>. QED
    BY <2>1, <2>2 DEF Restart, Abstract!Crash
<1>. QED
  BY <1>1, <1>2, <1>3, <1>4, <1>5, <1>6, <1>7, <1>8 DEF Step

\* For any number of threads the files are a map on which every call acts in one
\* step, and a crash loses at most the key being written, up to the first call that
\* acts on a stale position (kvstore.c:36-215).
THEOREM ImplementsMap == Spec => StoreIsMap
<1>1. Init => Abstract!Init
  <2>. SUFFICES ASSUME Init PROVE Abstract!Init
    OBVIOUS
  <2>1. View = Stored
    BY StoreInitInv, ViewIs DEF Init
  <2>2. ASSUME NEW k \in Keys PROVE Stored[k] = NULL
    <3>1. Hash[k] \in Hashes
      BY StoreAssumption
    <3>2. files[Hash[k]] = << >>
      BY <3>1 DEF Init
    <3>3. Matches(<< >>, k) = {}
      BY DEF Matches
    <3>4. Stored[k] = Value(<< >>, k)
      BY <3>2 DEF Stored
    <3>. QED
      BY <3>3, <3>4 DEF Value, Position
  <2>3. Stored = [k \in Keys |-> NULL]
    BY <2>2 DEF Stored
  <2>. QED
    BY <2>1, <2>3 DEF Init, Abstract!Init
<1>2. (StoreInv => /\ lock = NULL => View = Stored
                   /\ lock # NULL => /\ lock \in Threads /\ call[lock].key \in Keys
                                     /\ Stored[call[lock].key] = NULL
                                     /\ View = [Stored EXCEPT ![call[lock].key] = call[lock].val])'
  BY ViewIs, PTL
<1>3. StoreInv /\ [Next]_vars /\ ~strayed' => Abstract!Next \/ UNCHANGED Abstract!vars
  <2>. SUFFICES ASSUME StoreInv, [Next]_vars, ~strayed' PROVE [Abstract!Next]_(Abstract!vars)
    OBVIOUS
  <2>1. /\ lock' = NULL => View' = Stored'
        /\ lock' # NULL => View' = [Stored' EXCEPT ![call'[lock'].key] = call'[lock'].val]
    BY <1>2, StoreNextInv
  <2>2. CASE UNCHANGED vars
    <3>1. View' = View
      BY <2>2 DEF vars, View, Written
    <3>. QED
      BY <2>2, <3>1 DEF vars, Abstract!vars
  <2>3. CASE Crash
    <3>1. lock' = NULL /\ Stored' = Stored /\ Restart
      BY <2>3 DEF Crash, Restart, Stored
    <3>2. Stored = [k \in Keys |-> Stored[k]]
      BY DEF Stored
    <3>3. View' = IF lock = NULL THEN View ELSE [View EXCEPT ![call[lock].key] = NULL]
      BY <2>1, <3>1, <3>2, ViewIs
    <3>4. Abstract!Crash
      BY <3>1, <3>3 DEF Restart, Abstract!Crash
    <3>. QED
      BY <3>4 DEF Abstract!Next
  <2>4. ASSUME NEW t \in Threads, Step(t) PROVE [Abstract!Next]_(Abstract!vars)
    BY <2>1, <2>4, StepSimulates
  <2>. QED
    BY <2>2, <2>3, <2>4 DEF Next
<1>4. (~strayed => StoreInv) /\ strayed \in BOOLEAN /\ [Next]_vars
        => [~strayed' => Abstract!Next \/ UNCHANGED Abstract!vars]_vars
  BY <1>3, StaysStray
<1>5. Spec => [](strayed \in BOOLEAN)
  <2>1. Init => strayed \in BOOLEAN
    BY DEF Init
  <2>2. strayed \in BOOLEAN /\ [Next]_vars => (strayed \in BOOLEAN)'
    BY StaysStray
  <2>. QED
    BY <2>1, <2>2, PTL DEF Spec
<1>. QED
  BY StoreInvariant, <1>1, <1>4, <1>5, PTL DEF Spec, StoreIsMap
=============================================================================
