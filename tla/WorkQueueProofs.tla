-------------------------- MODULE WorkQueueProofs --------------------------
(***************************************************************************)
(* Proofs about the thread pool, for any connections, workers and number   *)
(* of spurious wakeups: the mutex discipline, the shape of the list, the   *)
(* place of every connection, and that the linked list implements the      *)
(* queue of JobQueue.                                                      *)
(***************************************************************************)
EXTENDS WorkQueue, FiniteSetTheorems, SequenceTheorems, TLAPS

\* The connection that is accepted and not in the list yet.
Pushing == IF apc \in {"lock", "append"} THEN {client_sock} ELSE {}

\* Every accepted connection is in one place: with the acceptor, in the list,
\* with one worker, or dealt with; none is lost and none is handed out twice
\* (wq.c:17-43, socket_server.c:24-44, 137-144).
JobsInOnePlace ==
  /\ apc \in {"lock", "append"} => client_sock \in Jobs
  /\ \A w \in Workers : job[w] # NULL <=> wpc[w] = "handle"
  /\ \A v, w \in Workers : job[v] # NULL /\ job[v] = job[w] => v = w
  /\ Listed \cap handled = {} /\ Pushing \cap (Listed \cup handled) = {}
  /\ \A w \in Workers : job[w] \notin Listed \cup handled \cup Pushing
  /\ \A j \in Jobs : j \in accepted <=> \/ j \in Pushing \cup Listed \cup handled
                                        \/ \E w \in Workers : job[w] = j

Inv == ListIsChain /\ TakesAreSafe /\ JobsInOnePlace

-----------------------------------------------------------------------------
(* Orders *)

\* A set of numbers that is not empty has a least one.
LEMMA Least ==
  ASSUME NEW T \in SUBSET Nat, T # {}
  PROVE  \E m \in T : \A k \in T : m <= k
<1>1. PICK m \in T : \A k \in T : ~(<<k, m>> \in OpToRel(<, Nat))
  BY NatLessThanWellFounded, WFMin
<1>2. ASSUME NEW k \in T PROVE ~(k < m)
  <2>1. k \in Nat /\ m \in Nat /\ ~(<<k, m>> \in OpToRel(<, Nat))
    BY <1>1
  <2>. QED
    BY <2>1, Zenon DEF OpToRel
<1>. QED
  BY <1>2

\* The listed nodes are finitely many jobs.
LEMMA ListedFacts ==
  Listed \subseteq Jobs /\ NULL \notin Jobs /\ IsFiniteSet(Listed) /\ Cardinality(Listed) \in Nat
BY QueueAssumption, FS_Subset, FS_CardinalityType DEF Listed

\* The order of the nodes is determined: two orders that differed would first
\* differ at some place, but the node before it, the same in both, has one next.
LEMMA OrderUnique ==
  \A p, q \in Orders : p = q
<1>. SUFFICES ASSUME NEW p \in Orders, NEW q \in Orders PROVE p = q
  OBVIOUS
<1>. DEFINE n == Cardinality(Listed)
<1>1. n \in Nat /\ p \in [1..n -> Listed] /\ q \in [1..n -> Listed] /\ InOrder(p) /\ InOrder(q)
  BY ListedFacts DEF Orders
<1>2. n # 0 => p[1] = q[1]
  BY <1>1 DEF InOrder
<1>3. \A i \in 1..(n - 1) : next[p[i]] = p[i + 1] /\ next[q[i]] = q[i + 1]
  BY <1>1 DEF InOrder
<1>. HIDE DEF n
<1>. DEFINE T == {i \in 1..n : p[i] # q[i]}
<1>4. ASSUME T # {} PROVE FALSE
  <2>1. T \in SUBSET Nat
    BY <1>1
  <2>. HIDE DEF T
  <2>2. PICK m \in T : \A k \in T : m <= k
    BY <1>4, <2>1, Least
  <2>. USE DEF T
  <2>3. m \in 1..n /\ p[m] # q[m] /\ m # 1
    BY <1>1, <1>2, <2>2
  <2>4. m - 1 \in 1..(n - 1) /\ m - 1 \in 1..n /\ m - 1 \notin T
    BY <1>1, <2>2, <2>3
  <2>5. p[m - 1] = q[m - 1]
    BY <2>4
  <2>6. next[p[m - 1]] = p[m] /\ next[q[m - 1]] = q[m]
    BY <1>1, <1>3, <2>3, <2>4
  <2>. QED
    BY <2>3, <2>5, <2>6
<1>. QED
  BY <1>1, <1>4

\* Queued is the order there is.
LEMMA QueuedIsOrder ==
  \A q \in Orders : Queued = q
BY OrderUnique DEF Queued

\* What an order says, with the number of nodes named.
LEMMA OrderFacts ==
  ASSUME NEW q \in Orders, NEW n, n = Cardinality(Listed)
  PROVE  /\ n \in Nat /\ q \in [1..n -> Listed] /\ Len(q) = n /\ q \in Seq(Jobs)
         /\ \A i \in 1..n : q[i] \in Listed /\ q[i] \in Jobs
         /\ \A j \in Listed : \E i \in 1..n : q[i] = j
         /\ \A i, k \in 1..n : q[i] = q[k] => i = k
         /\ n = 0 => head = NULL /\ Listed = {} /\ q = << >>
         /\ n # 0 => head = q[1] /\ prev[q[1]] = q[n] /\ next[q[n]] = NULL /\ head \in Listed
         /\ \A i \in 1..(n - 1) : next[q[i]] = q[i + 1] /\ prev[q[i + 1]] = q[i]
<1>1. n \in Nat /\ q \in [1..n -> Listed] /\ Listed \subseteq Jobs
  BY ListedFacts DEF Orders
<1>2. q \in Seq(Jobs) /\ Len(q) = n
  <2>1. q \in [1..n -> Jobs]
    BY <1>1
  <2>. QED
    BY <1>1, <2>1
<1>3. n = 0 => q = << >>
  BY <1>2, EmptySeq
<1>4. InOrder(q)
  BY DEF Orders
<1>. QED
  BY <1>1, <1>2, <1>3, <1>4 DEF InOrder

\* DL_APPEND puts a node that is not in the list behind the others.
LEMMA AppendKeepsOrder ==
  ASSUME TypeOK, NEW q \in Orders, NEW add \in Jobs, add \notin Listed, DL_APPEND(add)
  PROVE  /\ Listed' = Listed \cup {add}
         /\ Append(q, add) \in Orders'
         /\ head' \in Jobs
         /\ next' \in [Jobs -> Jobs \cup {NULL}] /\ prev' \in [Jobs -> Jobs \cup {NULL}]
<1>. DEFINE n == Cardinality(Listed)
<1>0. PICK r : r = Append(q, add)
  OBVIOUS
<1>1. /\ n \in Nat /\ q \in [1..n -> Listed] /\ Len(q) = n /\ q \in Seq(Jobs)
      /\ \A i \in 1..n : q[i] \in Listed /\ q[i] \in Jobs
      /\ \A j \in Listed : \E i \in 1..n : q[i] = j
      /\ \A i, k \in 1..n : q[i] = q[k] => i = k
      /\ n = 0 => head = NULL /\ Listed = {} /\ q = << >>
      /\ n # 0 => head = q[1] /\ prev[q[1]] = q[n] /\ next[q[n]] = NULL /\ head \in Listed
      /\ \A i \in 1..(n - 1) : next[q[i]] = q[i + 1] /\ prev[q[i + 1]] = q[i]
  BY OrderFacts
<1>2. NULL \notin Jobs /\ Listed \subseteq Jobs /\ IsFiniteSet(Listed)
  BY ListedFacts
<1>3. Cardinality(Listed \cup {add}) = n + 1
  BY <1>2, FS_AddElement
<1>. HIDE DEF n
<1>4. /\ r \in [1..(n + 1) -> Listed \cup {add}] /\ r[n + 1] = add
      /\ \A i \in 1..n : r[i] = q[i]
  <2>1. r \in Seq(Jobs) /\ Len(r) = n + 1 /\ r[n + 1] = add /\ \A i \in 1..n : r[i] = q[i]
    BY <1>0, <1>1
  <2>2. \A i \in 1..(n + 1) : i \in 1..n \/ i = n + 1
    BY <1>1
  <2>. QED
    BY <1>1, <2>1, <2>2
<1>5. CASE n = 0
  <2>1. /\ head' = add
        /\ prev' = [prev EXCEPT ![add] = add] /\ next' = [next EXCEPT ![add] = NULL]
    BY <1>1, <1>5 DEF DL_APPEND
  <2>2. /\ head' \in Jobs
        /\ next' \in [Jobs -> Jobs \cup {NULL}] /\ prev' \in [Jobs -> Jobs \cup {NULL}]
    BY <2>1 DEF TypeOK
  <2>3. Listed' = Listed \cup {add}
    BY <1>2, <2>1 DEF TypeOK, Listed
  <2>4. InOrder(r)'
    <3>1. Cardinality(Listed)' = 1
      BY <1>3, <1>5, <2>3
    <3>2. head' = r[1] /\ prev'[r[1]] = r[1] /\ next'[r[1]] = NULL /\ Listed' = {r[1]}
      BY <1>1, <1>4, <1>5, <2>1, <2>3 DEF TypeOK
    <3>. QED
      BY <3>1, <3>2 DEF InOrder
  <2>. QED
    BY <1>0, <1>3, <1>4, <2>2, <2>3, <2>4 DEF Orders
<1>6. CASE n # 0
  <2>1. /\ head' = q[1] /\ head = q[1] /\ prev[head] = q[n]
        /\ prev' = [prev EXCEPT ![add] = q[n], ![q[1]] = add]
        /\ next' = [next EXCEPT ![q[n]] = add, ![add] = NULL]
    BY <1>1, <1>2, <1>6 DEF DL_APPEND
  <2>2. 1 \in 1..n /\ n \in 1..n /\ q[1] \in Listed /\ q[n] \in Listed /\ q[1] # add /\ q[n] # add
    BY <1>1, <1>6
  <2>3. /\ head' \in Jobs
        /\ next' \in [Jobs -> Jobs \cup {NULL}] /\ prev' \in [Jobs -> Jobs \cup {NULL}]
    BY <1>2, <2>1, <2>2 DEF TypeOK
  <2>4. Listed' = Listed \cup {add}
    BY <1>2, <2>1, <2>2 DEF TypeOK, Listed
  <2>5. \A j \in Listed' : \E i \in 1..(n + 1) : r[i] = j
    BY <1>1, <1>4, <2>4
  <2>6. \A i, k \in 1..(n + 1) : r[i] = r[k] => i = k
    BY <1>1, <1>4
  <2>7. head' = r[1] /\ prev'[r[1]] = r[n + 1] /\ next'[r[n + 1]] = NULL
    BY <1>1, <1>2, <1>4, <2>1, <2>2 DEF TypeOK
  <2>8. ASSUME NEW i \in 1..n PROVE next'[r[i]] = r[i + 1] /\ prev'[r[i + 1]] = r[i]
    <3>1. CASE i = n
      BY <1>1, <1>2, <1>4, <2>1, <2>2, <3>1 DEF TypeOK
    <3>2. CASE i # n
      <4>1. i \in 1..(n - 1) /\ i + 1 \in 1..n /\ i + 1 # 1 /\ q[i + 1] # q[1] /\ q[i] # q[n]
        BY <1>1, <2>2, <3>2
      <4>2. q[i] \in Jobs /\ q[i + 1] \in Jobs /\ q[i] # add /\ q[i + 1] # add
        BY <1>1, <4>1
      <4>3. r[i] = q[i] /\ r[i + 1] = q[i + 1] /\ next[q[i]] = q[i + 1] /\ prev[q[i + 1]] = q[i]
        BY <1>1, <1>4, <4>1
      <4>. QED
        BY <2>1, <4>1, <4>2, <4>3 DEF TypeOK
    <3>. QED
      BY <3>1, <3>2
  <2>9. InOrder(r)'
    <3>1. Cardinality(Listed)' = n + 1 /\ n + 1 # 0 /\ (n + 1) - 1 = n
      BY <1>1, <1>3, <2>4
    <3>. QED
      BY <2>5, <2>6, <2>7, <2>8, <3>1 DEF InOrder
  <2>. QED
    BY <1>0, <1>3, <1>4, <2>3, <2>4, <2>9 DEF Orders
<1>. QED
  BY <1>5, <1>6

\* DL_DELETE of the head takes the first node out.
LEMMA DeleteKeepsOrder ==
  ASSUME TypeOK, NEW q \in Orders, head # NULL, DL_DELETE_head
  PROVE  /\ head = q[1] /\ head \in Listed /\ q # << >>
         /\ Listed' = Listed \ {head}
         /\ Cardinality(Listed') = Cardinality(Listed) - 1
         /\ Tail(q) \in Orders'
         /\ head' \in Jobs \cup {NULL}
         /\ next' \in [Jobs -> Jobs \cup {NULL}] /\ prev' \in [Jobs -> Jobs \cup {NULL}]
<1>. DEFINE n == Cardinality(Listed)
<1>0. PICK r : r = Tail(q)
  OBVIOUS
<1>1. /\ n \in Nat /\ q \in [1..n -> Listed] /\ Len(q) = n /\ q \in Seq(Jobs)
      /\ \A i \in 1..n : q[i] \in Listed /\ q[i] \in Jobs
      /\ \A j \in Listed : \E i \in 1..n : q[i] = j
      /\ \A i, k \in 1..n : q[i] = q[k] => i = k
      /\ n = 0 => head = NULL /\ Listed = {} /\ q = << >>
      /\ n # 0 => head = q[1] /\ prev[q[1]] = q[n] /\ next[q[n]] = NULL /\ head \in Listed
      /\ \A i \in 1..(n - 1) : next[q[i]] = q[i + 1] /\ prev[q[i + 1]] = q[i]
  BY OrderFacts
<1>2. NULL \notin Jobs /\ Listed \subseteq Jobs /\ IsFiniteSet(Listed)
  BY ListedFacts
<1>3. n # 0 /\ head = q[1] /\ head \in Listed /\ prev[head] = q[n] /\ 1 \in 1..n /\ n \in 1..n
  BY <1>1
<1>4. Cardinality(Listed \ {head}) = n - 1
  BY <1>2, <1>3, FS_RemoveElement
<1>. HIDE DEF n
<1>5. q # << >>
  BY <1>1, <1>3
<1>6. r \in [1..(n - 1) -> Listed] /\ \A i \in 1..(n - 1) : r[i] = q[i + 1]
  <2>1. Len(r) = n - 1 /\ r \in Seq(Jobs) /\ \A i \in 1..(n - 1) : r[i] = q[i + 1]
    BY <1>0, <1>1, <1>5
  <2>2. \A i \in 1..(n - 1) : q[i + 1] \in Listed
    <3>. SUFFICES ASSUME NEW i \in 1..(n - 1) PROVE q[i + 1] \in Listed
      OBVIOUS
    <3>1. i + 1 \in 1..n
      BY <1>1
    <3>. QED
      BY <1>1, <3>1
  <2>. QED
    BY <1>1, <2>1, <2>2
<1>7. r \in [1..(n - 1) -> Listed \ {head}]
  <2>1. \A i \in 1..(n - 1) : r[i] \in Listed \ {head}
    BY <1>1, <1>3, <1>6
  <2>. QED
    BY <1>6, <2>1
<1>8. CASE n = 1
  <2>1. /\ head' = NULL
        /\ prev' = [prev EXCEPT ![head] = NULL] /\ next' = next
    BY <1>3, <1>8 DEF DL_DELETE_head
  <2>2. /\ head' \in Jobs \cup {NULL}
        /\ next' \in [Jobs -> Jobs \cup {NULL}] /\ prev' \in [Jobs -> Jobs \cup {NULL}]
    BY <2>1 DEF TypeOK
  <2>3. Listed' = Listed \ {head}
    BY <1>2, <1>3, <2>1 DEF TypeOK, Listed
  <2>4. \A j \in Listed' : FALSE
    BY <1>1, <1>3, <1>8, <2>3
  <2>5. InOrder(r)'
    <3>1. Cardinality(Listed)' = 0
      BY <1>4, <1>8, <2>3
    <3>. QED
      BY <2>1, <2>4, <3>1 DEF InOrder
  <2>. QED
    BY <1>0, <1>3, <1>4, <1>5, <1>7, <2>2, <2>3, <2>5 DEF Orders, n
<1>9. CASE n # 1
  <2>1. n \in Nat /\ n > 1 /\ 1 \in 1..(n - 1) /\ 2 \in 1..n /\ n - 1 \in 1..(n - 1)
    BY <1>1, <1>3, <1>9
  <2>2. /\ next[head] = q[2] /\ q[2] \in Listed /\ q[2] \in Jobs /\ q[2] # head /\ q[n] # head
        /\ q[n] \in Jobs /\ head \in Jobs /\ r[1] = q[2] /\ r[n - 1] = q[n]
    BY <1>1, <1>2, <1>3, <1>6, <2>1
  <2>3. /\ head' = q[2]
        /\ prev' = [prev EXCEPT ![q[2]] = q[n], ![head] = NULL]
        /\ next' = [next EXCEPT ![head] = NULL]
    BY <1>3, <2>2 DEF DL_DELETE_head
  <2>4. /\ head' \in Jobs \cup {NULL}
        /\ next' \in [Jobs -> Jobs \cup {NULL}] /\ prev' \in [Jobs -> Jobs \cup {NULL}]
    BY <2>2, <2>3 DEF TypeOK
  <2>5. Listed' = Listed \ {head}
    BY <1>2, <2>2, <2>3 DEF TypeOK, Listed
  <2>6. \A j \in Listed' : \E i \in 1..(n - 1) : r[i] = j
    <3>. SUFFICES ASSUME NEW j \in Listed, j # head PROVE \E i \in 1..(n - 1) : r[i] = j
      BY <2>5
    <3>1. PICK k \in 1..n : q[k] = j
      BY <1>1
    <3>2. k # 1 /\ k - 1 \in 1..(n - 1) /\ r[k - 1] = j
      BY <1>1, <1>3, <1>6, <3>1
    <3>. QED
      BY <3>2
  <2>7. \A i, k \in 1..(n - 1) : r[i] = r[k] => i = k
    BY <1>1, <1>6
  <2>8. head' = r[1] /\ prev'[r[1]] = r[n - 1] /\ next'[r[n - 1]] = NULL
    BY <1>1, <1>3, <2>2, <2>3 DEF TypeOK
  <2>9. ASSUME NEW i \in 1..((n - 1) - 1) PROVE next'[r[i]] = r[i + 1] /\ prev'[r[i + 1]] = r[i]
    <3>1. i \in 1..(n - 1) /\ i + 1 \in 1..(n - 1) /\ i + 1 \in 1..n /\ (i + 1) + 1 \in 1..n
      BY <2>1
    <3>2. i + 1 # 1 /\ (i + 1) + 1 # 1 /\ (i + 1) + 1 # 2
      BY <2>1
    <3>3. r[i] = q[i + 1] /\ r[i + 1] = q[(i + 1) + 1]
      BY <1>6, <3>1
    <3>4. /\ q[i + 1] \in Jobs /\ q[(i + 1) + 1] \in Jobs
          /\ q[i + 1] # head /\ q[(i + 1) + 1] # head /\ q[(i + 1) + 1] # q[2]
      BY <1>1, <1>3, <2>1, <3>1, <3>2
    <3>5. next[q[i + 1]] = q[(i + 1) + 1] /\ prev[q[(i + 1) + 1]] = q[i + 1]
      BY <1>1, <3>1
    <3>. QED
      BY <2>3, <3>3, <3>4, <3>5 DEF TypeOK
  <2>10. InOrder(r)'
    <3>1. Cardinality(Listed)' = n - 1 /\ n - 1 # 0
      BY <1>4, <2>1, <2>5
    <3>. QED
      BY <2>6, <2>7, <2>8, <2>9, <3>1 DEF InOrder
  <2>. QED
    BY <1>0, <1>3, <1>4, <1>5, <1>7, <2>4, <2>5, <2>10 DEF Orders, n
<1>. QED
  BY <1>8, <1>9
-----------------------------------------------------------------------------
(* The invariant *)

\* The pool starts with an empty list and nobody in the queue.
LEMMA InitInv == Init => Inv
<1>. SUFFICES ASSUME Init PROVE Inv
  OBVIOUS
<1>1. Listed = {} /\ Cardinality(Listed) = 0
  BY FS_EmptySet DEF Init, Listed
<1>2. << >> \in Orders
  <2>1. << >> \in [1..0 -> Listed]
    BY <1>1
  <2>. QED
    BY <1>1, <2>1 DEF Orders, InOrder, Init
<1>3. TypeOK
  <2>1. listening \in BOOLEAN /\ shut \in BOOLEAN
    BY Zenon DEF Init
  <2>. QED
    BY <2>1, QueueAssumption DEF Init, TypeOK
<1>4. ListIsChain
  BY <1>1, <1>2, <1>3 DEF ListIsChain, Init
<1>5. TakesAreSafe
  BY QueueAssumption DEF Init, TakesAreSafe
<1>6. JobsInOnePlace
  BY <1>1, QueueAssumption DEF Init, JobsInOnePlace, Pushing
<1>. QED
  BY <1>4, <1>5, <1>6 DEF Inv

\* Steps that leave the links alone leave the order alone.
LEMMA SameLinks ==
  ASSUME UNCHANGED <<head, next, prev>>
  PROVE  Listed' = Listed /\ Orders' = Orders /\ Queued' = Queued
BY DEF Listed, Orders, InOrder, Queued

\* Every step of the pool keeps the invariant.
LEMMA NextInv == Inv /\ [Next]_vars => Inv'
<1>. SUFFICES ASSUME Inv, [Next]_vars PROVE Inv'
  OBVIOUS
<1>. USE DEF Inv
<1>0. /\ ListIsChain /\ TakesAreSafe /\ JobsInOnePlace /\ TypeOK
      /\ Acceptor \notin Workers /\ NULL \notin Workers /\ NULL # Acceptor /\ NULL \notin Jobs
  BY QueueAssumption DEF ListIsChain
<1>1. CASE AcceptLoop
  <2>1. Listed' = Listed /\ Orders' = Orders
    BY <1>1, SameLinks DEF AcceptLoop, list
  <2>2. ListIsChain'
    BY <1>0, <1>1, <2>1 DEF ListIsChain, TypeOK, AcceptLoop, list
  <2>3. TakesAreSafe'
    BY <1>0, <1>1 DEF TakesAreSafe, AcceptLoop, list
  <2>4. JobsInOnePlace'
    BY <1>0, <1>1, <2>1 DEF JobsInOnePlace, Pushing, AcceptLoop
  <2>. QED
    BY <2>2, <2>3, <2>4
<1>2. ASSUME NEW j \in Jobs, Accept(j) PROVE Inv'
  <2>1. Listed' = Listed /\ Orders' = Orders
    BY <1>2, SameLinks DEF Accept, list
  <2>2. ListIsChain'
    BY <1>0, <1>2, <2>1 DEF ListIsChain, TypeOK, Accept, list
  <2>3. TakesAreSafe'
    BY <1>0, <1>2 DEF TakesAreSafe, Accept, list
  <2>4. JobsInOnePlace'
    BY <1>0, <1>2, <2>1 DEF JobsInOnePlace, Pushing, Accept
  <2>. QED
    BY <2>2, <2>3, <2>4
<1>3. CASE AcceptFails
  <2>1. Listed' = Listed /\ Orders' = Orders
    BY <1>3, SameLinks DEF AcceptFails, list
  <2>2. ListIsChain'
    BY <1>0, <1>3, <2>1 DEF ListIsChain, TypeOK, AcceptFails, list
  <2>3. TakesAreSafe'
    BY <1>0, <1>3 DEF TakesAreSafe, AcceptFails, list
  <2>4. JobsInOnePlace'
    BY <1>0, <1>3, <2>1 DEF JobsInOnePlace, Pushing, AcceptFails
  <2>. QED
    BY <2>2, <2>3, <2>4
<1>4. CASE PushLock
  <2>1. Listed' = Listed /\ Orders' = Orders
    BY <1>4, SameLinks DEF PushLock, list
  <2>2. ListIsChain'
    BY <1>0, <1>4, <2>1 DEF ListIsChain, TypeOK, PushLock, list
  <2>3. TakesAreSafe'
    BY <1>0, <1>4 DEF TakesAreSafe, PushLock, list
  <2>4. JobsInOnePlace'
    BY <1>0, <1>4, <2>1 DEF JobsInOnePlace, Pushing, PushLock
  <2>. QED
    BY <2>2, <2>3, <2>4
<1>5. CASE PushAppend
  <2>1. client_sock \in Jobs /\ client_sock \notin Listed
    BY <1>0, <1>5 DEF JobsInOnePlace, Pushing, PushAppend
  <2>2. PICK q : q \in Orders
    BY <1>0 DEF ListIsChain
  <2>3. /\ Listed' = Listed \cup {client_sock}
        /\ Append(q, client_sock) \in Orders'
        /\ head' \in Jobs
        /\ next' \in [Jobs -> Jobs \cup {NULL}] /\ prev' \in [Jobs -> Jobs \cup {NULL}]
    BY <1>0, <1>5, <2>1, <2>2, AppendKeepsOrder DEF PushAppend
  <2>4. Cardinality(Listed') = Cardinality(Listed) + 1 /\ Cardinality(Listed) \in Nat
    BY <2>1, <2>3, ListedFacts, FS_AddElement
  <2>5. ListIsChain'
    BY <1>0, <1>5, <2>3, <2>4 DEF ListIsChain, TypeOK, PushAppend
  <2>6. TakesAreSafe'
    BY <1>0, <1>5, <2>3 DEF TakesAreSafe, PushAppend
  <2>7. JobsInOnePlace'
    BY <1>0, <1>5, <2>1, <2>3 DEF JobsInOnePlace, Pushing, PushAppend
  <2>. QED
    BY <2>5, <2>6, <2>7
<1>6. CASE PushCount
  <2>1. Listed' = Listed /\ Orders' = Orders
    BY <1>6, SameLinks DEF PushCount
  <2>2. ListIsChain'
    BY <1>0, <1>6, <2>1, ListedFacts DEF ListIsChain, TypeOK, PushCount
  <2>3. TakesAreSafe'
    BY <1>0, <1>6 DEF TakesAreSafe, TypeOK, PushCount
  <2>4. JobsInOnePlace'
    BY <1>0, <1>6, <2>1 DEF JobsInOnePlace, Pushing, TypeOK, PushCount
  <2>. QED
    BY <2>2, <2>3, <2>4
<1>7. ASSUME NEW w \in Workers, WorkerLoop(w) PROVE Inv'
  <2>1. Listed' = Listed /\ Orders' = Orders
    BY <1>7, SameLinks DEF WorkerLoop, list
  <2>2. ListIsChain'
    BY <1>0, <1>7, <2>1 DEF ListIsChain, TypeOK, WorkerLoop, list
  <2>3. TakesAreSafe'
    BY <1>0, <1>7 DEF TakesAreSafe, TypeOK, WorkerLoop, list
  <2>4. JobsInOnePlace'
    BY <1>0, <1>7, <2>1 DEF JobsInOnePlace, Pushing, TypeOK, WorkerLoop
  <2>. QED
    BY <2>2, <2>3, <2>4
<1>8. ASSUME NEW w \in Workers, PopLock(w) PROVE Inv'
  <2>1. Listed' = Listed /\ Orders' = Orders
    BY <1>8, SameLinks DEF PopLock, list
  <2>2. ListIsChain'
    BY <1>0, <1>8, <2>1 DEF ListIsChain, TypeOK, PopLock, list
  <2>3. TakesAreSafe'
    BY <1>0, <1>8 DEF TakesAreSafe, TypeOK, PopLock, list
  <2>4. JobsInOnePlace'
    BY <1>0, <1>8, <2>1 DEF JobsInOnePlace, Pushing, TypeOK, PopLock
  <2>. QED
    BY <2>2, <2>3, <2>4
<1>9. ASSUME NEW w \in Workers, PopTest(w) PROVE Inv'
  <2>1. Listed' = Listed /\ Orders' = Orders
    BY <1>9, SameLinks DEF PopTest, list
  <2>2. ListIsChain'
    BY <1>0, <1>9, <2>1 DEF ListIsChain, TypeOK, PopTest, list
  <2>3. size # 0 => head # NULL
    <3>1. mutex = w /\ apc # "count"
      BY <1>0, <1>9 DEF TakesAreSafe, PopTest
    <3>2. PICK q : q \in Orders
      BY <1>0 DEF ListIsChain
    <3>3. Cardinality(Listed) # 0 => head \in Listed
      BY <3>2, OrderFacts
    <3>. QED
      BY <1>0, <3>1, <3>3, ListedFacts DEF ListIsChain
  <2>4. TakesAreSafe'
    BY <1>0, <1>9, <2>3 DEF TakesAreSafe, TypeOK, PopTest, list
  <2>5. JobsInOnePlace'
    BY <1>0, <1>9, <2>1 DEF JobsInOnePlace, Pushing, TypeOK, PopTest
  <2>. QED
    BY <2>2, <2>4, <2>5
<1>10. ASSUME NEW w \in Workers, SpuriousWakeup(w) PROVE Inv'
  <2>1. Listed' = Listed /\ Orders' = Orders
    BY <1>10, SameLinks DEF SpuriousWakeup, list
  <2>2. ListIsChain'
    BY <1>0, <1>10, <2>1, QueueAssumption DEF ListIsChain, TypeOK, SpuriousWakeup, list
  <2>3. TakesAreSafe'
    BY <1>0, <1>10 DEF TakesAreSafe, TypeOK, SpuriousWakeup, list
  <2>4. JobsInOnePlace'
    BY <1>0, <1>10, <2>1 DEF JobsInOnePlace, Pushing, TypeOK, SpuriousWakeup
  <2>. QED
    BY <2>2, <2>3, <2>4
<1>11. ASSUME NEW w \in Workers, PopTake(w) PROVE Inv'
  <2>1. mutex = w /\ head # NULL /\ apc \notin {"append", "count"}
    BY <1>0, <1>11 DEF TakesAreSafe, PopTake
  <2>2. PICK q : q \in Orders
    BY <1>0 DEF ListIsChain
  <2>3. /\ head \in Listed /\ head \in Jobs
        /\ Listed' = Listed \ {head}
        /\ Cardinality(Listed') = Cardinality(Listed) - 1
        /\ Tail(q) \in Orders'
        /\ head' \in Jobs \cup {NULL}
        /\ next' \in [Jobs -> Jobs \cup {NULL}] /\ prev' \in [Jobs -> Jobs \cup {NULL}]
    BY <1>0, <1>11, <2>1, <2>2, DeleteKeepsOrder, ListedFacts DEF PopTake
  <2>4. size' \in Nat /\ size' = Cardinality(Listed')
    <3>1. Cardinality(Listed') \in Nat
      BY <2>3, ListedFacts, FS_RemoveElement, FS_CardinalityType
    <3>. QED
      BY <1>0, <1>11, <2>1, <2>3, <3>1, ListedFacts DEF ListIsChain, PopTake
  <2>5. ListIsChain'
    BY <1>0, <1>11, <2>1, <2>3, <2>4 DEF ListIsChain, TypeOK, PopTake
  <2>6. TakesAreSafe'
    BY <1>0, <1>11, <2>1 DEF TakesAreSafe, TypeOK, PopTake
  <2>7. JobsInOnePlace'
    BY <1>0, <1>11, <2>1, <2>3 DEF JobsInOnePlace, Pushing, TypeOK, PopTake
  <2>. QED
    BY <2>5, <2>6, <2>7
<1>12. ASSUME NEW w \in Workers, Handle(w) PROVE Inv'
  <2>1. Listed' = Listed /\ Orders' = Orders
    BY <1>12, SameLinks DEF Handle, list
  <2>2. job[w] \in accepted /\ job[w] # NULL
    BY <1>0, <1>12 DEF JobsInOnePlace, TypeOK, Handle
  <2>3. ListIsChain'
    BY <1>0, <1>12, <2>1, <2>2 DEF ListIsChain, TypeOK, Handle, list
  <2>4. TakesAreSafe'
    BY <1>0, <1>12 DEF TakesAreSafe, TypeOK, Handle, list
  <2>5. JobsInOnePlace'
    <3>1. /\ handled' = handled \cup {job[w]} /\ Pushing' = Pushing /\ accepted' = accepted
          /\ job'[w] = NULL /\ \A v \in Workers : v # w => job'[v] = job[v]
      BY <1>0, <1>12 DEF TypeOK, Pushing, Handle
    <3>2. apc' \in {"lock", "append"} => client_sock' \in Jobs
      BY <1>0, <1>12 DEF JobsInOnePlace, Handle
    <3>3. \A v \in Workers : job'[v] # NULL <=> wpc'[v] = "handle"
      BY <1>0, <1>12, <3>1 DEF JobsInOnePlace, TypeOK, Handle
    <3>4. \A u, v \in Workers : job'[u] # NULL /\ job'[u] = job'[v] => u = v
      BY <1>0, <3>1 DEF JobsInOnePlace
    <3>5. /\ Listed' \cap handled' = {} /\ Pushing' \cap (Listed' \cup handled') = {}
          /\ \A v \in Workers : job'[v] \notin Listed' \cup handled' \cup Pushing'
      <4>1. job[w] \notin Listed \cup Pushing
        BY <1>0 DEF JobsInOnePlace
      <4>2. NULL \notin Listed \cup handled \cup Pushing
        BY <1>0 DEF JobsInOnePlace, Listed, TypeOK, Pushing
      <4>3. \A v \in Workers : v # w => job[v] # job[w]
        BY <1>0, <2>2 DEF JobsInOnePlace
      <4>. QED
        BY <1>0, <2>1, <2>2, <3>1, <4>1, <4>2, <4>3 DEF JobsInOnePlace
    <3>6. \A j \in Jobs : j \in accepted' <=> \/ j \in Pushing' \cup Listed' \cup handled'
                                             \/ \E v \in Workers : job'[v] = j
      BY <1>0, <2>1, <3>1 DEF JobsInOnePlace
    <3>. QED
      BY <3>2, <3>3, <3>4, <3>5, <3>6 DEF JobsInOnePlace
  <2>. QED
    BY <2>3, <2>4, <2>5
<1>13. CASE StopListening \/ StopSocket \/ UNCHANGED vars
  <2>1. Listed' = Listed /\ Orders' = Orders
    BY <1>13, SameLinks DEF StopListening, StopSocket, vars, list
  <2>2. ListIsChain'
    BY <1>0, <1>13, <2>1 DEF ListIsChain, TypeOK, StopListening, StopSocket, vars, list
  <2>3. TakesAreSafe'
    BY <1>0, <1>13 DEF TakesAreSafe, StopListening, StopSocket, vars, list
  <2>4. JobsInOnePlace'
    BY <1>0, <1>13, <2>1 DEF JobsInOnePlace, Pushing, StopListening, StopSocket, vars
  <2>. QED
    BY <2>2, <2>3, <2>4
<1>. QED
  BY <1>1, <1>2, <1>3, <1>4, <1>5, <1>6, <1>7, <1>8, <1>9, <1>10, <1>11, <1>12, <1>13
     DEF Next, Push, Worker

\* The inductive invariant holds of the pool.
THEOREM Invariant == Spec => []Inv
<1>. QED
  BY InitInv, NextInv, PTL DEF Spec

\* The list is one chain with no node beside it, and size counts it whenever the
\* mutex is free, for any connections and workers (wq.c:17-43, utlist.h).
THEOREM ListStaysChain == Spec => []ListIsChain
<1>1. Inv => ListIsChain
  BY DEF Inv
<1>. QED
  BY Invariant, <1>1, PTL

\* Whatever woke it, a worker takes with the mutex in hand and a node to take
\* (wq.c:21-28).
THEOREM TakesStaySafe == Spec => []TakesAreSafe
<1>1. Inv => TakesAreSafe
  BY DEF Inv
<1>. QED
  BY Invariant, <1>1, PTL

\* No accepted connection is lost, and none is in two places
\* (wq.c:17-43, socket_server.c:24-44, 137-144).
THEOREM NoJobLost == Spec => []JobsInOnePlace
<1>1. Inv => JobsInOnePlace
  BY DEF Inv
<1>. QED
  BY Invariant, <1>1, PTL

-----------------------------------------------------------------------------
(* The queue that the list implements *)

\* A step of the pool is a step of JobQueue on the list read as a sequence, or
\* leaves it alone: appending is Submit, taking is Start, handling is Finish.
LEMMA StepSimulates ==
  ASSUME Inv, [Next]_vars, \A q \in Orders' : Queued' = q
  PROVE  [Abstract!Next]_(Abstract!vars)
<1>. USE DEF Inv
<1>0. /\ ListIsChain /\ TakesAreSafe /\ JobsInOnePlace /\ TypeOK /\ NULL \notin Jobs
  BY QueueAssumption DEF ListIsChain
<1>1. PICK q : q \in Orders
  BY <1>0 DEF ListIsChain
<1>2. Queued = q
  BY <1>1, QueuedIsOrder
<1>3. CASE PushAppend
  <2>1. client_sock \in Jobs /\ client_sock \notin Listed \cup handled
    BY <1>0, <1>3 DEF JobsInOnePlace, Pushing, PushAppend
  <2>2. \A w \in Workers : job[w] # client_sock
    BY <1>0, <1>3 DEF JobsInOnePlace, Pushing, PushAppend
  <2>3. Append(q, client_sock) \in Orders'
    BY <1>0, <1>1, <1>3, <2>1, AppendKeepsOrder DEF PushAppend
  <2>4. Queued' = Append(Queued, client_sock)
    BY <1>2, <2>3
  <2>5. client_sock \notin Abstract!Waiting
    <3>1. \A i \in DOMAIN q : q[i] \in Listed
      BY <1>1, OrderFacts
    <3>. QED
      BY <1>2, <2>1, <3>1 DEF Abstract!Waiting
  <2>6. Abstract!Submit(client_sock)
    BY <1>3, <2>1, <2>2, <2>4, <2>5 DEF Abstract!Submit, PushAppend
  <2>. QED
    BY <2>1, <2>6 DEF Abstract!Next
<1>4. ASSUME NEW w \in Workers, PopTake(w) PROVE Abstract!Next
  <2>1. head # NULL /\ job[w] = NULL
    BY <1>0, <1>4 DEF TakesAreSafe, JobsInOnePlace, PopTake
  <2>2. head = q[1] /\ q # << >> /\ Tail(q) \in Orders'
    BY <1>0, <1>1, <1>4, <2>1, DeleteKeepsOrder DEF PopTake
  <2>3. Queued' = Tail(Queued) /\ Head(Queued) = head /\ Queued # << >>
    <3>1. q \in Seq(Jobs)
      BY <1>1, OrderFacts
    <3>2. Head(q) = head
      BY <2>2, <3>1
    <3>. QED
      BY <1>2, <2>2, <3>2
  <2>4. Abstract!Start(w)
    BY <1>4, <2>1, <2>3 DEF Abstract!Start, PopTake
  <2>. QED
    BY <2>4 DEF Abstract!Next
<1>5. ASSUME NEW w \in Workers, Handle(w) PROVE Abstract!Next
  <2>1. Queued' = Queued
    BY <1>5, SameLinks DEF Handle, list
  <2>2. job[w] # NULL
    BY <1>0, <1>5 DEF JobsInOnePlace, Handle
  <2>3. Abstract!Finish(w)
    BY <1>5, <2>1, <2>2 DEF Abstract!Finish, Handle
  <2>. QED
    BY <2>3 DEF Abstract!Next
<1>6. ASSUME UNCHANGED <<head, next, prev, job, handled>> PROVE UNCHANGED Abstract!vars
  <2>1. Queued' = Queued
    BY <1>6, SameLinks
  <2>. QED
    BY <1>6, <2>1 DEF Abstract!vars
<1>7. CASE PushAppend \/ (\E w \in Workers : PopTake(w) \/ Handle(w))
  BY <1>3, <1>4, <1>5, <1>7
<1>8. CASE ~(PushAppend \/ (\E w \in Workers : PopTake(w) \/ Handle(w)))
  <2>1. UNCHANGED <<head, next, prev, job, handled>>
    BY <1>8 DEF Next, Push, Worker, AcceptLoop, Accept, AcceptFails, PushLock, PushCount,
                WorkerLoop, PopLock, PopTest, SpuriousWakeup, StopListening, StopSocket,
                vars, list
  <2>. QED
    BY <1>6, <2>1
<1>. QED
  BY <1>7, <1>8

\* Connections are handed out in the order they were accepted, each to one
\* worker and once: the pool implements JobQueue (wq.c:17-43,
\* socket_server.c:24-44).
THEOREM ImplementsJobQueue == Spec => QueueIsFifo
<1>1. Init => Abstract!Init
  <2>. SUFFICES ASSUME Init PROVE Abstract!Init
    OBVIOUS
  <2>1. Listed = {} /\ Cardinality(Listed) = 0
    BY FS_EmptySet DEF Init, Listed
  <2>2. Orders # {}
    BY InitInv DEF Inv, ListIsChain
  <2>3. Queued = << >>
    BY <2>1, <2>2, QueuedIsOrder, OrderFacts
  <2>. QED
    BY <2>3 DEF Init, Abstract!Init
<1>2. (\A q \in Orders : Queued = q)'
  BY QueuedIsOrder, PTL
<1>3. Inv /\ [Next]_vars => [Abstract!Next]_(Abstract!vars)
  BY <1>2, StepSimulates
<1>. QED
  BY Invariant, <1>1, <1>3, PTL DEF Spec, QueueIsFifo, Abstract!Spec
=============================================================================
