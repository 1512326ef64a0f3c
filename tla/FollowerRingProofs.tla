------------------------- MODULE FollowerRingProofs -------------------------
(***************************************************************************)
(* Proofs about the leader's follower list, for any number of threads,     *)
(* followers and keys and any capacity and redundancy.  The conjunction    *)
(* Inv of the type invariant, the ring invariant, the count and the place  *)
(* of every thread is inductive.                                           *)
(***************************************************************************)
EXTENDS FollowerRing, FiniteSetTheorems, WellFoundedInduction, TLAPS

Inv == TypeOK /\ RingSorted /\ CountIsExact /\ ThreadsInPlace

-----------------------------------------------------------------------------
(* The list as a set *)

\* The listed followers are finitely many numbers, and NULL is none of them
\* (tpcleader.c:45-99).
LEMMA LinkedFacts ==
  /\ Ids \subseteq Nat /\ NULL \notin Ids
  /\ Linked \subseteq Ids /\ IsFiniteSet(Linked)
  /\ Redundancy \in Nat /\ Redundancy > 0
<1>1. Ids \subseteq Nat /\ NULL \notin Ids /\ IsFiniteSet(Ids)
  BY RingAssumption
<1>2. Linked \subseteq Ids
  BY DEF Linked
<1>3. IsFiniteSet(Linked)
  BY <1>1, <1>2, FS_Subset
<1>4. Redundancy \in Nat /\ Redundancy > 0
  BY RingAssumption DEF Redundancy
<1>. QED
  BY <1>1, <1>2, <1>3, <1>4

\* A splice lists one more follower and leaves every other link in place
\* (tpcleader.c:76-82, 90-94).
LEMMA SpliceLinks ==
  ASSUME TypeOK, RingSorted, NEW a \in Ids, a \notin Linked,
         NEW c \in Linked, InsertBefore(a, c)
  PROVE  /\ next' \in [Ids -> Ids \cup {NULL}] /\ prev' \in [Ids -> Ids \cup {NULL}]
         /\ prev[c] \in Linked /\ a # c /\ a # prev[c]
         /\ next'[a] = c /\ next'[prev[c]] = a
         /\ prev'[a] = prev[c] /\ prev'[c] = a
         /\ \A n \in Ids : n # a /\ n # prev[c] => next'[n] = next[n]
         /\ \A n \in Ids : n # a /\ n # c => prev'[n] = prev[n]
         /\ Linked' = Linked \cup {a}
<1>. USE LinkedFacts
<1>1. prev[c] \in Linked /\ a # c /\ a # prev[c] /\ prev[c] \in Ids /\ c \in Ids
  BY DEF RingSorted
<1>2. /\ next' \in [Ids -> Ids \cup {NULL}] /\ prev' \in [Ids -> Ids \cup {NULL}]
      /\ next'[a] = c /\ next'[prev[c]] = a
      /\ prev'[a] = prev[c] /\ prev'[c] = a
      /\ \A n \in Ids : n # a /\ n # prev[c] => next'[n] = next[n]
      /\ \A n \in Ids : n # a /\ n # c => prev'[n] = prev[n]
  BY <1>1 DEF TypeOK, InsertBefore
<1>3. Linked' = Linked \cup {a}
  <2>1. ASSUME NEW n \in Ids PROVE next'[n] # NULL <=> next[n] # NULL \/ n = a
    BY <1>1, <1>2 DEF Linked
  <2>. QED
    BY <2>1 DEF Linked
<1>. QED
  BY <1>1, <1>2, <1>3

\* Inserting before the first larger ID keeps the ring sorted
\* (tpcleader.c:75-83).
LEMMA InsertInside ==
  ASSUME TypeOK, RingSorted, NEW a \in Ids, a \notin Linked,
         NEW c \in Linked, InsertBefore(a, c),
         a < c, \A n \in Linked : n < c => n < a,
         head' = IF c = head THEN a ELSE head
  PROVE  RingSorted'
<1>. DEFINE p == prev[c]
<1>1. /\ p \in Linked /\ a # c /\ a # p
      /\ next'[a] = c /\ next'[p] = a /\ prev'[a] = p /\ prev'[c] = a
      /\ \A n \in Ids : n # a /\ n # p => next'[n] = next[n]
      /\ \A n \in Ids : n # a /\ n # c => prev'[n] = prev[n]
      /\ Linked' = Linked \cup {a}
  BY SpliceLinks
<1>2. \A n \in Linked' : n \in Nat /\ n \in Ids
  BY <1>1, LinkedFacts
<1>3. head \in Linked /\ head # NULL /\ \A n \in Linked : head <= n
  BY DEF RingSorted
<1>4. head' \in Linked' /\ head' # NULL /\ \A n \in Linked' : head' <= n
  BY <1>1, <1>2, <1>3, LinkedFacts
<1>5. CyclicSuccessor(Linked, p, c)
  BY <1>1 DEF RingSorted
<1>6. CyclicSuccessor(Linked', a, c)
  BY <1>1, <1>2 DEF CyclicSuccessor
<1>7. CyclicSuccessor(Linked', p, a)
  BY <1>1, <1>2, <1>5 DEF CyclicSuccessor
<1>8. ASSUME NEW n \in Linked, n # p
      PROVE  CyclicSuccessor(Linked', n, next[n])
  <2>1. next[n] \in Linked /\ next[n] # c /\ CyclicSuccessor(Linked, n, next[n])
    BY <1>8 DEF RingSorted
  <2>2. CASE n < next[n] /\ \A m \in Linked : ~(n < m /\ m < next[n])
    BY <1>1, <1>2, <2>1, <2>2 DEF CyclicSuccessor
  <2>3. CASE (\A m \in Linked : m <= n) /\ (\A m \in Linked : next[n] <= m)
    BY <1>1, <1>2, <2>1, <2>3 DEF CyclicSuccessor
  <2>. QED
    BY <2>1, <2>2, <2>3 DEF CyclicSuccessor
<1>9. ASSUME NEW n \in Linked'
      PROVE  /\ next'[n] \in Linked' /\ prev'[n] \in Linked'
             /\ prev'[next'[n]] = n /\ next'[prev'[n]] = n
             /\ CyclicSuccessor(Linked', n, next'[n])
  <2>1. CASE n = a
    BY <1>1, <1>6, <2>1
  <2>2. CASE n = p
    <3>1. n # a /\ prev[n] \in Linked /\ next[prev[n]] = n
      BY <1>1, <2>2 DEF RingSorted
    <3>2. CASE n = c
      BY <1>1, <1>2, <1>7, <2>2, <3>1, <3>2
    <3>3. CASE n # c
      <4>1. prev[n] # p
        BY <1>1, <2>2, <3>1, <3>3 DEF RingSorted
      <4>. QED
        BY <1>1, <1>2, <1>7, <2>2, <3>1, <3>3, <4>1
    <3>. QED
      BY <3>2, <3>3
  <2>3. CASE n # a /\ n # p
    <3>1. /\ n \in Linked /\ next[n] \in Linked /\ prev[n] \in Linked
          /\ prev[next[n]] = n /\ next[prev[n]] = n /\ next[n] # c /\ next'[n] = next[n]
      BY <1>1, <1>2, <2>3 DEF RingSorted
    <3>2. CASE n = c
      BY <1>1, <1>2, <1>8, <2>3, <3>1, <3>2
    <3>3. CASE n # c
      <4>1. prev[n] # p
        BY <1>1, <3>1, <3>3 DEF RingSorted
      <4>. QED
        BY <1>1, <1>2, <1>8, <2>3, <3>1, <3>3, <4>1
    <3>. QED
      BY <3>2, <3>3
  <2>. QED
    BY <2>1, <2>2, <2>3
<1>. QED
  BY <1>1, <1>4, <1>9 DEF RingSorted, CyclicSuccessor

\* Inserting behind the highest ID keeps the ring sorted (tpcleader.c:89-94).
LEMMA InsertAtEnd ==
  ASSUME TypeOK, RingSorted, NEW a \in Ids, head # NULL,
         InsertBefore(a, head), \A n \in Linked : n < a, UNCHANGED head
  PROVE  a \notin Linked /\ RingSorted'
<1>. DEFINE p == prev[head]
<1>1. /\ head \in Linked /\ a \notin Linked /\ \A n \in Linked : n \in Nat /\ head <= n
  BY LinkedFacts DEF RingSorted
<1>2. /\ p \in Linked /\ a # head /\ a # p
      /\ next'[a] = head /\ next'[p] = a /\ prev'[a] = p /\ prev'[head] = a
      /\ \A n \in Ids : n # a /\ n # p => next'[n] = next[n]
      /\ \A n \in Ids : n # a /\ n # head => prev'[n] = prev[n]
      /\ Linked' = Linked \cup {a}
  BY <1>1, SpliceLinks
<1>3. \A n \in Linked' : n \in Nat /\ n \in Ids
  BY <1>2, LinkedFacts
<1>4. CyclicSuccessor(Linked, p, head) /\ next[p] = head
  BY <1>1, <1>2 DEF RingSorted
<1>5. \A n \in Linked : n <= p
  BY <1>1, <1>2, <1>4 DEF CyclicSuccessor
<1>6. CyclicSuccessor(Linked', a, head)
  BY <1>1, <1>2, <1>3 DEF CyclicSuccessor
<1>7. CyclicSuccessor(Linked', p, a)
  BY <1>1, <1>2, <1>3, <1>5 DEF CyclicSuccessor
<1>8. ASSUME NEW n \in Linked, n # p
      PROVE  CyclicSuccessor(Linked', n, next[n])
  <2>1. next[n] \in Linked /\ CyclicSuccessor(Linked, n, next[n])
    BY DEF RingSorted
  <2>2. ~(\A m \in Linked : m <= n)
    BY <1>1, <1>2, <1>5, <1>8
  <2>. QED
    BY <1>1, <1>2, <1>3, <2>1, <2>2 DEF CyclicSuccessor
<1>9. ASSUME NEW n \in Linked'
      PROVE  /\ next'[n] \in Linked' /\ prev'[n] \in Linked'
             /\ prev'[next'[n]] = n /\ next'[prev'[n]] = n
             /\ CyclicSuccessor(Linked', n, next'[n])
  <2>1. CASE n = a
    BY <1>1, <1>2, <1>6, <2>1
  <2>2. CASE n # a
    <3>1. /\ n \in Linked /\ next[n] \in Linked /\ prev[n] \in Linked
          /\ prev[next[n]] = n /\ next[prev[n]] = n
      BY <1>2, <2>2 DEF RingSorted
    <3>2. /\ next'[n] \in Linked' /\ CyclicSuccessor(Linked', n, next'[n])
          /\ prev'[next'[n]] = n
      <4>1. CASE n = p
        BY <1>2, <1>3, <1>7, <4>1
      <4>2. CASE n # p
        <5>1. next'[n] = next[n] /\ next[n] # head /\ next[n] # a
          BY <1>1, <1>2, <1>3, <2>2, <3>1, <4>2
        <5>. QED
          BY <1>2, <1>3, <1>8, <3>1, <4>2, <5>1
      <4>. QED
        BY <4>1, <4>2
    <3>3. prev'[n] \in Linked' /\ next'[prev'[n]] = n
      <4>1. CASE n = head
        BY <1>2, <4>1
      <4>2. CASE n # head
        <5>1. prev'[n] = prev[n] /\ prev[n] # p /\ prev[n] # a
          BY <1>1, <1>2, <1>3, <1>4, <2>2, <3>1, <4>2
        <5>. QED
          BY <1>2, <1>3, <3>1, <5>1
      <4>. QED
        BY <4>1, <4>2
    <3>. QED
      BY <3>2, <3>3
  <2>. QED
    BY <2>1, <2>2
<1>10. head' \in Linked' /\ head' # NULL /\ \A n \in Linked' : head' <= n
  BY <1>1, <1>2, <1>3
<1>. QED
  BY <1>1, <1>2, <1>9, <1>10 DEF RingSorted, CyclicSuccessor

-----------------------------------------------------------------------------
(* Invariance *)

\* A step that leaves the list and the answers alone, and has nothing to count
\* before or after, keeps both list invariants (every handler outside the
\* insertion code of tpcleader_register).
LEMMA ListUntouched ==
  ASSUME RingSorted, CountIsExact, UNCHANGED <<list, answer>>,
         \A u \in Threads : pc'[u] = "reg_count" <=> pc[u] = "reg_count"
  PROVE  RingSorted' /\ CountIsExact' /\ Linked' = Linked
<1>1. Linked' = Linked
  BY DEF Linked, list
<1>. QED
  BY <1>1 DEF RingSorted, CountIsExact, Listed, CyclicSuccessor, list

\* One more listed follower is one more to count (tpcleader.c:67-69, 76-82, 90-94).
LEMMA CountInsertion ==
  ASSUME CountIsExact, NEW a, a \notin Linked, Linked' = Linked \cup {a},
         UNCHANGED <<follower_count, answer>>, follower_count \in Nat,
         \A u \in Threads : pc[u] # "reg_count", \E u \in Threads : pc'[u] = "reg_count"
  PROVE  CountIsExact'
<1>1. Cardinality(Linked') = Cardinality(Linked) + 1
  BY LinkedFacts, FS_AddElement
<1>. QED
  BY <1>1 DEF CountIsExact, Listed

\* The empty list that tpcleader_init leaves satisfies Inv (tpcleader.c:19-35).
LEMMA InvInit == Init => Inv
<1>. SUFFICES ASSUME Init PROVE Inv
  OBVIOUS
<1>. USE LinkedFacts, RingAssumption
<1>1. Linked = {}
  BY DEF Init, Linked
<1>2. TypeOK
  BY <1>1 DEF Init, TypeOK, InHand
<1>3. RingSorted
  BY <1>1 DEF Init, RingSorted
<1>4. CountIsExact
  BY <1>1, FS_EmptySet DEF Init, CountIsExact, Listed
<1>5. ThreadsInPlace
  BY DEF Init, ThreadsInPlace
<1>. QED
  BY <1>2, <1>3, <1>4, <1>5 DEF Inv

\* A registration's critical section (tpcleader.c:66-97).
LEMMA RegisterKeepsInv ==
  ASSUME Inv, NEW t \in Threads,
         RegisterLock(t) \/ RegisterScan(t) \/ RegisterCount(t) \/ RegisterEnd(t)
  PROVE  Inv'
<1>. USE LinkedFacts DEF Inv
<1>0. NULL \notin Threads
  BY RingAssumption
<1>1. CASE RegisterLock(t) /\ head = NULL
  <2>1. arg[t] \in Ids /\ Linked = {}
    BY <1>1 DEF RegisterLock, ThreadsInPlace, RingSorted
  <2>2. /\ head' = arg[t] /\ UNCHANGED follower_count
        /\ next' = [next EXCEPT ![arg[t]] = arg[t]]
        /\ prev' = [prev EXCEPT ![arg[t]] = arg[t]]
        /\ lock' = t /\ pc' = [pc EXCEPT ![t] = "reg_count"]
        /\ UNCHANGED <<alive, op, arg, curr, r_val, polled, told, answer>>
    BY <1>1 DEF RegisterLock, list
  <2>3. Linked' = Linked \cup {arg[t]}
    BY <2>1, <2>2 DEF Linked, TypeOK
  <2>4. RingSorted'
    <3>1. Linked' = {arg[t]} /\ next'[arg[t]] = arg[t] /\ prev'[arg[t]] = arg[t] /\ arg[t] \in Nat
      BY <2>1, <2>2, <2>3 DEF TypeOK
    <3>. QED
      BY <2>1, <2>2, <3>1 DEF RingSorted, CyclicSuccessor
  <2>5. CountIsExact'
    <3>1. \A u \in Threads : pc[u] # "reg_count"
      BY <1>0, <1>1 DEF ThreadsInPlace, RegisterLock
    <3>2. pc'[t] = "reg_count" /\ follower_count \in Nat
      BY <2>2 DEF TypeOK
    <3>. QED
      BY <2>1, <2>2, <2>3, <3>1, <3>2, CountInsertion
  <2>6. TypeOK'
    <3>1. next' \in [Ids -> Ids \cup {NULL}] /\ prev' \in [Ids -> Ids \cup {NULL}]
      BY <2>1, <2>2 DEF TypeOK
    <3>2. \A u \in Threads : pc'[u] \in InHand => curr'[u] \in Linked'
      BY <2>1, <2>2, <2>3 DEF TypeOK, InHand
    <3>. QED
      BY <2>1, <2>2, <3>1, <3>2 DEF TypeOK
  <2>7. ThreadsInPlace'
    BY <1>0, <1>1, <2>1, <2>2, <2>3 DEF ThreadsInPlace, RegisterLock, TypeOK
  <2>. QED
    BY <2>4, <2>5, <2>6, <2>7
<1>2. CASE RegisterLock(t) /\ head # NULL
  <2>1. RingSorted' /\ CountIsExact' /\ Linked' = Linked /\ UNCHANGED list
    <3>1. \A u \in Threads : pc'[u] = "reg_count" <=> pc[u] = "reg_count"
      BY <1>2 DEF RegisterLock, TypeOK
    <3>. QED
      BY <1>2, <3>1, ListUntouched DEF RegisterLock, list
  <2>2. head \in Linked /\ \A n \in Linked : n \in Nat /\ head <= n
    BY <1>2 DEF RingSorted
  <2>3. TypeOK'
    <3>1. /\ curr' = [curr EXCEPT ![t] = head] /\ pc' = [pc EXCEPT ![t] = "reg_scan"] /\ lock' = t
          /\ UNCHANGED <<alive, head, next, prev, follower_count, op, arg, r_val, polled, told, answer>>
      BY <1>2 DEF RegisterLock, list
    <3>. QED
      BY <2>1, <2>2, <3>1 DEF TypeOK, InHand
  <2>4. ThreadsInPlace'
    BY <1>0, <1>2, <2>1, <2>2 DEF ThreadsInPlace, RegisterLock, TypeOK, list
  <2>. QED
    BY <2>1, <2>3, <2>4
<1>3. CASE RegisterScan(t)
  <2>. DEFINE a == arg[t]
              c == curr[t]
  <2>1. /\ a \in Ids /\ c \in Linked /\ lock = t
        /\ \A n \in Linked : n < c => n < a
    BY <1>3 DEF RegisterScan, ThreadsInPlace, TypeOK, InHand
  <2>8. a \in Nat /\ c \in Nat /\ \A n \in Linked : n \in Nat
    BY <2>1
  <2>2. head # NULL /\ head \in Linked /\ \A n \in Linked : head <= n
    BY <2>1 DEF RingSorted
  <2>3. \A u \in Threads : u # t => pc[u] \notin {"reg_scan", "reg_count", "reg_end", "pri_scan"}
    BY <2>1 DEF ThreadsInPlace
  <2>9. /\ \A u \in Threads : pc[u] # "reg_count"
        /\ pc' = [pc EXCEPT ![t] = "reg_count"] => pc'[t] = "reg_count"
        /\ pc' = [pc EXCEPT ![t] = "reg_end"] \/ UNCHANGED pc
             => \A u \in Threads : pc'[u] = "reg_count" <=> pc[u] = "reg_count"
        /\ follower_count \in Nat
    BY <1>3, <2>3 DEF RegisterScan, TypeOK
  <2>4. CASE /\ c > a /\ InsertBefore(a, c)
             /\ head' = IF c = head THEN a ELSE head
             /\ pc' = [pc EXCEPT ![t] = "reg_count"] /\ UNCHANGED <<follower_count, curr>>
    <3>1. a \notin Linked
      BY <2>1, <2>4, <2>8
    <3>2. RingSorted'
      BY <2>1, <2>4, <3>1, InsertInside
    <3>3. /\ Linked' = Linked \cup {a}
          /\ next' \in [Ids -> Ids \cup {NULL}] /\ prev' \in [Ids -> Ids \cup {NULL}]
      BY <2>1, <2>4, <3>1, SpliceLinks
    <3>5. CountIsExact'
      BY <1>3, <2>4, <2>9, <3>1, <3>3, CountInsertion DEF RegisterScan
    <3>6. TypeOK'
      BY <1>3, <2>1, <2>2, <2>4, <3>3 DEF TypeOK, RegisterScan, InHand
    <3>7. ThreadsInPlace'
      BY <1>3, <2>1, <2>2, <2>3, <2>4, <3>3 DEF ThreadsInPlace, RegisterScan, TypeOK
    <3>. QED
      BY <3>2, <3>5, <3>6, <3>7
  <2>5. CASE c = a /\ UNCHANGED <<list, curr>> /\ pc' = [pc EXCEPT ![t] = "reg_end"]
    <3>1. RingSorted' /\ CountIsExact' /\ Linked' = Linked /\ UNCHANGED list
      BY <1>3, <2>5, <2>9, ListUntouched DEF RegisterScan
    <3>2. TypeOK'
      BY <1>3, <2>5, <3>1 DEF TypeOK, RegisterScan, InHand, list
    <3>3. ThreadsInPlace'
      BY <1>3, <2>1, <2>3, <2>5, <3>1 DEF ThreadsInPlace, RegisterScan, TypeOK, list
    <3>. QED
      BY <3>1, <3>2, <3>3
  <2>6. CASE c < a /\ next[c] # head /\ UNCHANGED <<list, pc>>
             /\ curr' = [curr EXCEPT ![t] = next[curr[t]]]
    <3>1. RingSorted' /\ CountIsExact' /\ Linked' = Linked /\ UNCHANGED list
      BY <1>3, <2>6, <2>9, ListUntouched DEF RegisterScan
    <3>2. next[c] \in Linked /\ CyclicSuccessor(Linked, c, next[c])
      BY <2>1 DEF RingSorted
    <3>3. \A n \in Linked : n < next[c] => n < a
      BY <2>1, <2>2, <2>6, <2>8, <3>2 DEF CyclicSuccessor
    <3>4. TypeOK'
      BY <1>3, <2>6, <3>1, <3>2 DEF TypeOK, RegisterScan, InHand, list
    <3>5. ThreadsInPlace'
      BY <1>3, <2>1, <2>3, <2>6, <3>1, <3>2, <3>3
         DEF ThreadsInPlace, RegisterScan, TypeOK, list
    <3>. QED
      BY <3>1, <3>4, <3>5
  <2>7. CASE c < a /\ next[c] = head /\ InsertBefore(a, head) /\ UNCHANGED head
             /\ curr' = [curr EXCEPT ![t] = head] /\ pc' = [pc EXCEPT ![t] = "reg_count"]
             /\ UNCHANGED follower_count
    <3>1. CyclicSuccessor(Linked, c, head)
      BY <2>1, <2>7 DEF RingSorted
    <3>2. \A n \in Linked : n < a
      BY <2>1, <2>2, <2>7, <2>8, <3>1 DEF CyclicSuccessor
    <3>3. a \notin Linked /\ RingSorted'
      BY <2>1, <2>2, <2>7, <3>2, InsertAtEnd
    <3>4. /\ Linked' = Linked \cup {a}
          /\ next' \in [Ids -> Ids \cup {NULL}] /\ prev' \in [Ids -> Ids \cup {NULL}]
      BY <2>1, <2>2, <2>7, <3>3, SpliceLinks
    <3>5. CountIsExact'
      BY <1>3, <2>7, <2>9, <3>3, <3>4, CountInsertion DEF RegisterScan
    <3>6. TypeOK'
      BY <1>3, <2>1, <2>2, <2>7, <3>4 DEF TypeOK, RegisterScan, InHand
    <3>7. ThreadsInPlace'
      BY <1>3, <2>1, <2>2, <2>3, <2>7, <3>4 DEF ThreadsInPlace, RegisterScan, TypeOK
    <3>. QED
      BY <3>3, <3>5, <3>6, <3>7
  <2>. QED
    BY <1>3, <2>4, <2>5, <2>6, <2>7 DEF RegisterScan
<1>5. CASE RegisterCount(t)
  <2>1. arg[t] \in Linked /\ lock = t /\ pc[t] = "reg_count"
    BY <1>5 DEF RegisterCount, ThreadsInPlace
  <2>2. /\ RingSorted' /\ Linked' = Linked
        /\ UNCHANGED <<alive, head, next, prev, lock, op, arg, curr, r_val, polled, told, answer>>
        /\ follower_count' = follower_count + 1 /\ pc' = [pc EXCEPT ![t] = "reg_end"]
    BY <1>5 DEF RegisterCount, RingSorted, Linked, CyclicSuccessor, locals
  <2>3. CountIsExact'
    <3>1. \A u \in Threads : pc'[u] # "reg_count"
      BY <2>1, <2>2 DEF ThreadsInPlace, TypeOK
    <3>2. Listed = follower_count + 1
      BY <2>1 DEF CountIsExact
    <3>. QED
      BY <2>2, <3>1, <3>2 DEF CountIsExact, Listed, TypeOK
  <2>4. TypeOK'
    BY <2>2 DEF TypeOK, InHand
  <2>5. ThreadsInPlace'
    BY <2>1, <2>2 DEF ThreadsInPlace, TypeOK
  <2>. QED
    BY <2>2, <2>3, <2>4, <2>5
<1>4. CASE RegisterEnd(t)
  <2>1. arg[t] \in Linked /\ lock = t
    BY <1>4 DEF RegisterEnd, ThreadsInPlace
  <2>2. RingSorted' /\ Linked' = Linked /\ UNCHANGED list
    BY <1>4 DEF RegisterEnd, RingSorted, Linked, CyclicSuccessor, list
  <2>3. CountIsExact'
    <3>1. \A u \in Threads : pc'[u] = "reg_count" <=> pc[u] = "reg_count"
      BY <1>4 DEF RegisterEnd, Return, TypeOK
    <3>. QED
      BY <1>4, <2>1, <2>2, <3>1 DEF RegisterEnd, CountIsExact, Listed, TypeOK, list
  <2>4. TypeOK'
    <3>1. answer' \in [Ids -> {"SUCCESS", "ERROR", NULL}]
      BY <1>4, <2>1 DEF TypeOK, RegisterEnd
    <3>2. UNCHANGED <<alive, head, next, prev, follower_count>> /\ lock' = NULL
      BY <1>4 DEF RegisterEnd, list
    <3>. QED
      BY <1>4, <2>2, <3>1, <3>2 DEF TypeOK, RegisterEnd, Return, InHand
  <2>5. ThreadsInPlace'
    BY <1>0, <1>4, <2>1, <2>2 DEF ThreadsInPlace, RegisterEnd, Return, TypeOK, list
  <2>. QED
    BY <2>2, <2>3, <2>4, <2>5
<1>. QED
  BY <1>1, <1>2, <1>3, <1>4, <1>5

\* A search for the primary, a walk, and the start of a handler leave the list
\* alone (tpcleader.c:106-133, 139-271).
LEMMA WalkKeepsInv ==
  ASSUME Inv, NEW t \in Threads,
         \/ PrimaryCheck(t) \/ PrimaryLock(t) \/ PrimaryScan(t)
         \/ Visit(t) \/ Successor(t) \/ GetHit(t) \/ GetMiss(t)
         \/ \E h \in Hashes : TpcRefused(t, h) \/ TpcStart(t, h) \/ GetStart(t, h)
  PROVE  Inv'
<1>. USE LinkedFacts DEF Inv
<1>0. NULL \notin Threads
  BY RingAssumption
<1>1. UNCHANGED <<head, next, prev, follower_count, answer>>
  BY DEF PrimaryCheck, PrimaryLock, PrimaryScan, Visit, Successor, GetHit, GetMiss,
         TpcRefused, TpcStart, GetStart, list, vars
<1>2. RingSorted' /\ CountIsExact' /\ Linked' = Linked
  <2>1. \A u \in Threads : pc'[u] = "reg_count" <=> pc[u] = "reg_count"
    BY DEF PrimaryCheck, PrimaryLock, PrimaryScan, Visit, Successor, GetHit, GetMiss, Return,
           TpcRefused, TpcStart, GetStart, vars, TypeOK
  <2>. QED
    BY <1>1, <2>1, ListUntouched DEF list
<1>3. head # NULL => head \in Linked
  BY DEF RingSorted
<1>4. \A n \in Linked : next[n] \in Linked
  BY DEF RingSorted
<1>5. CASE PrimaryCheck(t)
  <2>1. follower_count >= FollowerCapacity => head # NULL
    <3>1. Cardinality(Linked) > 0 => Linked # {}
      BY FS_EmptySet
    <3>2. follower_count >= FollowerCapacity => Cardinality(Linked) > 0
      BY RingAssumption DEF CountIsExact, Listed, TypeOK
    <3>3. Linked # {} => head # NULL
      BY DEF RingSorted
    <3>. QED
      BY <3>1, <3>2, <3>3
  <2>2. TypeOK'
    BY <1>1, <1>2, <1>5 DEF TypeOK, PrimaryCheck, InHand, locals
  <2>3. ThreadsInPlace'
    <3>1. UNCHANGED <<lock, arg, curr, r_val>>
      BY <1>5 DEF PrimaryCheck, locals
    <3>2. \/ UNCHANGED pc
          \/ head # NULL /\ pc' = [pc EXCEPT ![t] = "pri_lock"]
      <4>1. follower_count \in Nat /\ FollowerCapacity \in Nat
        BY RingAssumption DEF TypeOK
      <4>2. CASE follower_count < FollowerCapacity
        BY <1>5, <4>2 DEF PrimaryCheck
      <4>3. CASE ~(follower_count < FollowerCapacity)
        <5>1. head # NULL
          BY <2>1, <4>1, <4>3
        <5>. QED
          BY <1>5, <4>3, <5>1 DEF PrimaryCheck
      <4>. QED
        BY <4>2, <4>3
    <3>. QED
      BY <1>1, <1>2, <1>5, <3>1, <3>2 DEF ThreadsInPlace, PrimaryCheck, TypeOK
  <2>. QED
    BY <1>2, <2>2, <2>3
<1>6. CASE PrimaryLock(t)
  <2>1. head \in Linked /\ head # NULL
    BY <1>3, <1>6 DEF PrimaryLock, ThreadsInPlace
  <2>2. TypeOK'
    BY <1>1, <1>2, <1>6, <2>1 DEF TypeOK, PrimaryLock, InHand
  <2>3. ThreadsInPlace'
    BY <1>0, <1>1, <1>2, <1>6 DEF ThreadsInPlace, PrimaryLock, TypeOK
  <2>. QED
    BY <1>2, <2>2, <2>3
<1>7. CASE PrimaryScan(t)
  <2>1. curr[t] \in Linked /\ next[curr[t]] \in Linked /\ head \in Linked /\ lock = t
    BY <1>3, <1>4, <1>7 DEF PrimaryScan, ThreadsInPlace, TypeOK, InHand
  <2>2. TypeOK'
    <3>1. pc' \in [Threads -> {"idle", "reg_lock", "reg_count", "reg_end", "primary", "pri_lock"} \cup InHand]
      BY <1>7, <2>1 DEF TypeOK, PrimaryScan, InHand
    <3>2. curr' \in [Threads -> Ids \cup {NULL}] /\ lock' \in Threads \cup {NULL}
      <4>1. next[curr[t]] \in Ids /\ head \in Ids
        BY <2>1
      <4>2. curr' \in [Threads -> Ids \cup {NULL}]
        BY <1>7, <4>1 DEF TypeOK, PrimaryScan
      <4>3. lock' \in Threads \cup {NULL}
        BY <1>7 DEF TypeOK, PrimaryScan
      <4>. QED
        BY <4>2, <4>3
    <3>3. \A u \in Threads : pc'[u] \in InHand => curr'[u] \in Linked
      BY <1>7, <2>1 DEF TypeOK, PrimaryScan, InHand
    <3>. QED
      BY <1>1, <1>2, <1>7, <3>1, <3>2, <3>3 DEF TypeOK, PrimaryScan
  <2>3. ThreadsInPlace'
    BY <1>0, <1>1, <1>2, <1>7, <2>1 DEF ThreadsInPlace, PrimaryScan, TypeOK
  <2>. QED
    BY <1>2, <2>2, <2>3
<1>8. CASE Visit(t)
  <2>1. curr[t] \in Linked /\ curr[t] \in Ids /\ r_val[t] \in Nat /\ r_val[t] > 0
    BY <1>8 DEF Visit, ThreadsInPlace, TypeOK, InHand
  <2>2. /\ polled' \in [Threads -> Seq(Ids)] /\ told' \in [Threads -> Seq(Ids)]
        /\ r_val' \in [Threads -> 0..Redundancy]
    <3>1. r_val[t] - 1 \in 0..Redundancy
      BY <2>1 DEF TypeOK
    <3>2. Append(polled[t], curr[t]) \in Seq(Ids) /\ Append(told[t], curr[t]) \in Seq(Ids)
      BY <2>1 DEF TypeOK
    <3>3. r_val' \in [Threads -> 0..Redundancy]
      BY <1>8, <3>1 DEF TypeOK, Visit
    <3>4. polled' \in [Threads -> Seq(Ids)] /\ told' \in [Threads -> Seq(Ids)]
      BY <1>8, <3>2 DEF TypeOK, Visit
    <3>. QED
      BY <3>3, <3>4
  <2>3. TypeOK'
    BY <1>1, <1>2, <1>8, <2>1, <2>2 DEF TypeOK, Visit, InHand
  <2>4. ThreadsInPlace'
    BY <1>1, <1>2, <1>8 DEF ThreadsInPlace, Visit, TypeOK
  <2>. QED
    BY <1>2, <2>3, <2>4
<1>9. CASE Successor(t)
  <2>1. curr[t] \in Linked /\ next[curr[t]] \in Linked
    BY <1>4, <1>9 DEF Successor, TypeOK, InHand
  <2>2. TypeOK'
    <3>1. /\ pc' \in [Threads -> {"idle", "reg_lock", "reg_count", "reg_end", "primary", "pri_lock"} \cup InHand]
          /\ curr' \in [Threads -> Ids \cup {NULL}]
      BY <1>9, <2>1 DEF TypeOK, Successor, Return, InHand
    <3>2. /\ op' \in [Threads -> {"none", "register", "phase1", "phase2", "get"}]
          /\ arg' \in [Threads -> Ids \cup Hashes \cup {NULL}]
          /\ r_val' \in [Threads -> 0..Redundancy]
          /\ polled' \in [Threads -> Seq(Ids)] /\ told' \in [Threads -> Seq(Ids)]
      <4>1. 0 \in 0..Redundancy /\ Redundancy \in 0..Redundancy /\ << >> \in Seq(Ids)
        OBVIOUS
      <4>2. r_val[t] > 0 => r_val[t] - 1 \in 0..Redundancy
        BY DEF TypeOK
      <4>3. /\ op' \in [Threads -> {"none", "register", "phase1", "phase2", "get"}]
            /\ arg' \in [Threads -> Ids \cup Hashes \cup {NULL}]
        BY <1>9 DEF TypeOK, Successor, Return
      <4>4. r_val' \in [Threads -> 0..Redundancy]
        BY <1>9, <4>1, <4>2 DEF TypeOK, Successor, Return
      <4>5. polled' \in [Threads -> Seq(Ids)] /\ told' \in [Threads -> Seq(Ids)]
        <5>1. \/ UNCHANGED <<polled, told>>
              \/ /\ polled' = [polled EXCEPT ![t] = << >>]
                 /\ told' = [told EXCEPT ![t] = << >>]
          BY <1>9 DEF Successor, Return
        <5>2. polled \in [Threads -> Seq(Ids)] /\ told \in [Threads -> Seq(Ids)]
          BY DEF TypeOK
        <5>3. CASE UNCHANGED <<polled, told>>
          BY <5>2, <5>3
        <5>4. CASE /\ polled' = [polled EXCEPT ![t] = << >>]
                   /\ told' = [told EXCEPT ![t] = << >>]
          BY <4>1, <5>2, <5>4
        <5>. QED
          BY <5>1, <5>3, <5>4
      <4>. QED
        BY <4>3, <4>4, <4>5
    <3>3. \A u \in Threads : pc'[u] \in InHand => curr'[u] \in Linked
      BY <1>9, <2>1 DEF TypeOK, Successor, Return, InHand
    <3>. QED
      BY <1>1, <1>2, <1>9, <3>1, <3>2, <3>3 DEF TypeOK, Successor
  <2>3. ThreadsInPlace'
    BY <1>1, <1>2, <1>9 DEF ThreadsInPlace, Successor, Return, TypeOK
  <2>. QED
    BY <1>2, <2>2, <2>3
<1>10. CASE GetHit(t)
  <2>1. TypeOK'
    BY <1>1, <1>2, <1>10 DEF TypeOK, GetHit, Return, InHand
  <2>2. ThreadsInPlace'
    BY <1>1, <1>2, <1>10 DEF ThreadsInPlace, GetHit, Return, TypeOK
  <2>. QED
    BY <1>2, <2>1, <2>2
<1>11. CASE GetMiss(t)
  <2>1. curr[t] \in Linked /\ next[curr[t]] \in Linked
    BY <1>4, <1>11 DEF GetMiss, TypeOK, InHand
  <2>2. TypeOK'
    <3>1. /\ pc' \in [Threads -> {"idle", "reg_lock", "reg_count", "reg_end", "primary", "pri_lock"} \cup InHand]
          /\ curr' \in [Threads -> Ids \cup {NULL}]
      BY <1>11, <2>1 DEF TypeOK, GetMiss, Return, InHand
    <3>2. /\ op' \in [Threads -> {"none", "register", "phase1", "phase2", "get"}]
          /\ arg' \in [Threads -> Ids \cup Hashes \cup {NULL}]
          /\ r_val' \in [Threads -> 0..Redundancy]
          /\ polled' \in [Threads -> Seq(Ids)] /\ told' \in [Threads -> Seq(Ids)]
      <4>1. 0 \in 0..Redundancy /\ Redundancy \in 0..Redundancy /\ << >> \in Seq(Ids)
        OBVIOUS
      <4>2. r_val[t] > 0 => r_val[t] - 1 \in 0..Redundancy
        BY DEF TypeOK
      <4>3. /\ op' \in [Threads -> {"none", "register", "phase1", "phase2", "get"}]
            /\ arg' \in [Threads -> Ids \cup Hashes \cup {NULL}]
        BY <1>11 DEF TypeOK, GetMiss, Return
      <4>4. r_val' \in [Threads -> 0..Redundancy]
        BY <1>11, <4>1, <4>2 DEF TypeOK, GetMiss, Return
      <4>5. polled' \in [Threads -> Seq(Ids)] /\ told' \in [Threads -> Seq(Ids)]
        <5>1. \/ UNCHANGED <<polled, told>>
              \/ /\ polled' = [polled EXCEPT ![t] = << >>]
                 /\ told' = [told EXCEPT ![t] = << >>]
          BY <1>11 DEF GetMiss, Return
        <5>2. polled \in [Threads -> Seq(Ids)] /\ told \in [Threads -> Seq(Ids)]
          BY DEF TypeOK
        <5>3. CASE UNCHANGED <<polled, told>>
          BY <5>2, <5>3
        <5>4. CASE /\ polled' = [polled EXCEPT ![t] = << >>]
                   /\ told' = [told EXCEPT ![t] = << >>]
          BY <4>1, <5>2, <5>4
        <5>. QED
          BY <5>1, <5>3, <5>4
      <4>. QED
        BY <4>3, <4>4, <4>5
    <3>3. \A u \in Threads : pc'[u] \in InHand => curr'[u] \in Linked
      BY <1>11, <2>1 DEF TypeOK, GetMiss, Return, InHand
    <3>. QED
      BY <1>1, <1>2, <1>11, <3>1, <3>2, <3>3 DEF TypeOK, GetMiss
  <2>3. ThreadsInPlace'
    <3>1. CASE r_val[t] > 1 /\ r_val' = [r_val EXCEPT ![t] = @ - 1] /\ UNCHANGED <<pc, arg, lock>>
               /\ curr' = [curr EXCEPT ![t] = next[curr[t]]]
      <4>1. r_val'[t] > 0
        BY <3>1 DEF TypeOK
      <4>2. pc[t] = "visit"
        BY <1>11 DEF GetMiss
      <4>. QED
        BY <1>1, <1>2, <3>1, <4>1, <4>2 DEF ThreadsInPlace, TypeOK
    <3>2. CASE Return(t) /\ UNCHANGED lock
      BY <1>1, <1>2, <1>11, <3>2 DEF ThreadsInPlace, GetMiss, Return, TypeOK
    <3>. QED
      BY <1>11, <3>1, <3>2 DEF GetMiss
  <2>. QED
    BY <1>2, <2>2, <2>3
<1>12. ASSUME NEW h \in Hashes, TpcRefused(t, h) PROVE Inv'
  BY <1>1, <1>2, <1>12 DEF TpcRefused, vars, locals, TypeOK, ThreadsInPlace
<1>13. ASSUME NEW h \in Hashes, TpcStart(t, h) \/ GetStart(t, h) PROVE Inv'
  <2>1. TypeOK'
    <3>1. /\ pc' = [pc EXCEPT ![t] = "primary"] /\ arg' = [arg EXCEPT ![t] = h]
          /\ r_val' = [r_val EXCEPT ![t] = Redundancy]
          /\ op' = [op EXCEPT ![t] = "phase1"] \/ op' = [op EXCEPT ![t] = "get"]
          /\ UNCHANGED <<alive, lock, curr, polled, told>>
      BY <1>13 DEF TpcStart, GetStart
    <3>2. \A u \in Threads : pc'[u] \in InHand => curr'[u] \in Linked
      BY <3>1 DEF TypeOK, InHand
    <3>3. /\ arg' \in [Threads -> Ids \cup Hashes \cup {NULL}]
          /\ r_val' \in [Threads -> 0..Redundancy]
          /\ op' \in [Threads -> {"none", "register", "phase1", "phase2", "get"}]
      <4>1. arg' \in [Threads -> Ids \cup Hashes \cup {NULL}]
        BY <3>1 DEF TypeOK
      <4>2. r_val' \in [Threads -> 0..Redundancy]
        <5>1. Redundancy \in 0..Redundancy
          OBVIOUS
        <5>. QED
          BY <3>1, <5>1 DEF TypeOK
      <4>3. op' \in [Threads -> {"none", "register", "phase1", "phase2", "get"}]
        BY <3>1 DEF TypeOK
      <4>. QED
        BY <4>1, <4>2, <4>3
    <3>4. pc' \in [Threads -> {"idle", "reg_lock", "reg_count", "reg_end", "primary", "pri_lock"} \cup InHand]
      BY <3>1 DEF TypeOK
    <3>. QED
      BY <1>1, <1>2, <3>1, <3>2, <3>3, <3>4 DEF TypeOK
  <2>2. ThreadsInPlace'
    BY <1>1, <1>2, <1>13 DEF ThreadsInPlace, TpcStart, GetStart, TypeOK
  <2>. QED
    BY <1>2, <2>1, <2>2
<1>. QED
  BY <1>5, <1>6, <1>7, <1>8, <1>9, <1>10, <1>11, <1>12, <1>13

\* The unlocked start of a registration (tpcleader.c:46-65).
LEMMA AdmissionKeepsInv ==
  ASSUME Inv, NEW t \in Threads, NEW id \in Ids,
         RegisterRefused(t, id) \/ RegisterAdmitted(t, id)
  PROVE  Inv'
<1>. USE LinkedFacts DEF Inv
<1>1. UNCHANGED <<head, next, prev, follower_count>> /\ Linked' = Linked
  BY DEF RegisterRefused, RegisterAdmitted, list, Linked
<1>2. RingSorted'
  BY <1>1 DEF RingSorted, CyclicSuccessor
<1>3. CountIsExact'
  <2>1. \A u \in Threads : pc'[u] = "reg_count" <=> pc[u] = "reg_count"
    BY DEF RegisterRefused, RegisterAdmitted, TypeOK
  <2>. QED
    BY <1>1, <2>1 DEF CountIsExact, Listed, RegisterRefused, RegisterAdmitted, TypeOK
<1>4. TypeOK'
  <2>1. CASE RegisterRefused(t, id)
    BY <1>1, <2>1 DEF TypeOK, RegisterRefused, locals
  <2>2. CASE RegisterAdmitted(t, id)
    <3>1. \A u \in Threads : pc'[u] \in InHand => curr'[u] \in Linked
      BY <2>2 DEF TypeOK, RegisterAdmitted, InHand
    <3>. QED
      BY <1>1, <2>2, <3>1 DEF TypeOK, RegisterAdmitted
  <2>. QED
    BY <2>1, <2>2
<1>5. ThreadsInPlace'
  <2>1. CASE RegisterRefused(t, id)
    BY <1>1, <2>1 DEF ThreadsInPlace, RegisterRefused, TypeOK, locals
  <2>2. CASE RegisterAdmitted(t, id)
    BY <1>1, <2>2 DEF ThreadsInPlace, RegisterAdmitted, TypeOK, locals
  <2>. QED
    BY <2>1, <2>2
<1>. QED
  BY <1>2, <1>3, <1>4, <1>5

\* Inv is inductive: every handler of the leader preserves it, whatever the
\* other threads do (tpcleader.c:45-271).
THEOREM Invariance == Spec => []Inv
<1>1. Inv /\ [Next]_vars => Inv'
  <2>1. SUFFICES ASSUME Inv, [Next]_vars PROVE Inv'
    OBVIOUS
  <2>2. CASE UNCHANGED vars
    <3>1. UNCHANGED <<alive, head, next, prev, follower_count, lock, pc, op, arg, curr,
                      r_val, polled, told, answer>>
      BY <2>2 DEF vars, list, locals
    <3>. QED
      BY <2>1, <3>1 DEF Inv, TypeOK, RingSorted, CountIsExact, Listed, ThreadsInPlace, Linked, CyclicSuccessor
  <2>3. CASE Next
    <3>1. PICK t \in Threads : Work(t) \/ Request(t)
      BY <2>3 DEF Next
    <3>. QED
      BY <2>1, <3>1, RegisterKeepsInv, WalkKeepsInv, AdmissionKeepsInv DEF Work, Request
  <2>. QED
    BY <2>1, <2>2, <2>3
<1>. QED
  BY <1>1, InvInit, PTL DEF Spec

\* Types are respected and no handler dereferences a NULL follower once it is
\* past its check (tpcleader.c:73-93, 111-132).
THEOREM TypeCorrect == Spec => []TypeOK
BY Invariance, PTL DEF Inv

\* However registrations and walks interleave, the follower list is one cycle
\* sorted by ID, and prev is the inverse of next (tpcleader.c:66-97).
THEOREM RingStaysSorted == Spec => []RingSorted
BY Invariance, PTL DEF Inv

\* follower_count is the number of listed followers, but for the one that a
\* registration is about to count, and a follower answered SUCCESS is listed (tpcleader.c:65-98).
THEOREM CountStaysExact == Spec => []CountIsExact
BY Invariance, PTL DEF Inv

\* follower_lock is held by at most one thread, in the searches and insertions
\* only, and each of them finds the list as it left it (tpcleader.c:66-122).
THEOREM SearchesAreExclusive == Spec => []ThreadsInPlace
BY Invariance, PTL DEF Inv

-----------------------------------------------------------------------------
(* The walks of the two phases *)

\* What a PUT's or a DELETE's two walks have done so far, while the list is
\* exactly full: phase 1 has polled a chain of followers from the primary on,
\* phase 2 has told a beginning of it, and r_val counts what is left.
WalkInPlace(t) ==
  /\ \A i \in DOMAIN polled[t] :
       /\ polled[t][i] \in Linked
       /\ \A h \in Hashes : i = 1 /\ h = arg[t] => polled[t][1] = PrimaryOf(h)
       /\ i > 1 => polled[t][i] = next[polled[t][i - 1]]
       /\ \A j \in DOMAIN polled[t] : polled[t][i] = polled[t][j] => i = j
  /\ IsPrefix(told[t], polled[t])
  /\ pc[t] = "pri_scan" => \A n \in Linked : n < curr[t] => n <= arg[t]
  /\ op[t] = "phase1" =>
       /\ told[t] = << >> /\ Len(polled[t]) + r_val[t] = Redundancy
       /\ pc[t] \in {"primary", "pri_lock", "pri_scan"} => polled[t] = << >>
       /\ pc[t] = "visit" /\ polled[t] # << >> => curr[t] = next[polled[t][Len(polled[t])]]
       /\ \A h \in Hashes : pc[t] = "visit" /\ polled[t] = << >> /\ h = arg[t] => curr[t] = PrimaryOf(h)
       /\ pc[t] = "successor" => polled[t] # << >> /\ curr[t] = polled[t][Len(polled[t])]
  /\ op[t] = "phase2" =>
       /\ Len(polled[t]) = Redundancy /\ Len(told[t]) + r_val[t] = Redundancy
       /\ pc[t] \in {"primary", "pri_lock", "pri_scan"} => told[t] = << >>
       /\ pc[t] = "visit" => curr[t] = polled[t][Len(told[t]) + 1]
       /\ pc[t] = "successor" => told[t] # << >> /\ curr[t] = polled[t][Len(told[t])]

\* A walk starts at a full list, so that one still exactly full has not changed
\* since; outside of walks nobody has been polled.
PhaseInPlace(t) ==
  /\ op[t] \in {"phase1", "phase2"} =>
       /\ Listed >= FollowerCapacity
       /\ pc[t] \in {"primary", "pri_lock", "pri_scan", "visit", "successor"}
       /\ Listed = FollowerCapacity => WalkInPlace(t)
  /\ op[t] \notin {"phase1", "phase2"} => polled[t] = << >> /\ told[t] = << >>

PhaseInv == \A t \in Threads : PhaseInPlace(t)

\* A set of numbers that is not empty has a least one.
LEMMA Least ==
  ASSUME NEW T \in SUBSET Nat, T # {}
  PROVE  \E m \in T : \A k \in T : m <= k
<1>1. PICK m \in T : \A k \in T : ~(<<k, m>> \in OpToRel(<, Nat))
  BY NatLessThanWellFounded, WFMin
<1>2. ASSUME NEW k \in T PROVE ~(k < m)
  <2>1. k \in Nat /\ m \in Nat /\ ~(<<k, m>> \in OpToRel(<, Nat))
    BY <1>1
  <2>. QED
    BY <2>1, Zenon DEF OpToRel
<1>. QED
  BY <1>2

\* The primary of a hash is the lowest ID above it, else the lowest ID
\* (tpcleader.c:106-122).
LEMMA PrimaryIs ==
  ASSUME NEW h \in Nat, NEW p \in Linked,
         \/ p > h /\ \A m \in Linked : m > h => p <= m
         \/ (\A m \in Linked : m <= h) /\ \A m \in Linked : p <= m
  PROVE  PrimaryOf(h) = p
<1>. DEFINE above == {n \in Linked : n > h}
            pool == IF above = {} THEN Linked ELSE above
<1>1. Linked \subseteq Nat
  BY LinkedFacts
<1>2. p \in pool /\ \A m \in pool : p <= m
  <2>1. CASE p > h /\ \A m \in Linked : m > h => p <= m
    BY <1>1, <2>1
  <2>2. CASE (\A m \in Linked : m <= h) /\ \A m \in Linked : p <= m
    <3>1. \A m \in Linked : ~(m > h)
      <4>. SUFFICES ASSUME NEW m \in Linked PROVE ~(m > h)
        OBVIOUS
      <4>1. m \in Nat /\ m <= h
        BY <1>1, <2>2
      <4>. QED
        BY <4>1
    <3>2. above = {}
      BY <3>1
    <3>. QED
      BY <2>2, <3>2
  <2>. QED
    BY <2>1, <2>2
<1>3. pool \subseteq Nat
  BY <1>1
<1>. HIDE DEF pool
<1>4. \A n \in pool : (\A m \in pool : n <= m) => n = p
  BY <1>2, <1>3
<1>5. p = CHOOSE n \in pool : \A m \in pool : n <= m
  BY <1>2, <1>4
<1>. QED
  BY <1>5 DEF PrimaryOf, pool

\* A chain of nexts that comes back to one of its followers has gone round the
\* whole list: the order would rise for ever if the head were not on it, and
\* the lowest follower missing would be next of one that is not.
LEMMA WholeRound ==
  ASSUME RingSorted, NEW s \in Seq(Ids), NEW n \in Nat, n = Len(s), n > 0,
         \A i \in 1..n : s[i] \in Linked, \A i \in 2..n : s[i] = next[s[i - 1]],
         NEW k \in 1..n, next[s[n]] = s[k]
  PROVE  Cardinality(Linked) <= n
<1>. DEFINE P == {s[i] : i \in 1..n}
<1>0. n \in 1..n
  OBVIOUS
<1>1. Linked \subseteq Nat /\ P \subseteq Linked /\ head \in Linked /\ \A m \in Linked : head <= m
  <2>1. Linked # {}
    BY <1>0
  <2>2. head \in Linked /\ \A m \in Linked : head <= m
    BY <2>1 DEF RingSorted
  <2>3. Linked \subseteq Nat
    BY LinkedFacts
  <2>. QED
    BY <2>2, <2>3
<1>2. \A m \in Linked : next[m] \in Linked /\ (m < next[m] \/ next[m] = head)
  <2>. SUFFICES ASSUME NEW m \in Linked PROVE next[m] \in Linked /\ (m < next[m] \/ next[m] = head)
    OBVIOUS
  <2>1. next[m] \in Linked /\ CyclicSuccessor(Linked, m, next[m])
    BY DEF RingSorted
  <2>2. CASE \A c \in Linked : next[m] <= c
    <3>1. next[m] <= head /\ head <= next[m] /\ head \in Nat /\ next[m] \in Nat
      BY <1>1, <2>1, <2>2
    <3>2. next[m] = head
      BY <3>1
    <3>. QED
      BY <2>1, <3>2
  <2>. QED
    BY <2>1, <2>2 DEF CyclicSuccessor
<1>3. \A i \in 1..n : \E j \in 1..n : next[s[i]] = s[j]
  <2>. SUFFICES ASSUME NEW i \in 1..n PROVE \E j \in 1..n : next[s[i]] = s[j]
    OBVIOUS
  <2>1. CASE i = n
    BY <2>1
  <2>2. CASE i # n
    <3>1. i + 1 \in 2..n /\ i + 1 \in 1..n /\ (i + 1) - 1 = i
      BY <2>2
    <3>. QED
      BY <3>1
  <2>. QED
    BY <2>1, <2>2
<1>4. head \in P
  <2>. SUFFICES ASSUME head \notin P PROVE FALSE
    OBVIOUS
  <2>1. \A i \in 1..n : s[i] \in Nat /\ next[s[i]] \in P /\ s[i] < next[s[i]]
    <3>. SUFFICES ASSUME NEW i \in 1..n PROVE s[i] \in Nat /\ next[s[i]] \in P /\ s[i] < next[s[i]]
      OBVIOUS
    <3>1. next[s[i]] \in P
      BY <1>3
    <3>2. s[i] \in Linked
      OBVIOUS
    <3>. QED
      BY <1>1, <1>2, <3>1, <3>2
  <2>. DEFINE D == {i \in k..n : s[i] < s[k]}
  <2>2. n \in D
    BY <2>1
  <2>3. D \in SUBSET Nat /\ D # {}
    BY <2>2
  <2>4. PICK i \in D : \A j \in D : i <= j
    BY <2>3, Least
  <2>5. i \in 1..n /\ k \in 1..n /\ i # k /\ i > k
    BY <2>1, <2>4
  <2>6. i - 1 \in k..n /\ i - 1 \in 1..n /\ i \in 2..n /\ ~(i <= i - 1)
    BY <2>5
  <2>7. i - 1 \notin D
    BY <2>4, <2>6
  <2>8. s[i] = next[s[i - 1]] /\ s[i - 1] < s[i] /\ s[i - 1] \in Nat /\ s[i] \in Nat /\ s[k] \in Nat
    BY <2>1, <2>5, <2>6
  <2>. QED
    BY <2>4, <2>6, <2>7, <2>8
<1>5. Linked \subseteq P
  <2>. SUFFICES ASSUME Linked \ P # {} PROVE FALSE
    OBVIOUS
  <2>1. (Linked \ P) \in SUBSET Nat
    BY <1>1
  <2>2. PICK x \in Linked \ P : \A y \in Linked \ P : x <= y
    BY <2>1, Least
  <2>3. prev[x] \in Linked /\ next[prev[x]] = x /\ x # head
    BY <1>4, <2>2 DEF RingSorted
  <2>4. prev[x] < x /\ prev[x] \in Nat /\ x \in Nat
    BY <1>1, <1>2, <2>2, <2>3
  <2>5. prev[x] \in P
    BY <2>2, <2>3, <2>4
  <2>. QED
    BY <1>3, <2>2, <2>3, <2>5
<1>6. s \in Surjection(1..n, Linked)
  <2>1. s \in [1..n -> Linked]
    BY <1>1
  <2>2. \A x \in Linked : \E i \in 1..n : s[i] = x
    BY <1>5
  <2>. QED
    BY <2>1, <2>2 DEF Surjection
<1>. QED
  BY <1>6, FS_SurjCardinalityBound DEF ExistsSurjection

\* The locals of thread u are left alone.
Still(u) ==
  /\ pc'[u] = pc[u] /\ op'[u] = op[u] /\ arg'[u] = arg[u] /\ curr'[u] = curr[u]
  /\ r_val'[u] = r_val[u] /\ polled'[u] = polled[u] /\ told'[u] = told[u]

\* A thread that waits keeps its place while others move: an insertion takes
\* the list beyond its capacity if any walk is under way.
LEMMA StillKeepsPhase ==
  ASSUME Inv, PhaseInv, NEW u \in Threads, Still(u),
         UNCHANGED next \/ Listed' = Listed + 1
  PROVE  PhaseInPlace(u)'
<1>1. PhaseInPlace(u) /\ Listed \in Nat /\ FollowerCapacity \in Nat
  BY RingAssumption, LinkedFacts, FS_CardinalityType DEF PhaseInv, Listed
<1>2. CASE Listed' = Listed + 1
  <2>1. op[u] \in {"phase1", "phase2"} => Listed' > FollowerCapacity
    BY <1>1, <1>2 DEF PhaseInPlace
  <2>. QED
    BY <1>1, <1>2, <2>1 DEF PhaseInPlace, Still
<1>3. CASE UNCHANGED next
  <2>1. Linked' = Linked /\ Listed' = Listed
    BY <1>3 DEF Linked, Listed
  <2>2. \A h : PrimaryOf(h)' = PrimaryOf(h)
    BY <2>1 DEF PrimaryOf
  <2>3. WalkInPlace(u) => WalkInPlace(u)'
    BY <1>3, <2>1, <2>2 DEF WalkInPlace, Still, IsPrefix
  <2>. QED
    BY <1>1, <2>1, <2>3 DEF PhaseInPlace, Still
<1>. QED
  BY <1>2, <1>3

\* A registration is no walk: it has polled nobody (tpcleader.c:45-99).
LEMMA RegisterKeepsPhase ==
  ASSUME Inv, PhaseInv, NEW t \in Threads, RegisterLock(t) \/ RegisterScan(t) \/ RegisterCount(t) \/ RegisterEnd(t)
  PROVE  PhaseInv'
<1>1. TypeOK /\ PhaseInPlace(t) /\ pc[t] \in {"reg_lock", "reg_scan", "reg_count", "reg_end"}
  BY DEF Inv, PhaseInv, RegisterLock, RegisterScan, RegisterCount, RegisterEnd
<1>2. op[t] \notin {"phase1", "phase2"} /\ polled[t] = << >> /\ told[t] = << >>
  BY <1>1 DEF PhaseInPlace
<1>3. UNCHANGED next \/ Listed' = Listed + 1
  <2>1. CountIsExact /\ CountIsExact' /\ ThreadsInPlace /\ NULL \notin Threads
    BY RegisterKeepsInv, RingAssumption DEF Inv
  <2>2. CASE ~UNCHANGED next
    <3>1. /\ UNCHANGED follower_count /\ pc'[t] = "reg_count"
          /\ RegisterLock(t) \/ RegisterScan(t)
      BY <1>1, <2>2 DEF RegisterLock, RegisterScan, RegisterCount, RegisterEnd, list, TypeOK
    <3>2. \A u \in Threads : pc[u] # "reg_count"
      BY <2>1, <3>1 DEF RegisterLock, RegisterScan, ThreadsInPlace
    <3>. QED
      BY <1>1, <2>1, <3>1, <3>2 DEF CountIsExact, TypeOK
  <2>. QED
    BY <2>2
<1>4. op'[t] \notin {"phase1", "phase2"} /\ polled'[t] = << >> /\ told'[t] = << >>
  BY <1>1, <1>2 DEF RegisterLock, RegisterScan, RegisterCount, RegisterEnd, Return, locals, TypeOK
<1>5. ASSUME NEW u \in Threads PROVE PhaseInPlace(u)'
  <2>1. CASE u = t
    BY <1>4, <2>1 DEF PhaseInPlace
  <2>2. CASE u # t
    <3>1. Still(u)
      BY <1>1, <2>2 DEF RegisterLock, RegisterScan, RegisterCount, RegisterEnd, Return, locals, TypeOK, Still
    <3>. QED
      BY <1>3, <3>1, StillKeepsPhase
  <2>. QED
    BY <2>1, <2>2
<1>. QED
  BY <1>5 DEF PhaseInv

\* Requests find an idle thread, which has polled nobody; a walk starts only on
\* a list that is exactly full (tpcleader.c:45-65, 139-188).
LEMMA RequestKeepsPhase ==
  ASSUME Inv, PhaseInv, NEW t \in Threads, Request(t)
  PROVE  PhaseInv'
<1>1. TypeOK /\ PhaseInPlace(t) /\ pc[t] = "idle" /\ UNCHANGED next
  BY DEF Inv, PhaseInv, Request, RegisterRefused, RegisterAdmitted, TpcRefused, TpcStart, GetStart, list, vars
<1>2. op[t] \notin {"phase1", "phase2"} /\ polled[t] = << >> /\ told[t] = << >>
  BY <1>1 DEF PhaseInPlace
<1>3. polled' = polled /\ told' = told
  BY DEF Request, RegisterRefused, RegisterAdmitted, TpcRefused, TpcStart, GetStart, locals, vars
<1>4. ASSUME NEW u \in Threads, u # t PROVE PhaseInPlace(u)'
  <2>1. Still(u)
    BY <1>1, <1>4 DEF Request, RegisterRefused, RegisterAdmitted, TpcRefused, TpcStart, GetStart, locals, vars,
                      TypeOK, Still
  <2>. QED
    BY <1>1, <2>1, StillKeepsPhase
<1>5. CASE op'[t] \notin {"phase1", "phase2"}
  BY <1>2, <1>3, <1>4, <1>5 DEF PhaseInv, PhaseInPlace
<1>6. CASE op'[t] \in {"phase1", "phase2"}
  <2>1. \E h \in Hashes : TpcStart(t, h)
    BY <1>1, <1>2, <1>6 DEF Request, RegisterRefused, RegisterAdmitted, TpcRefused, GetStart, locals, vars, TypeOK
  <2>2. /\ pc'[t] = "primary" /\ op'[t] = "phase1" /\ r_val'[t] = Redundancy
        /\ Listed' >= FollowerCapacity
    <3>1. pc'[t] = "primary" /\ op'[t] = "phase1" /\ r_val'[t] = Redundancy
      BY <1>1, <2>1 DEF TpcStart, TypeOK
    <3>2. follower_count = FollowerCapacity /\ FollowerCapacity \in Nat /\ CountIsExact
      BY <2>1, RingAssumption DEF TpcStart, Inv
    <3>3. Listed' = Listed /\ Listed >= FollowerCapacity
      BY <1>1, <3>2 DEF CountIsExact, Listed, Linked
    <3>. QED
      BY <3>1, <3>3
  <2>3. polled'[t] = << >> /\ told'[t] = << >> /\ Len(<< >>) = 0
    BY <1>2, <1>3
  <2>4. WalkInPlace(t)'
    BY <2>2, <2>3, LinkedFacts DEF WalkInPlace, IsPrefix
  <2>5. PhaseInPlace(t)'
    BY <2>2, <2>4, RingAssumption DEF PhaseInPlace
  <2>. QED
    BY <1>4, <2>5 DEF PhaseInv
<1>. QED
  BY <1>5, <1>6

WalkStep(t) ==
  \/ PrimaryCheck(t) \/ PrimaryLock(t) \/ PrimaryScan(t)
  \/ Visit(t) \/ Successor(t) \/ GetHit(t) \/ GetMiss(t)

\* A walk's step leaves the list and the other threads alone: what it says of
\* the list is as it was (tpcleader.c:106-133, 139-271).
LEMMA WalkFrame ==
  ASSUME Inv, PhaseInv, NEW t \in Threads, WalkStep(t)
  PROVE  /\ UNCHANGED <<head, next, prev, follower_count>> /\ Linked' = Linked /\ Listed' = Listed
         /\ \A h : PrimaryOf(h)' = PrimaryOf(h)
         /\ \A u \in Threads \ {t} : PhaseInPlace(u)'
<1>1. UNCHANGED <<head, next, prev, follower_count>>
  BY DEF WalkStep, PrimaryCheck, PrimaryLock, PrimaryScan, Visit, Successor, GetHit, GetMiss, list
<1>2. Linked' = Linked /\ Listed' = Listed
  BY <1>1 DEF Linked, Listed
<1>3. \A h : PrimaryOf(h)' = PrimaryOf(h)
  BY <1>2 DEF PrimaryOf
<1>4. ASSUME NEW u \in Threads \ {t} PROVE PhaseInPlace(u)'
  <2>1. TypeOK
    BY DEF Inv
  <2>2. Still(u)
    BY <1>4, <2>1 DEF WalkStep, PrimaryCheck, PrimaryLock, PrimaryScan, Visit, Successor, GetHit, GetMiss, Return,
                      locals, TypeOK, Still
  <2>. QED
    BY <1>1, <2>2, StillKeepsPhase
<1>. QED
  BY <1>1, <1>2, <1>3, <1>4

\* The search for the primary finds it, in either phase (tpcleader.c:106-122).
LEMMA SearchKeepsPhase ==
  ASSUME Inv, PhaseInv, NEW t \in Threads, PrimaryCheck(t) \/ PrimaryLock(t) \/ PrimaryScan(t)
  PROVE  PhaseInPlace(t)'
<1>1. /\ UNCHANGED <<head, next, prev>> /\ Linked' = Linked /\ Listed' = Listed
      /\ \A h : PrimaryOf(h)' = PrimaryOf(h)
  BY WalkFrame DEF WalkStep
<1>2. TypeOK /\ PhaseInPlace(t) /\ RingSorted /\ ThreadsInPlace
  BY DEF Inv, PhaseInv
<1>3. UNCHANGED <<op, arg, r_val, polled, told>>
  BY DEF PrimaryCheck, PrimaryLock, PrimaryScan, locals
<1>4. CASE op[t] \notin {"phase1", "phase2"}
  BY <1>2, <1>3, <1>4 DEF PhaseInPlace
<1>5. CASE op[t] \in {"phase1", "phase2"} /\ Listed # FollowerCapacity
  <2>1. pc'[t] \in {"primary", "pri_lock", "pri_scan", "visit", "successor"}
    BY <1>2 DEF PrimaryCheck, PrimaryLock, PrimaryScan, TypeOK
  <2>. QED
    BY <1>1, <1>2, <1>3, <1>5, <2>1 DEF PhaseInPlace
<1>6. CASE op[t] \in {"phase1", "phase2"} /\ Listed = FollowerCapacity
  <2>1. WalkInPlace(t) /\ pc[t] \in {"primary", "pri_lock", "pri_scan"}
    BY <1>2, <1>6 DEF PhaseInPlace, PrimaryCheck, PrimaryLock, PrimaryScan
  <2>2. pc'[t] \in {"primary", "pri_lock", "pri_scan", "visit"}
    BY <1>2, <2>1 DEF PrimaryCheck, PrimaryLock, PrimaryScan, TypeOK
  <2>3. /\ op[t] = "phase1" => polled[t] = << >> /\ told[t] = << >> /\ Len(polled[t]) + r_val[t] = Redundancy
        /\ op[t] = "phase2" => told[t] = << >> /\ Len(polled[t]) = Redundancy /\ Len(told[t]) + r_val[t] = Redundancy
    BY <2>1 DEF WalkInPlace
  <2>4. pc'[t] = "pri_scan" => \A n \in Linked : n < curr'[t] => n <= arg[t]
    <3>. SUFFICES ASSUME pc'[t] = "pri_scan", NEW n \in Linked, n < curr'[t] PROVE n <= arg[t]
      OBVIOUS
    <3>1. CASE PrimaryCheck(t)
      BY <1>2, <3>1 DEF PrimaryCheck, TypeOK
    <3>2. CASE PrimaryLock(t)
      <4>1. curr'[t] = head /\ head \in Linked /\ head <= n
        BY <1>2, <3>2 DEF PrimaryLock, TypeOK, RingSorted
      <4>. QED
        BY <4>1, LinkedFacts
    <3>3. CASE PrimaryScan(t)
      <4>1. /\ curr[t] <= arg[t] /\ next[curr[t]] # head /\ curr'[t] = next[curr[t]]
            /\ curr[t] \in Linked /\ arg[t] \in Hashes
        BY <1>2, <3>3 DEF PrimaryScan, TypeOK, InHand, ThreadsInPlace
      <4>2. next[curr[t]] \in Linked /\ CyclicSuccessor(Linked, curr[t], next[curr[t]])
        BY <1>2, <4>1 DEF RingSorted
      <4>3. ~(\A c \in Linked : next[curr[t]] <= c)
        <5>1. head \in Linked /\ head <= next[curr[t]]
          BY <1>2, <4>2 DEF RingSorted
        <5>2. head \in Nat /\ next[curr[t]] \in Nat
          BY <4>2, <5>1, LinkedFacts
        <5>3. ~(next[curr[t]] <= head)
          BY <4>1, <5>1, <5>2
        <5>. QED
          BY <5>1, <5>3
      <4>4. ~(curr[t] < n /\ n < next[curr[t]])
        BY <4>2, <4>3 DEF CyclicSuccessor
      <4>5. arg[t] \in Nat /\ n \in Nat /\ curr[t] \in Nat /\ next[curr[t]] \in Nat
        BY <4>1, <4>2, LinkedFacts, RingAssumption
      <4>. QED
        BY <4>1, <4>4, <4>5
    <3>. QED
      BY <3>1, <3>2, <3>3
  <2>5. \A h \in Hashes : pc'[t] = "visit" /\ h = arg[t] => curr'[t] = PrimaryOf(h)
    <3>. SUFFICES ASSUME NEW h \in Hashes, pc'[t] = "visit", h = arg[t] PROVE curr'[t] = PrimaryOf(h)
      OBVIOUS
    <3>1. PrimaryScan(t) /\ pc[t] = "pri_scan" /\ curr[t] \in Linked
      BY <1>2 DEF PrimaryCheck, PrimaryLock, PrimaryScan, TypeOK, InHand
    <3>2. h \in Nat /\ Linked \subseteq Nat
      BY LinkedFacts, RingAssumption
    <3>3. CASE curr[t] > arg[t]
      <4>0. curr[t] \in Nat /\ ~(curr[t] <= arg[t])
        <5>1. curr[t] \in Nat /\ curr[t] > h
          BY <3>1, <3>2, <3>3
        <5>2. ~(curr[t] <= h)
          BY <3>2, <5>1
        <5>. QED
          BY <5>1, <5>2
      <4>1. curr'[t] = curr[t]
        BY <1>2, <3>1, <4>0 DEF PrimaryScan, TypeOK
      <4>2. \A m \in Linked : m < curr[t] => m <= h
        BY <2>1, <3>1 DEF WalkInPlace
      <4>3. \A m \in Linked : m > h => curr[t] <= m
        <5>. SUFFICES ASSUME NEW m \in Linked, m > h PROVE curr[t] <= m
          OBVIOUS
        <5>1. m \in Nat /\ (m < curr[t] => m <= h)
          BY <3>2, <4>2
        <5>. QED
          BY <3>2, <4>0, <5>1
      <4>. QED
        BY <3>1, <3>2, <3>3, <4>1, <4>3, PrimaryIs
    <3>4. CASE ~(curr[t] > arg[t])
      <4>1. curr'[t] = head /\ next[curr[t]] = head /\ curr[t] <= h
        BY <1>2, <3>1, <3>2, <3>4 DEF PrimaryScan, TypeOK
      <4>2. head \in Linked /\ \A m \in Linked : head <= m
        BY <1>2, <3>1 DEF RingSorted
      <4>3. CyclicSuccessor(Linked, curr[t], head)
        BY <1>2, <3>1, <4>1 DEF RingSorted
      <4>4. \A c \in Linked : c <= curr[t]
        <5>1. head <= curr[t] /\ head \in Nat /\ curr[t] \in Nat
          BY <3>1, <3>2, <4>2
        <5>2. ~(curr[t] < head)
          BY <5>1
        <5>. QED
          BY <4>3, <5>2 DEF CyclicSuccessor
      <4>5. \A m \in Linked : m <= h
        <5>. SUFFICES ASSUME NEW m \in Linked PROVE m <= h
          OBVIOUS
        <5>1. m \in Nat /\ curr[t] \in Nat /\ m <= curr[t]
          BY <3>1, <3>2, <4>4
        <5>. QED
          BY <3>2, <4>1, <5>1
      <4>. QED
        BY <3>2, <4>1, <4>2, <4>5, PrimaryIs
    <3>. QED
      BY <3>3, <3>4
  <2>6. op[t] = "phase2" /\ pc'[t] = "visit" => curr'[t] = polled[t][Len(told[t]) + 1]
    <3>. SUFFICES ASSUME op[t] = "phase2", pc'[t] = "visit" PROVE curr'[t] = polled[t][Len(told[t]) + 1]
      OBVIOUS
    <3>1. Len(told[t]) + 1 = 1 /\ 1 \in DOMAIN polled[t]
      BY <1>2, <2>3, LinkedFacts DEF TypeOK
    <3>2. PICK h \in Hashes : h = arg[t]
      BY <1>2, <2>1 DEF ThreadsInPlace
    <3>3. polled[t][1] = PrimaryOf(h)
      BY <2>1, <3>1, <3>2 DEF WalkInPlace
    <3>. QED
      BY <2>5, <3>1, <3>2, <3>3
  <2>7. WalkInPlace(t)'
    BY <1>1, <1>3, <2>1, <2>2, <2>3, <2>4, <2>5, <2>6 DEF WalkInPlace, IsPrefix
  <2>. QED
    BY <1>1, <1>2, <1>3, <1>6, <2>2, <2>7 DEF PhaseInPlace
<1>. QED
  BY <1>4, <1>5, <1>6

\* A chain of fewer followers than the list has never comes back to itself:
\* the follower that phase 1 visits next has not been polled yet
\* (tpcleader.c:124-133, 196-217).
LEMMA NextIsNew ==
  ASSUME RingSorted, FollowerCapacity = Listed,
         NEW s \in Seq(Ids), Len(s) < Redundancy, s # << >>,
         \A i \in 1..Len(s) : s[i] \in Linked, \A i \in 1..Len(s) : i > 1 => s[i] = next[s[i - 1]]
  PROVE  \A k \in 1..Len(s) : s[k] # next[s[Len(s)]]
<1>. SUFFICES ASSUME NEW k \in 1..Len(s), s[k] = next[s[Len(s)]] PROVE FALSE
  OBVIOUS
<1>. DEFINE n == Len(s)
<1>1. n \in Nat /\ n > 0
  OBVIOUS
<1>2. \A i \in 2..n : s[i] = next[s[i - 1]]
  BY <1>1
<1>3. Cardinality(Linked) <= n
  BY <1>1, <1>2, WholeRound
<1>4. Redundancy <= FollowerCapacity /\ Redundancy \in Nat /\ FollowerCapacity \in Nat
  BY RingAssumption DEF Redundancy
<1>. QED
  BY <1>1, <1>3, <1>4 DEF Listed

\* A visit of phase 1 polls the follower in hand, one of phase 2 tells the
\* follower that was polled at the same turn (tpcleader.c:196-262).
LEMMA VisitKeepsPhase ==
  ASSUME Inv, PhaseInv, NEW t \in Threads, Visit(t)
  PROVE  PhaseInPlace(t)'
<1>1. /\ UNCHANGED <<head, next, prev>> /\ Linked' = Linked /\ Listed' = Listed
      /\ \A h : PrimaryOf(h)' = PrimaryOf(h)
  BY WalkFrame DEF WalkStep
<1>2. TypeOK /\ PhaseInPlace(t) /\ RingSorted /\ ThreadsInPlace /\ CountIsExact
  BY DEF Inv, PhaseInv
<1>3. /\ UNCHANGED <<op, arg, curr>> /\ op[t] \in {"phase1", "phase2"} /\ pc[t] = "visit" /\ pc'[t] = "successor"
      /\ r_val'[t] = r_val[t] - 1 /\ r_val[t] \in Nat /\ r_val[t] > 0
      /\ curr[t] \in Linked /\ curr[t] \in Ids /\ polled[t] \in Seq(Ids) /\ told[t] \in Seq(Ids)
  <2>1. /\ UNCHANGED <<op, arg, curr>> /\ op[t] \in {"phase1", "phase2"} /\ pc[t] = "visit" /\ pc'[t] = "successor"
        /\ r_val'[t] = r_val[t] - 1
    BY <1>2 DEF Visit, TypeOK
  <2>2. r_val[t] \in 0..Redundancy /\ r_val[t] > 0
    BY <1>2, <2>1 DEF TypeOK, ThreadsInPlace
  <2>3. r_val[t] \in Nat
    BY <2>2
  <2>4. curr[t] \in Linked /\ polled[t] \in Seq(Ids) /\ told[t] \in Seq(Ids)
    BY <1>2, <2>1 DEF TypeOK, InHand
  <2>5. curr[t] \in Ids
    BY <2>4, LinkedFacts
  <2>. QED
    BY <2>1, <2>2, <2>3, <2>4, <2>5
<1>4. CASE Listed # FollowerCapacity
  BY <1>1, <1>2, <1>3, <1>4 DEF PhaseInPlace
<1>5. CASE Listed = FollowerCapacity /\ op[t] = "phase1"
  <2>. DEFINE s == polled[t]
              n == Len(polled[t])
  <2>1. WalkInPlace(t)
    BY <1>2, <1>5 DEF PhaseInPlace
  <2>2. polled'[t] = Append(s, curr[t]) /\ told'[t] = told[t]
    BY <1>2, <1>5 DEF Visit, TypeOK
  <2>3. n \in Nat /\ n + r_val[t] = Redundancy /\ told[t] = << >>
    BY <1>3, <1>5, <2>1 DEF WalkInPlace
  <2>4. n < Redundancy /\ Redundancy \in Nat
    BY <1>3, <2>3, LinkedFacts
  <2>5. \A i \in 1..n : s[i] \in Linked /\ (i > 1 => s[i] = next[s[i - 1]])
    <3>1. DOMAIN s = 1..n
      BY <1>3
    <3>. QED
      BY <2>1, <3>1 DEF WalkInPlace
  <2>6. \A i \in 1..n : s[i] # curr[t]
    <3>1. CASE s = << >>
      BY <3>1
    <3>2. CASE s # << >>
      <4>1. curr[t] = next[s[n]]
        BY <1>3, <1>5, <2>1, <3>2 DEF WalkInPlace
      <4>. QED
        BY <1>2, <1>3, <1>5, <2>4, <2>5, <3>2, <4>1, NextIsNew
    <3>. QED
      BY <3>1, <3>2
  <2>. DEFINE q == Append(s, curr[t])
  <2>7. /\ q \in Seq(Ids) /\ Len(q) = n + 1 /\ q[n + 1] = curr[t] /\ DOMAIN q = 1..(n + 1)
        /\ \A i \in 1..n : q[i] = s[i]
    BY <1>3, <2>3
  <2>8. ASSUME NEW i \in 1..(n + 1)
        PROVE  /\ q[i] \in Linked
               /\ \A h \in Hashes : i = 1 /\ h = arg[t] => q[1] = PrimaryOf(h)
               /\ i > 1 => q[i] = next[q[i - 1]]
               /\ \A j \in 1..(n + 1) : q[i] = q[j] => i = j
    <3>. HIDE DEF q
    <3>1. q[i] \in Linked
      BY <1>3, <2>3, <2>5, <2>7
    <3>2. \A h \in Hashes : i = 1 /\ h = arg[t] => q[1] = PrimaryOf(h)
      <4>. SUFFICES ASSUME NEW h \in Hashes, h = arg[t] PROVE q[1] = PrimaryOf(h)
        OBVIOUS
      <4>1. CASE n = 0
        <5>1. s = << >> /\ q[1] = curr[t]
          BY <1>3, <2>7, <4>1
        <5>. QED
          BY <1>3, <1>5, <2>1, <5>1 DEF WalkInPlace
      <4>2. CASE n # 0
        <5>1. 1 \in 1..n /\ 1 \in DOMAIN s /\ q[1] = s[1]
          BY <1>3, <2>3, <2>7, <4>2
        <5>. QED
          BY <2>1, <5>1 DEF WalkInPlace
      <4>. QED
        BY <4>1, <4>2
    <3>3. i > 1 => q[i] = next[q[i - 1]]
      <4>. SUFFICES ASSUME i > 1 PROVE q[i] = next[q[i - 1]]
        OBVIOUS
      <4>1. i - 1 \in 1..n /\ q[i - 1] = s[i - 1]
        BY <2>3, <2>7
      <4>2. CASE i = n + 1
        <5>1. s # << >> /\ i - 1 = n
          BY <1>3, <2>3, <4>2
        <5>2. curr[t] = next[s[n]]
          BY <1>3, <1>5, <2>1, <5>1 DEF WalkInPlace
        <5>. QED
          BY <2>7, <4>1, <4>2, <5>1, <5>2
      <4>3. CASE i # n + 1
        <5>1. i \in 1..n
          BY <2>3, <4>3
        <5>. QED
          BY <2>5, <2>7, <4>1, <5>1
      <4>. QED
        BY <4>2, <4>3
    <3>4. ASSUME NEW j \in 1..(n + 1), q[i] = q[j] PROVE i = j
      <4>1. CASE i \in 1..n /\ j \in 1..n
        <5>1. i \in DOMAIN s /\ j \in DOMAIN s /\ s[i] = s[j]
          BY <1>3, <2>7, <3>4, <4>1
        <5>. QED
          BY <2>1, <5>1 DEF WalkInPlace
      <4>2. CASE i = n + 1 /\ j \in 1..n
        BY <2>6, <2>7, <3>4, <4>2
      <4>3. CASE i \in 1..n /\ j = n + 1
        BY <2>6, <2>7, <3>4, <4>3
      <4>. QED
        BY <2>3, <4>1, <4>2, <4>3
    <3>. QED
      BY <3>1, <3>2, <3>3, <3>4
  <2>9. (n + 1) + (r_val[t] - 1) = Redundancy
    BY <1>3, <2>3
  <2>10. q # << >> /\ Len(<< >>) = 0 /\ q[Len(q)] = curr[t]
    BY <2>3, <2>7
  <2>11. polled'[t] = q
    BY <2>2
  <2>. HIDE DEF q, n, s
  <2>12. WalkInPlace(t)'
    BY <1>1, <1>3, <1>5, <2>2, <2>3, <2>7, <2>8, <2>9, <2>10, <2>11 DEF WalkInPlace, IsPrefix
  <2>. QED
    BY <1>1, <1>2, <1>3, <1>5, <2>12 DEF PhaseInPlace
<1>6. CASE Listed = FollowerCapacity /\ op[t] = "phase2"
  <2>. DEFINE n == Len(told[t])
              q == Append(told[t], curr[t])
  <2>1. WalkInPlace(t)
    BY <1>2, <1>6 DEF PhaseInPlace
  <2>2. told'[t] = q /\ polled'[t] = polled[t]
    BY <1>2, <1>6 DEF Visit, TypeOK
  <2>3. /\ n \in Nat /\ n + r_val[t] = Redundancy /\ Len(polled[t]) = Redundancy /\ curr[t] = polled[t][n + 1]
        /\ n <= Len(polled[t]) /\ \A i \in 1..n : told[t][i] = polled[t][i]
    BY <1>3, <1>6, <2>1 DEF WalkInPlace, IsPrefix
  <2>4. q \in Seq(Ids) /\ Len(q) = n + 1 /\ q[n + 1] = curr[t] /\ \A i \in 1..n : q[i] = told[t][i]
    BY <1>3
  <2>. HIDE DEF n, q
  <2>5. n + 1 <= Redundancy /\ (n + 1) + (r_val[t] - 1) = Redundancy /\ Redundancy \in Nat
    <3>1. Redundancy \in Nat
      BY LinkedFacts
    <3>2. PICK r \in Nat : r = r_val[t] /\ r > 0 /\ n + r = Redundancy
      BY <1>3, <2>3
    <3>. QED
      BY <2>3, <3>1, <3>2
  <2>6. \A i \in 1..(n + 1) : q[i] = polled[t][i]
    BY <2>3, <2>4
  <2>7. q # << >>
    BY <2>3, <2>4
  <2>8. \A i \in DOMAIN polled[t] :
          /\ polled[t][i] \in Linked
          /\ \A h \in Hashes : i = 1 /\ h = arg[t] => polled[t][1] = PrimaryOf(h)
          /\ i > 1 => polled[t][i] = next[polled[t][i - 1]]
          /\ \A j \in DOMAIN polled[t] : polled[t][i] = polled[t][j] => i = j
    BY <2>1 DEF WalkInPlace
  <2>9. IsPrefix(told[t], polled[t])'
    BY <2>2, <2>3, <2>4, <2>5, <2>6 DEF IsPrefix
  <2>10. polled[t][Len(q)] = curr[t] /\ Len(q) + r_val'[t] = Redundancy
    BY <1>3, <2>3, <2>4, <2>5
  <2>11. WalkInPlace(t)'
    BY <1>1, <1>3, <1>6, <2>2, <2>3, <2>7, <2>8, <2>9, <2>10 DEF WalkInPlace
  <2>. QED
    BY <1>1, <1>2, <1>3, <1>6, <2>11 DEF PhaseInPlace
<1>. QED
  BY <1>3, <1>4, <1>5, <1>6

\* The successor of the follower that was polled at one turn is the one polled
\* at the next; between the phases the search starts again (tpcleader.c:124-133,
\* 215-222, 258-262).
LEMMA SuccessorKeepsPhase ==
  ASSUME Inv, PhaseInv, NEW t \in Threads, Successor(t)
  PROVE  PhaseInPlace(t)'
<1>1. /\ UNCHANGED <<head, next, prev>> /\ Linked' = Linked /\ Listed' = Listed
      /\ \A h : PrimaryOf(h)' = PrimaryOf(h)
  BY WalkFrame DEF WalkStep
<1>2. TypeOK /\ PhaseInPlace(t) /\ pc[t] = "successor" /\ polled[t] \in Seq(Ids) /\ told[t] \in Seq(Ids)
  BY DEF Inv, PhaseInv, Successor, TypeOK
<1>3. CASE op'[t] \notin {"phase1", "phase2"}
  <2>1. polled'[t] = << >> /\ told'[t] = << >>
    BY <1>2, <1>3 DEF Successor, Return, TypeOK, PhaseInPlace
  <2>. QED
    BY <1>3, <2>1 DEF PhaseInPlace
<1>4. CASE op'[t] \in {"phase1", "phase2"}
  <2>1. UNCHANGED <<arg, polled, told>> /\ curr'[t] = next[curr[t]]
    BY <1>2, <1>4 DEF Successor, Return, TypeOK
  <2>2. \/ r_val[t] > 0 /\ pc'[t] = "visit" /\ op'[t] = op[t] /\ r_val'[t] = r_val[t]
        \/ /\ r_val[t] = 0 /\ op[t] = "phase1" /\ pc'[t] = "primary" /\ op'[t] = "phase2"
           /\ r_val'[t] = Redundancy
    BY <1>2, <1>4 DEF Successor, Return, TypeOK
  <2>3. op[t] \in {"phase1", "phase2"} /\ Listed >= FollowerCapacity
    BY <1>2, <1>4, <2>2 DEF PhaseInPlace
  <2>4. SUFFICES ASSUME Listed = FollowerCapacity PROVE WalkInPlace(t)'
    BY <1>1, <2>2, <2>3 DEF PhaseInPlace
  <2>5. WalkInPlace(t)
    BY <1>2, <2>3, <2>4 DEF PhaseInPlace
  <2>6. \A i \in DOMAIN polled[t] :
          /\ polled[t][i] \in Linked
          /\ \A h \in Hashes : i = 1 /\ h = arg[t] => polled[t][1] = PrimaryOf(h)
          /\ i > 1 => polled[t][i] = next[polled[t][i - 1]]
          /\ \A j \in DOMAIN polled[t] : polled[t][i] = polled[t][j] => i = j
    BY <2>5 DEF WalkInPlace
  <2>7. IsPrefix(told[t], polled[t])'
    BY <2>1, <2>5 DEF WalkInPlace, IsPrefix
  <2>8. CASE op[t] = "phase1" /\ op'[t] = "phase1"
    <3>1. /\ told[t] = << >> /\ Len(polled[t]) + r_val[t] = Redundancy
          /\ polled[t] # << >> /\ curr[t] = polled[t][Len(polled[t])]
      BY <1>2, <2>5, <2>8 DEF WalkInPlace
    <3>. QED
      BY <1>1, <2>1, <2>2, <2>6, <2>7, <2>8, <3>1 DEF WalkInPlace
  <2>9. CASE op[t] = "phase1" /\ op'[t] = "phase2"
    <3>1. told[t] = << >> /\ Len(polled[t]) + r_val[t] = Redundancy /\ r_val[t] = 0 /\ r_val'[t] = Redundancy
      BY <2>2, <2>5, <2>9 DEF WalkInPlace
    <3>2. Len(polled[t]) = Redundancy /\ Len(<< >>) + Redundancy = Redundancy
      BY <1>2, <3>1, LinkedFacts
    <3>3. pc'[t] = "primary"
      BY <2>2, <2>9
    <3>. QED
      BY <1>1, <2>1, <2>6, <2>7, <2>9, <3>1, <3>2, <3>3 DEF WalkInPlace
  <2>10. CASE op[t] = "phase2"
    <3>1. /\ Len(polled[t]) = Redundancy /\ Len(told[t]) + r_val[t] = Redundancy
          /\ told[t] # << >> /\ curr[t] = polled[t][Len(told[t])]
      BY <1>2, <2>5, <2>10 DEF WalkInPlace
    <3>2. r_val[t] > 0 /\ pc'[t] = "visit" /\ op'[t] = "phase2" /\ r_val'[t] = r_val[t]
      BY <2>2, <2>10
    <3>3. Len(told[t]) + 1 \in DOMAIN polled[t] /\ Len(told[t]) + 1 > 1 /\ (Len(told[t]) + 1) - 1 = Len(told[t])
      <4>1. PICK r \in Nat, n \in Nat : r = r_val[t] /\ n = Len(told[t]) /\ n > 0 /\ r > 0 /\ n + r = Redundancy
        BY <1>2, <3>1, <3>2 DEF TypeOK
      <4>. QED
        BY <1>2, <3>1, <4>1
    <3>4. curr'[t] = polled[t][Len(told[t]) + 1]
      BY <2>1, <2>6, <3>1, <3>3
    <3>. QED
      BY <1>1, <2>1, <2>6, <2>7, <3>1, <3>2, <3>4 DEF WalkInPlace
  <2>. QED
    BY <1>4, <2>2, <2>3, <2>8, <2>9, <2>10
<1>. QED
  BY <1>3, <1>4

\* A GET polls nobody (tpcleader.c:139-167).
LEMMA GetKeepsPhase ==
  ASSUME Inv, PhaseInv, NEW t \in Threads, GetHit(t) \/ GetMiss(t)
  PROVE  PhaseInPlace(t)'
<1>1. TypeOK /\ PhaseInPlace(t) /\ op[t] = "get"
  BY DEF Inv, PhaseInv, GetHit, GetMiss
<1>2. op'[t] \in {"get", "none"} /\ polled'[t] = << >> /\ told'[t] = << >>
  BY <1>1 DEF GetHit, GetMiss, Return, TypeOK, PhaseInPlace
<1>. QED
  BY <1>2 DEF PhaseInPlace

\* Nobody walks before the first request.
LEMMA PhaseInit == Init => PhaseInv
  BY DEF Init, PhaseInv, PhaseInPlace

\* Every step of the leader keeps the walks in place.
LEMMA PhaseNext == Inv /\ PhaseInv /\ Next => PhaseInv'
<1>. SUFFICES ASSUME Inv, PhaseInv, NEW t \in Threads, Work(t) \/ Request(t) PROVE PhaseInv'
  BY DEF Next
<1>1. CASE RegisterLock(t) \/ RegisterScan(t) \/ RegisterCount(t) \/ RegisterEnd(t)
  BY <1>1, RegisterKeepsPhase
<1>2. CASE Request(t)
  BY <1>2, RequestKeepsPhase
<1>3. CASE WalkStep(t)
  <2>1. PhaseInPlace(t)'
    BY <1>3, SearchKeepsPhase, VisitKeepsPhase, SuccessorKeepsPhase, GetKeepsPhase DEF WalkStep
  <2>. QED
    BY <1>3, <2>1, WalkFrame DEF PhaseInv
<1>. QED
  BY <1>1, <1>2, <1>3 DEF Work, WalkStep

\* So does a step that changes nothing.
LEMMA PhaseStutters == Inv /\ PhaseInv /\ UNCHANGED vars => PhaseInv'
<1>. SUFFICES ASSUME Inv, PhaseInv, UNCHANGED vars, NEW u \in Threads PROVE PhaseInPlace(u)'
  BY DEF PhaseInv
<1>1. Still(u) /\ UNCHANGED next
  BY DEF vars, locals, list, Still
<1>. QED
  BY <1>1, StillKeepsPhase

\* The walks of every PUT and DELETE stay in place, whatever registers or walks
\* meanwhile.
THEOREM PhaseInvariance == Spec => []PhaseInv
<1>1. Inv /\ PhaseInv /\ [Next]_vars => PhaseInv'
  BY PhaseNext, PhaseStutters
<1>. QED
  BY <1>1, PhaseInit, Invariance, PTL DEF Spec

\* While the list is exactly full, every phase 1 starts at the key's primary
\* and polls distinct followers in ring order, for every capacity and every
\* redundancy (tpcleader.c:106-133, 189-217).
THEOREM AlwaysPollsReplicas == Spec => []PollsReplicas
<1>1. Inv /\ PhaseInv => PollsReplicas
  <2>. SUFFICES ASSUME Inv, PhaseInv, Listed = FollowerCapacity, NEW t \in Threads,
                       NEW i \in DOMAIN polled[t]
                PROVE  /\ i = 1 => polled[t][1] = PrimaryOf(arg[t])
                       /\ i > 1 => polled[t][i] = next[polled[t][i - 1]]
                       /\ \A j \in DOMAIN polled[t] : polled[t][i] = polled[t][j] => i = j
    BY DEF PollsReplicas
  <2>1. PhaseInPlace(t) /\ op[t] \in {"phase1", "phase2"}
    BY DEF PhaseInv, PhaseInPlace
  <2>2. PICK h \in Hashes : h = arg[t]
    BY <2>1 DEF Inv, ThreadsInPlace, PhaseInPlace
  <2>. QED
    BY <2>1, <2>2 DEF PhaseInPlace, WalkInPlace
<1>. QED
  BY <1>1, Invariance, PhaseInvariance, PTL

\* While the list is exactly full, phase 2 tells the followers that phase 1
\* polled, in the same order (tpcleader.c:219-262).
THEOREM PhasesAlwaysAgree == Spec => []PhasesAgree
<1>1. PhaseInv => PhasesAgree
  <2>. SUFFICES ASSUME PhaseInv, Listed = FollowerCapacity, NEW t \in Threads
                PROVE  IsPrefix(told[t], polled[t])
    BY DEF PhasesAgree
  <2>1. PhaseInPlace(t)
    BY DEF PhaseInv
  <2>2. CASE op[t] \in {"phase1", "phase2"}
    BY <2>1, <2>2 DEF PhaseInPlace, WalkInPlace
  <2>3. CASE op[t] \notin {"phase1", "phase2"}
    BY <2>1, <2>3 DEF PhaseInPlace, IsPrefix
  <2>. QED
    BY <2>2, <2>3
<1>. QED
  BY <1>1, PhaseInvariance, PTL
=============================================================================
