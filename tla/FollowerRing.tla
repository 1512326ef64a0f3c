---------------------------- MODULE FollowerRing ----------------------------
(***************************************************************************)
(* The leader's list of followers (hw4/src/tpcleader.c): a circular doubly *)
(* linked list sorted by follower ID, filled by REGISTER requests and read *)
(* by the replica walks of GET, PUT and DELETE requests.  Several worker   *)
(* threads of the leader run these handlers at once.                       *)
(*                                                                         *)
(* follower_lock protects the list, but three reads are made without it:   *)
(* the capacity checks that open tpcleader_register, tpcleader_get_primary *)
(* and tpcleader_handle_tpc, and the ->next steps of tpcleader_handle_get. *)
(* Every step below is one such read or one critical-section iteration;    *)
(* follower_count grows a step after the list does.                        *)
(* What a follower answers is left to TPCSystem; here a GET may hit or     *)
(* miss at any follower.                                                   *)
(***************************************************************************)
EXTENDS Naturals, Sequences, FiniteSets

CONSTANTS
  Threads,          \* worker threads of the leader process
  Ids,              \* follower IDs (strhash64 of "port:host")
  Hashes,           \* strhash64 of the keys that requests address
  FollowerCapacity, \* leader->follower_capacity
  RedundancyArg,    \* the redundancy the leader was started with
  NULL

ASSUME RingAssumption ==
  /\ Ids \subseteq Nat /\ IsFiniteSet(Ids)
  /\ Hashes \subseteq Nat
  /\ FollowerCapacity \in Nat \ {0}
  /\ RedundancyArg \in Nat \ {0}
  /\ NULL \notin Nat /\ NULL \notin Threads /\ NULL \notin {"SUCCESS", "ERROR"}

\* tpcleader_init clips the redundancy to the capacity.
Redundancy == IF RedundancyArg > FollowerCapacity
              THEN FollowerCapacity ELSE RedundancyArg

VARIABLES
  alive,          \* FALSE once a NULL dereference has killed the leader
  head,           \* leader->followers_head
  next, prev,     \* the links of each follower; NULL while it is not listed
  follower_count, \* leader->follower_count
  lock,           \* the thread that holds follower_lock, or NULL
  pc, op,         \* where each thread is, and in which handler and phase
  arg,            \* the ID being registered, or the hash of the key
  curr,           \* curr_follower of the thread's handler
  r_val,          \* followers the walk still has to visit
  polled, told,   \* followers visited by phase 1 and by phase 2 of the walk
  answer          \* the type of the last answer to each follower's REGISTER

list == <<head, next, prev, follower_count>>
locals == <<op, arg, curr, r_val, polled, told>>
vars == <<alive, list, lock, pc, locals, answer>>

-----------------------------------------------------------------------------
(* The list *)

\* The followers that the list holds.
Linked == {n \in Ids : next[n] # NULL}

\* How many they are, which is what follower_count should say.
Listed == Cardinality(Linked)

\* Mutation: the predecessor's forward link is not redirected.
InsertBefore_OneWay(new, c) ==
  /\ next' = [next EXCEPT ![new] = c]
  /\ prev' = [prev EXCEPT ![new] = prev[c], ![c] = new]

\* Splice NEW between CURR and its predecessor, as both insertion sites do.
InsertBefore(new, c) ==
  /\ next' = [next EXCEPT ![new] = c, ![prev[c]] = new]
  /\ prev' = [prev EXCEPT ![new] = prev[c], ![c] = new]

Init ==
  /\ alive = TRUE
  /\ head = NULL
  /\ next = [n \in Ids |-> NULL]
  /\ prev = [n \in Ids |-> NULL]
  /\ follower_count = 0
  /\ lock = NULL
  /\ pc = [t \in Threads |-> "idle"]
  /\ op = [t \in Threads |-> "none"]
  /\ arg = [t \in Threads |-> NULL]
  /\ curr = [t \in Threads |-> NULL]
  /\ r_val = [t \in Threads |-> 0]
  /\ polled = [t \in Threads |-> << >>]
  /\ told = [t \in Threads |-> << >>]
  /\ answer = [n \in Ids |-> NULL]

\* The handler returns: its locals are gone and the thread can take the next
\* request.
Return(t) ==
  /\ pc' = [pc EXCEPT ![t] = "idle"]
  /\ op' = [op EXCEPT ![t] = "none"]
  /\ arg' = [arg EXCEPT ![t] = NULL]
  /\ curr' = [curr EXCEPT ![t] = NULL]
  /\ r_val' = [r_val EXCEPT ![t] = 0]
  /\ polled' = [polled EXCEPT ![t] = << >>]
  /\ told' = [told EXCEPT ![t] = << >>]

-----------------------------------------------------------------------------
(* tpcleader_register *)

\* The unlocked capacity check refuses the request with ERROR.
RegisterRefused(t, id) ==
  /\ alive /\ pc[t] = "idle"
  /\ follower_count = FollowerCapacity
  /\ answer' = [answer EXCEPT ![id] = "ERROR"]
  /\ UNCHANGED <<alive, list, lock, pc, locals>>

\* The unlocked capacity check lets the request through; the new node is
\* built and the thread goes for the lock.
RegisterAdmitted(t, id) ==
  /\ alive /\ pc[t] = "idle"
  /\ follower_count # FollowerCapacity
  /\ pc' = [pc EXCEPT ![t] = "reg_lock"]
  /\ op' = [op EXCEPT ![t] = "register"]
  /\ arg' = [arg EXCEPT ![t] = id]
  /\ UNCHANGED <<alive, list, lock, curr, r_val, polled, told, answer>>

\* The lock is taken; an empty list gets its first node, which links to itself.
RegisterLock(t) ==
  /\ alive /\ pc[t] = "reg_lock" /\ lock = NULL
  /\ lock' = t
  /\ \/ /\ head = NULL
        /\ head' = arg[t]
        /\ next' = [next EXCEPT ![arg[t]] = arg[t]]
        /\ prev' = [prev EXCEPT ![arg[t]] = arg[t]]
        /\ pc' = [pc EXCEPT ![t] = "reg_count"]
        /\ UNCHANGED <<follower_count, curr>>
     \/ /\ head # NULL
        /\ curr' = [curr EXCEPT ![t] = head]
        /\ pc' = [pc EXCEPT ![t] = "reg_scan"]
        /\ UNCHANGED list
  /\ UNCHANGED <<alive, op, arg, r_val, polled, told, answer>>

\* One iteration of the search for the insertion point: insert before a larger
\* ID, stop at an equal one, else step on; back at the head the new ID is the
\* highest and goes to the end of the list.
RegisterScan(t) ==
  /\ alive /\ pc[t] = "reg_scan"
  /\ \/ /\ curr[t] > arg[t]
        /\ InsertBefore(arg[t], curr[t])
        /\ head' = IF curr[t] = head THEN arg[t] ELSE head
        /\ pc' = [pc EXCEPT ![t] = "reg_count"]
        /\ UNCHANGED <<follower_count, curr>>
     \/ /\ curr[t] = arg[t]
        /\ pc' = [pc EXCEPT ![t] = "reg_end"]
        /\ UNCHANGED <<list, curr>>
     \/ /\ curr[t] < arg[t] /\ next[curr[t]] # head
        /\ curr' = [curr EXCEPT ![t] = next[curr[t]]]
        /\ UNCHANGED <<list, pc>>
     \/ /\ curr[t] < arg[t] /\ next[curr[t]] = head
        /\ InsertBefore(arg[t], head)
        /\ curr' = [curr EXCEPT ![t] = head]
        /\ pc' = [pc EXCEPT ![t] = "reg_count"]
        /\ UNCHANGED <<head, follower_count>>
  /\ UNCHANGED <<alive, lock, op, arg, r_val, polled, told, answer>>

\* Mutation: the new follower is not counted.
RegisterCount_Skipped(t) ==
  /\ alive /\ pc[t] = "reg_count"
  /\ pc' = [pc EXCEPT ![t] = "reg_end"]
  /\ UNCHANGED <<alive, list, lock, locals, answer>>

\* The list has its new follower, and the count follows.
RegisterCount(t) ==
  /\ alive /\ pc[t] = "reg_count"
  /\ follower_count' = follower_count + 1
  /\ pc' = [pc EXCEPT ![t] = "reg_end"]
  /\ UNCHANGED <<alive, head, next, prev, lock, locals, answer>>

\* Mutation: the lock is kept on the way out.
RegisterEnd_KeepsLock(t) ==
  /\ alive /\ pc[t] = "reg_end"
  /\ answer' = [answer EXCEPT ![arg[t]] = "SUCCESS"]
  /\ Return(t)
  /\ UNCHANGED <<alive, list, lock>>

\* Unlock and answer SUCCESS.
RegisterEnd(t) ==
  /\ alive /\ pc[t] = "reg_end"
  /\ lock' = NULL
  /\ answer' = [answer EXCEPT ![arg[t]] = "SUCCESS"]
  /\ Return(t)
  /\ UNCHANGED <<alive, list>>

-----------------------------------------------------------------------------
(* tpcleader_get_primary and tpcleader_get_successor *)

\* Mutation: a list that is not full is searched all the same.
PrimaryCheck_Dropped(t) ==
  /\ alive /\ pc[t] = "primary"
  /\ pc' = [pc EXCEPT ![t] = "pri_lock"]
  /\ UNCHANGED <<alive, list, lock, locals, answer>>

\* The unlocked capacity check: a list that is not full has no primary, and
\* both callers dereference the NULL they get.
PrimaryCheck(t) ==
  /\ alive /\ pc[t] = "primary"
  /\ IF follower_count < FollowerCapacity
     THEN /\ alive' = FALSE
          /\ UNCHANGED pc
     ELSE /\ pc' = [pc EXCEPT ![t] = "pri_lock"]
          /\ UNCHANGED alive
  /\ UNCHANGED <<list, lock, locals, answer>>

\* Mutation: the search starts behind the head, as if it were a sentinel.
PrimaryLock_SkipHead(t) ==
  /\ alive /\ pc[t] = "pri_lock" /\ lock = NULL
  /\ lock' = t
  /\ curr' = [curr EXCEPT ![t] = next[head]]
  /\ pc' = [pc EXCEPT ![t] = "pri_scan"]
  /\ UNCHANGED <<alive, list, op, arg, r_val, polled, told, answer>>

PrimaryLock(t) ==
  /\ alive /\ pc[t] = "pri_lock" /\ lock = NULL
  /\ lock' = t
  /\ curr' = [curr EXCEPT ![t] = head]
  /\ pc' = [pc EXCEPT ![t] = "pri_scan"]
  /\ UNCHANGED <<alive, list, op, arg, r_val, polled, told, answer>>

\* Mutation: the round is never recognised as complete.
PrimaryScan_NoWrap(t) ==
  /\ alive /\ pc[t] = "pri_scan"
  /\ \/ /\ curr[t] > arg[t]
        /\ lock' = NULL
        /\ pc' = [pc EXCEPT ![t] = "visit"]
        /\ UNCHANGED curr
     \/ /\ curr[t] <= arg[t]
        /\ curr' = [curr EXCEPT ![t] = next[curr[t]]]
        /\ UNCHANGED <<lock, pc>>
  /\ UNCHANGED <<alive, list, op, arg, r_val, polled, told, answer>>

\* One iteration: the first ID greater than the hash, or the head after a
\* whole round.  Finding it releases the lock and starts the walk.
PrimaryScan(t) ==
  /\ alive /\ pc[t] = "pri_scan"
  /\ \/ /\ curr[t] > arg[t]
        /\ lock' = NULL
        /\ pc' = [pc EXCEPT ![t] = "visit"]
        /\ UNCHANGED curr
     \/ /\ curr[t] <= arg[t] /\ next[curr[t]] # head
        /\ curr' = [curr EXCEPT ![t] = next[curr[t]]]
        /\ UNCHANGED <<lock, pc>>
     \/ /\ curr[t] <= arg[t] /\ next[curr[t]] = head
        /\ curr' = [curr EXCEPT ![t] = head]
        /\ lock' = NULL
        /\ pc' = [pc EXCEPT ![t] = "visit"]
  /\ UNCHANGED <<alive, list, op, arg, r_val, polled, told, answer>>

-----------------------------------------------------------------------------
(* The replica walks of tpcleader_handle_tpc and tpcleader_handle_get *)

\* A PUT or DELETE before (or beyond) capacity is answered ERROR.
TpcRefused(t, h) ==
  /\ alive /\ pc[t] = "idle"
  /\ follower_count # FollowerCapacity
  /\ UNCHANGED vars

TpcStart(t, h) ==
  /\ alive /\ pc[t] = "idle"
  /\ follower_count = FollowerCapacity
  /\ pc' = [pc EXCEPT ![t] = "primary"]
  /\ op' = [op EXCEPT ![t] = "phase1"]
  /\ arg' = [arg EXCEPT ![t] = h]
  /\ r_val' = [r_val EXCEPT ![t] = Redundancy]
  /\ UNCHANGED <<alive, list, lock, curr, polled, told, answer>>

GetStart(t, h) ==
  /\ alive /\ pc[t] = "idle"
  /\ pc' = [pc EXCEPT ![t] = "primary"]
  /\ op' = [op EXCEPT ![t] = "get"]
  /\ arg' = [arg EXCEPT ![t] = h]
  /\ r_val' = [r_val EXCEPT ![t] = Redundancy]
  /\ UNCHANGED <<alive, list, lock, curr, polled, told, answer>>

\* The loop bodies of phase 1 and phase 2: exchange messages with the follower.
Visit(t) ==
  /\ alive /\ pc[t] = "visit" /\ op[t] \in {"phase1", "phase2"}
  /\ IF op[t] = "phase1"
     THEN /\ polled' = [polled EXCEPT ![t] = Append(@, curr[t])]
          /\ UNCHANGED told
     ELSE /\ told' = [told EXCEPT ![t] = Append(@, curr[t])]
          /\ UNCHANGED polled
  /\ r_val' = [r_val EXCEPT ![t] = @ - 1]
  /\ pc' = [pc EXCEPT ![t] = "successor"]
  /\ UNCHANGED <<alive, list, lock, op, arg, curr, answer>>

\* Mutation: phase 2 goes on from where phase 1 stopped instead of restarting
\* at the primary.
Successor_NoRestart(t) ==
  /\ alive /\ pc[t] = "successor" /\ lock = NULL
  /\ \/ /\ r_val[t] > 0
        /\ curr' = [curr EXCEPT ![t] = next[curr[t]]]
        /\ pc' = [pc EXCEPT ![t] = "visit"]
        /\ UNCHANGED <<op, arg, r_val, polled, told>>
     \/ /\ r_val[t] = 0 /\ op[t] = "phase1"
        /\ curr' = [curr EXCEPT ![t] = next[curr[t]]]
        /\ pc' = [pc EXCEPT ![t] = "visit"]
        /\ op' = [op EXCEPT ![t] = "phase2"]
        /\ r_val' = [r_val EXCEPT ![t] = Redundancy]
        /\ UNCHANGED <<arg, polled, told>>
     \/ /\ r_val[t] = 0 /\ op[t] = "phase2"
        /\ Return(t)
  /\ UNCHANGED <<alive, list, lock, answer>>

\* get_successor under the lock, then the loop condition.  After phase 1 the
\* walk restarts from a fresh get_primary; after phase 2 the client is answered.
Successor(t) ==
  /\ alive /\ pc[t] = "successor" /\ lock = NULL
  /\ \/ /\ r_val[t] > 0
        /\ curr' = [curr EXCEPT ![t] = next[curr[t]]]
        /\ pc' = [pc EXCEPT ![t] = "visit"]
        /\ UNCHANGED <<op, arg, r_val, polled, told>>
     \/ /\ r_val[t] = 0 /\ op[t] = "phase1"
        /\ curr' = [curr EXCEPT ![t] = next[curr[t]]]
        /\ pc' = [pc EXCEPT ![t] = "primary"]
        /\ op' = [op EXCEPT ![t] = "phase2"]
        /\ r_val' = [r_val EXCEPT ![t] = Redundancy]
        /\ UNCHANGED <<arg, polled, told>>
     \/ /\ r_val[t] = 0 /\ op[t] = "phase2"
        /\ Return(t)
  /\ UNCHANGED <<alive, list, lock, answer>>

\* A GET is answered by the follower it reached.
GetHit(t) ==
  /\ alive /\ pc[t] = "visit" /\ op[t] = "get"
  /\ Return(t)
  /\ UNCHANGED <<alive, list, lock, answer>>

\* A GET moves on through ->next, without the lock, until r_val runs out.
GetMiss(t) ==
  /\ alive /\ pc[t] = "visit" /\ op[t] = "get"
  /\ \/ /\ r_val[t] > 1
        /\ curr' = [curr EXCEPT ![t] = next[curr[t]]]
        /\ r_val' = [r_val EXCEPT ![t] = @ - 1]
        /\ UNCHANGED <<pc, op, arg, polled, told>>
     \/ /\ r_val[t] = 1
        /\ Return(t)
  /\ UNCHANGED <<alive, list, lock, answer>>

-----------------------------------------------------------------------------
\* What a thread does by itself once a request has been handed to it.
Work(t) ==
  \/ RegisterLock(t) \/ RegisterScan(t) \/ RegisterCount(t) \/ RegisterEnd(t)
  \/ PrimaryCheck(t) \/ PrimaryLock(t) \/ PrimaryScan(t)
  \/ Visit(t) \/ Successor(t) \/ GetHit(t) \/ GetMiss(t)

\* A request arrives at an idle thread.
Request(t) ==
  \/ \E id \in Ids : RegisterRefused(t, id) \/ RegisterAdmitted(t, id)
  \/ \E h \in Hashes : TpcRefused(t, h) \/ TpcStart(t, h) \/ GetStart(t, h)

Next == \E t \in Threads : Work(t) \/ Request(t)

Spec == Init /\ [][Next]_vars

\* Threads the scheduler runs eventually take the steps they can take.  The
\* lock itself is not assumed to be fair.
FairSpec == Spec /\ \A t \in Threads : WF_vars(Work(t))

-----------------------------------------------------------------------------
(* Properties *)

\* The places where a thread uses curr_follower.
InHand == {"reg_scan", "pri_scan", "visit", "successor"}

\* The types, and that a thread past its NULL check has a follower in hand:
\* no step of a search or a walk dereferences NULL (tpcleader.c:73-93, 111-132).
TypeOK ==
  /\ alive \in BOOLEAN
  /\ head \in Ids \cup {NULL}
  /\ next \in [Ids -> Ids \cup {NULL}]
  /\ prev \in [Ids -> Ids \cup {NULL}]
  /\ follower_count \in Nat
  /\ lock \in Threads \cup {NULL}
  /\ pc \in [Threads -> {"idle", "reg_lock", "reg_count", "reg_end", "primary", "pri_lock"} \cup InHand]
  /\ op \in [Threads -> {"none", "register", "phase1", "phase2", "get"}]
  /\ arg \in [Threads -> Ids \cup Hashes \cup {NULL}]
  /\ curr \in [Threads -> Ids \cup {NULL}]
  /\ r_val \in [Threads -> 0..Redundancy]
  /\ polled \in [Threads -> Seq(Ids)]
  /\ told \in [Threads -> Seq(Ids)]
  /\ answer \in [Ids -> {"SUCCESS", "ERROR", NULL}]
  /\ \A t \in Threads : pc[t] \in InHand => curr[t] \in Linked

\* b follows a in the circular order of the set S.
CyclicSuccessor(S, a, b) ==
  \/ a < b /\ \A c \in S : ~(a < c /\ c < b)
  \/ (\A c \in S : c <= a) /\ (\A c \in S : b <= c)

\* The links always form one sorted cycle: the head is the lowest ID, each
\* follower's next is the next higher ID (the highest leads back to the head),
\* and prev is the inverse of next, however registrations interleave
\* (tpcleader_register, tpcleader.c:66-97).
RingSorted ==
  /\ (head = NULL) <=> (Linked = {})
  /\ head # NULL => head \in Linked /\ \A n \in Linked : head <= n
  /\ \A n \in Linked :
       /\ next[n] \in Linked /\ prev[n] \in Linked
       /\ prev[next[n]] = n /\ next[prev[n]] = n
       /\ CyclicSuccessor(Linked, n, next[n])

\* follower_count, which the capacity checks read without the lock, counts the
\* listed followers but for the one that a registration has spliced in and is
\* about to count, and a follower that was answered SUCCESS is among them
\* (tpcleader.c:65-98).
CountIsExact ==
  /\ Listed = follower_count + (IF \E t \in Threads : pc[t] = "reg_count" THEN 1 ELSE 0)
  /\ \A n \in Ids : answer[n] = "SUCCESS" => n \in Linked

\* What each place in a handler says of the thread's locals and of the list:
\* follower_lock is held exactly in the two searches and at the end of a
\* registration; a search for the insertion point has every lower ID below the
\* new one; a walk has a list to walk on (tpcleader.c:66-97, 106-122).
ThreadsInPlace ==
  \A t \in Threads :
    /\ lock = t <=> pc[t] \in {"reg_scan", "reg_count", "reg_end", "pri_scan"}
    /\ pc[t] \in {"reg_lock", "reg_scan", "reg_count", "reg_end"} => arg[t] \in Ids
    /\ pc[t] = "reg_scan" => \A n \in Linked : n < curr[t] => n < arg[t]
    /\ pc[t] \in {"reg_count", "reg_end"} => arg[t] \in Linked
    /\ pc[t] \in {"primary", "pri_lock", "pri_scan", "visit", "successor"} => arg[t] \in Hashes
    /\ pc[t] \in {"pri_lock", "pri_scan", "visit", "successor"} => head # NULL
    /\ pc[t] \in {"primary", "pri_lock", "pri_scan", "visit"} => r_val[t] > 0

\* The replica that should hold a key: the lowest ID above the hash, else the
\* lowest ID (the comment on tpcleader_get_primary, tpcleader.c:101-105).
PrimaryOf(h) ==
  LET above == {n \in Linked : n > h}
      pool == IF above = {} THEN Linked ELSE above
  IN  CHOOSE n \in pool : \A m \in pool : n <= m

\* While the list is exactly full, every phase 1 starts at the key's primary
\* and polls distinct followers in ring order (tpcleader.c:106-133, 189-217).
PollsReplicas ==
  Listed = FollowerCapacity =>
    \A t \in Threads :
      \A i \in DOMAIN polled[t] :
        /\ i = 1 => polled[t][1] = PrimaryOf(arg[t])
        /\ i > 1 => polled[t][i] = next[polled[t][i - 1]]
        /\ \A j \in DOMAIN polled[t] : polled[t][i] = polled[t][j] => i = j

\* The sequence s starts the sequence u.
IsPrefix(s, u) == Len(s) <= Len(u) /\ \A i \in 1..Len(s) : s[i] = u[i]

\* While the list is exactly full, phase 2 tells the followers that phase 1
\* polled, in the same order, although it searches the list a second time
\* (tpcleader.c:219-262).
PhasesAgree ==
  Listed = FollowerCapacity => \A t \in Threads : IsPrefix(told[t], polled[t])

\* A thread that holds follower_lock gives it back, unless the leader process
\* dies first: both searches end, because the list is a cycle through the head
\* (tpcleader.c:74-88, 112-118).
LockReleased ==
  \A t \in Threads : lock = t ~> (lock # t \/ ~alive)

=============================================================================
