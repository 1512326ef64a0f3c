----------------------------- MODULE WorkQueue -----------------------------
(***************************************************************************)
(* The thread pool of both servers: the accept loop of server_run and the  *)
(* worker threads of socket_server.c, which meet in the queue of wq.c.     *)
(* The queue is a doubly linked list of utlist.h (the head's prev is the   *)
(* tail, the tail's next is NULL) under a mutex, with a condition variable *)
(* that wakes every waiting worker when a job is added.                    *)
(*                                                                         *)
(* A job is an accepted connection; its list node goes by the same name.   *)
(* server_stop may be called at any time by another thread: it clears      *)
(* listening and then shuts the listening socket.                          *)
(***************************************************************************)
EXTENDS Naturals, Sequences, FiniteSets

CONSTANTS
  Jobs,        \* connections that clients open
  Silent,      \* those whose handler may never return
  Workers,     \* server->max_threads worker threads
  Acceptor,    \* the thread that runs server_run
  MaxSpurious, \* bound: waits that end without a broadcast
  NULL

ASSUME QueueAssumption ==
  /\ IsFiniteSet(Jobs) /\ Silent \subseteq Jobs /\ MaxSpurious \in Nat
  /\ Acceptor \notin Workers /\ NULL \notin Jobs \cup Workers \cup {Acceptor}

VARIABLES
  listening,        \* server->listening
  shut,             \* whether the listening socket is shut down
  mutex,            \* the thread that holds wq->mutex, or NULL
  size, head,       \* wq->size and wq->head
  next, prev,       \* the links of the nodes
  apc, client_sock, \* where the acceptor is, and the connection it accepted
  wpc, job,         \* where each worker is, and the job it has
  accepted, handled, \* connections accepted and dealt with so far
  spurious          \* spurious wakeups so far

list == <<size, head, next, prev>>
vars == <<listening, shut, mutex, list, apc, client_sock, wpc, job, accepted, handled,
          spurious>>

Init ==
  /\ listening = TRUE /\ shut = FALSE
  /\ mutex = NULL
  /\ size = 0 /\ head = NULL
  /\ next = [j \in Jobs |-> NULL]
  /\ prev = [j \in Jobs |-> NULL]
  /\ apc = "loop" /\ client_sock = NULL
  /\ wpc = [w \in Workers |-> "loop"]
  /\ job = [w \in Workers |-> NULL]
  /\ accepted = {} /\ handled = {}
  /\ spurious = 0

-----------------------------------------------------------------------------
(* utlist.h *)

\* Mutation: the node is put in front.
DL_APPEND_InFront(add) ==
  IF head # NULL
  THEN /\ prev' = [prev EXCEPT ![add] = prev[head], ![head] = add]
       /\ next' = [next EXCEPT ![add] = head]
       /\ head' = add
  ELSE /\ head' = add
       /\ prev' = [prev EXCEPT ![add] = add]
       /\ next' = [next EXCEPT ![add] = NULL]

DL_APPEND(add) ==
  IF head # NULL
  THEN /\ prev' = [prev EXCEPT ![add] = prev[head], ![head] = add]
       /\ next' = [next EXCEPT ![prev[head]] = add, ![add] = NULL]
       /\ UNCHANGED head
  ELSE /\ head' = add
       /\ prev' = [prev EXCEPT ![add] = add]
       /\ next' = [next EXCEPT ![add] = NULL]

\* Mutation: the new head does not inherit the pointer to the tail.
DL_DELETE_head_NoTail ==
  IF prev[head] = head
  THEN /\ head' = NULL
       /\ prev' = [prev EXCEPT ![head] = NULL]
       /\ UNCHANGED next
  ELSE /\ head' = next[head]
       /\ prev' = [prev EXCEPT ![head] = NULL]
       /\ next' = [next EXCEPT ![head] = NULL]

\* DL_DELETE(wq->head, wq->head), and the free of the node that follows it.
DL_DELETE_head ==
  IF prev[head] = head
  THEN /\ head' = NULL
       /\ prev' = [prev EXCEPT ![head] = NULL]
       /\ UNCHANGED next
  ELSE /\ head' = next[head]
       /\ prev' = [prev EXCEPT ![next[head]] = prev[head], ![head] = NULL]
       /\ next' = [next EXCEPT ![head] = NULL]

-----------------------------------------------------------------------------
(* server_run: the accept loop, and wq_push *)

AcceptLoop ==
  /\ apc = "loop"
  /\ apc' = IF listening THEN "accept" ELSE "done"
  /\ UNCHANGED <<listening, shut, mutex, list, client_sock, wpc, job, accepted, handled, spurious>>

\* accept returns a connection.
Accept(j) ==
  /\ apc = "accept" /\ ~shut
  /\ j \notin accepted
  /\ accepted' = accepted \cup {j}
  /\ client_sock' = j
  /\ apc' = "lock"
  /\ UNCHANGED <<listening, shut, mutex, list, wpc, job, handled, spurious>>

\* accept fails once the socket is shut down.
AcceptFails ==
  /\ apc = "accept" /\ shut
  /\ apc' = "loop"
  /\ UNCHANGED <<listening, shut, mutex, list, client_sock, wpc, job, accepted, handled, spurious>>

PushLock ==
  /\ apc = "lock" /\ mutex = NULL
  /\ mutex' = Acceptor
  /\ apc' = "append"
  /\ UNCHANGED <<listening, shut, list, client_sock, wpc, job, accepted, handled, spurious>>

PushAppend ==
  /\ apc = "append"
  /\ DL_APPEND(client_sock)
  /\ apc' = "count"
  /\ UNCHANGED <<listening, shut, mutex, size, client_sock, wpc, job, accepted, handled, spurious>>

\* Mutation: nobody is woken.
PushCount_NoBroadcast ==
  /\ apc = "count"
  /\ size' = size + 1
  /\ mutex' = NULL
  /\ client_sock' = NULL
  /\ apc' = "loop"
  /\ UNCHANGED <<listening, shut, head, next, prev, wpc, job, accepted, handled, spurious>>

\* The size is counted up, every waiting worker is woken, the mutex released.
PushCount ==
  /\ apc = "count"
  /\ size' = size + 1
  /\ wpc' = [w \in Workers |-> IF wpc[w] = "wait" THEN "lock" ELSE wpc[w]]
  /\ mutex' = NULL
  /\ client_sock' = NULL
  /\ apc' = "loop"
  /\ UNCHANGED <<listening, shut, head, next, prev, job, accepted, handled, spurious>>

-----------------------------------------------------------------------------
(* handle_leader and handle_follower: the worker loop, and wq_pop *)

WorkerLoop(w) ==
  /\ wpc[w] = "loop"
  /\ wpc' = [wpc EXCEPT ![w] = IF listening THEN "lock" ELSE "done"]
  /\ UNCHANGED <<listening, shut, mutex, list, apc, client_sock, job, accepted, handled, spurious>>

\* Mutation: the queue is entered without the mutex.
PopLock_NoMutex(w) ==
  /\ wpc[w] = "lock"
  /\ mutex' = w
  /\ wpc' = [wpc EXCEPT ![w] = "test"]
  /\ UNCHANGED <<listening, shut, list, apc, client_sock, job, accepted, handled, spurious>>

\* The mutex is taken: on the way in, or again after a wait.
PopLock(w) ==
  /\ wpc[w] = "lock" /\ mutex = NULL
  /\ mutex' = w
  /\ wpc' = [wpc EXCEPT ![w] = "test"]
  /\ UNCHANGED <<listening, shut, list, apc, client_sock, job, accepted, handled, spurious>>

\* An empty queue is waited on, which releases the mutex.
PopTest(w) ==
  /\ wpc[w] = "test"
  /\ \/ /\ size = 0
        /\ wpc' = [wpc EXCEPT ![w] = "wait"]
        /\ mutex' = NULL
     \/ /\ size # 0
        /\ wpc' = [wpc EXCEPT ![w] = "take"]
        /\ UNCHANGED mutex
  /\ UNCHANGED <<listening, shut, list, apc, client_sock, job, accepted, handled, spurious>>

\* pthread_cond_wait may return without a broadcast.
SpuriousWakeup(w) ==
  /\ wpc[w] = "wait" /\ spurious < MaxSpurious
  /\ spurious' = spurious + 1
  /\ wpc' = [wpc EXCEPT ![w] = "lock"]
  /\ UNCHANGED <<listening, shut, mutex, list, apc, client_sock, job, accepted, handled>>

\* The first job is taken out of the list and the mutex released.
PopTake(w) ==
  /\ wpc[w] = "take"
  /\ job' = [job EXCEPT ![w] = head]
  /\ size' = size - 1
  /\ DL_DELETE_head
  /\ mutex' = NULL
  /\ wpc' = [wpc EXCEPT ![w] = "handle"]
  /\ UNCHANGED <<listening, shut, apc, client_sock, accepted, handled, spurious>>

\* The handler answers and the worker closes the connection.
Handle(w) ==
  /\ wpc[w] = "handle"
  /\ handled' = handled \cup {job[w]}
  /\ job' = [job EXCEPT ![w] = NULL]
  /\ wpc' = [wpc EXCEPT ![w] = "loop"]
  /\ UNCHANGED <<listening, shut, mutex, list, apc, client_sock, accepted, spurious>>

-----------------------------------------------------------------------------
(* server_stop *)

StopListening ==
  /\ listening
  /\ listening' = FALSE
  /\ UNCHANGED <<shut, mutex, list, apc, client_sock, wpc, job, accepted, handled, spurious>>

\* Mutation: the socket is closed but not shut down, which does not wake an
\* accept that waits on it.
StopSocket_NoShutdown ==
  /\ ~listening /\ ~shut /\ apc # "accept"
  /\ shut' = TRUE
  /\ UNCHANGED <<listening, mutex, list, apc, client_sock, wpc, job, accepted, handled, spurious>>

StopSocket ==
  /\ ~listening /\ ~shut
  /\ shut' = TRUE
  /\ UNCHANGED <<listening, mutex, list, apc, client_sock, wpc, job, accepted, handled, spurious>>

-----------------------------------------------------------------------------
Push == AcceptLoop \/ AcceptFails \/ PushLock \/ PushAppend \/ PushCount

Worker(w) == WorkerLoop(w) \/ PopLock(w) \/ PopTest(w) \/ PopTake(w) \/ Handle(w)

Next ==
  \/ Push \/ (\E j \in Jobs : Accept(j))
  \/ \E w \in Workers : Worker(w) \/ SpuriousWakeup(w)
  \/ StopListening \/ StopSocket

Spec == Init /\ [][Next]_vars

\* A worker goes on, unless what it handles is silent: a client that sends no
\* request is read from without a timeout (libhttp.c:23), and a leader may repeat
\* the second phase for ever (tpcleader.c:235).
GoesOn(w) == Worker(w) /\ job[w] \notin Silent

\* Threads that can run do; clients need not connect, nobody need stop the
\* server, and a wait need not end by itself.
FairSpec ==
  /\ Spec
  /\ WF_vars(Push) /\ WF_vars(StopSocket)
  /\ \A w \in Workers : WF_vars(GoesOn(w))

-----------------------------------------------------------------------------
(* Properties *)

\* The types of the queue and of the threads; the size never goes below zero and
\* only accepted connections are handled (wq.h:18-23, wq.c:24-31).
TypeOK ==
  /\ listening \in BOOLEAN /\ shut \in BOOLEAN
  /\ mutex \in Workers \cup {Acceptor, NULL}
  /\ size \in Nat /\ head \in Jobs \cup {NULL}
  /\ next \in [Jobs -> Jobs \cup {NULL}] /\ prev \in [Jobs -> Jobs \cup {NULL}]
  /\ apc \in {"loop", "accept", "lock", "append", "count", "done"}
  /\ client_sock \in Jobs \cup {NULL}
  /\ wpc \in [Workers -> {"loop", "lock", "test", "wait", "take", "handle", "done"}]
  /\ job \in [Workers -> Jobs \cup {NULL}]
  /\ accepted \subseteq Jobs /\ handled \subseteq accepted
  /\ spurious \in 0..MaxSpurious

\* The nodes in the list: each has a prev, the head's being the tail.
Listed == {j \in Jobs : prev[j] # NULL}

\* The links list the nodes in the order q: next walks from the head, the first
\* of q, to the tail, the last, whose next is NULL; prev walks back, and from
\* the head to the tail.
InOrder(q) ==
  LET n == Cardinality(Listed)
  IN  /\ \A j \in Listed : \E i \in 1..n : q[i] = j
      /\ \A i, k \in 1..n : q[i] = q[k] => i = k
      /\ IF n = 0 THEN head = NULL
         ELSE head = q[1] /\ prev[q[1]] = q[n] /\ next[q[n]] = NULL
      /\ \A i \in 1..(n - 1) : next[q[i]] = q[i + 1] /\ prev[q[i + 1]] = q[i]

Orders == {q \in [1..Cardinality(Listed) -> Listed] : InOrder(q)}

\* The types hold, the list is one chain from the head to the tail that prev
\* walks backwards, with no node beside it, and size counts its nodes whenever
\* the mutex is free (wq.c:17-43 and the macros of utlist.h it uses).
ListIsChain ==
  /\ TypeOK
  /\ Orders # {}
  /\ size = Cardinality(Listed) - (IF apc = "count" THEN 1 ELSE 0)

\* A worker takes from the list only with the mutex in hand and a node to take,
\* whatever woke it; nobody else touches the list meanwhile (wq.c:21-28).
TakesAreSafe ==
  /\ \A w \in Workers : (mutex = w <=> wpc[w] \in {"test", "take"})
                        /\ (wpc[w] = "take" => head # NULL)
  /\ mutex = Acceptor <=> apc \in {"append", "count"}

\* The queue that the links stand for.
Queued == CHOOSE q \in Orders : TRUE

Abstract == INSTANCE JobQueue WITH queue <- Queued, serving <- job, served <- handled

\* The pool hands out connections in the order they were accepted, each to one
\* worker and once: it implements JobQueue (wq.c:17-43, socket_server.c:24-44).
QueueIsFifo == Abstract!Spec

\* A connection that was accepted and is not silent is handled, unless the server
\* is stopped or in the end every worker waits in a handler that does not return:
\* no wakeup is lost (wq.c:22-23, 41).
AcceptedIsHandled ==
  \/ \A j \in Jobs \ Silent : j \in accepted ~> (j \in handled \/ ~listening)
  \/ <>[](\A w \in Workers : job[w] \in Silent)

\* Once stopped, server_run returns (socket_server.c:137-155), and no connection
\* is left in the queue while a worker waits there: it stays empty, although
\* its waiting workers never end, or else every worker has ended or is still in a
\* handler that does not return (socket_server.c:38-42, wq.c:22-23, 41).
StopSettles ==
  ~listening ~> [](/\ apc = "done"
                   /\ size = 0 \/ \A w \in Workers : wpc[w] = "done" \/ job[w] \in Silent)
=============================================================================
