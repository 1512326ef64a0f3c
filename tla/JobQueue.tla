------------------------------ MODULE JobQueue ------------------------------
(***************************************************************************)
(* What the work queue of hw4/src/wq.c promises its users: jobs are handed *)
(* to the workers in the order they came, each to one worker, once.        *)
(***************************************************************************)
EXTENDS Sequences

CONSTANTS Jobs, Workers, NULL

VARIABLES
  queue,   \* jobs that wait
  serving, \* the job each worker has, or NULL
  served   \* jobs that are done

vars == <<queue, serving, served>>

Waiting == {queue[i] : i \in DOMAIN queue}

Init ==
  /\ queue = << >>
  /\ serving = [w \in Workers |-> NULL]
  /\ served = {}

\* A job that was never seen before joins the queue.
Submit(j) ==
  /\ j \notin Waiting \cup served /\ \A w \in Workers : serving[w] # j
  /\ queue' = Append(queue, j)
  /\ UNCHANGED <<serving, served>>

Start(w) ==
  /\ serving[w] = NULL /\ queue # << >>
  /\ serving' = [serving EXCEPT ![w] = Head(queue)]
  /\ queue' = Tail(queue)
  /\ UNCHANGED served

Finish(w) ==
  /\ serving[w] # NULL
  /\ served' = served \cup {serving[w]}
  /\ serving' = [serving EXCEPT ![w] = NULL]
  /\ UNCHANGED queue

Next ==
  \/ \E j \in Jobs : Submit(j)
  \/ \E w \in Workers : Start(w) \/ Finish(w)

Spec == Init /\ [][Next]_vars
=============================================================================
