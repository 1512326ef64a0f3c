------------------------------ MODULE TPCSystem ------------------------------
(***************************************************************************)
(* The replicated key-value store: the leader's worker threads, each of    *)
(* which runs two-phase commit for a PUT or DELETE or reads the replicas   *)
(* for a GET (tpcleader_handle_tpc and tpcleader_handle_get of             *)
(* hw4/src/tpcleader.c), and the followers of KVServer they talk to.       *)
(*                                                                         *)
(* The follower list is full and fixed here (FollowerRing has the list     *)
(* itself), so the replicas of a key are Redundancy followers from its     *)
(* primary on.  A thread waits one second for an answer of phase 1 or 2    *)
(* and two for a GET: how long a follower takes is not bounded, so a wait  *)
(* may end without an answer at any time.                                  *)
(*                                                                         *)
(* view is what the replicas show of each key: the value of the first      *)
(* replica, in the order a GET asks them, that holds one.                  *)
(***************************************************************************)
EXTENDS KVServer

CONSTANTS
  Ring,         \* the follower list, in ID order
  Redundancy,   \* replicas of each key
  PrimaryAt,    \* the position in Ring of each key's primary
  Kinds,        \* the request types the clients of each leader thread send
  MaxRequests,  \* bound: requests the clients send
  MaxTimeouts   \* bound: waits that end before the answer comes

ASSUME SystemAssumption ==
  /\ Ring \in Seq(Followers) /\ Redundancy \in 1..Len(Ring)
  /\ \A i, j \in 1..Len(Ring) : Ring[i] = Ring[j] => i = j
  /\ PrimaryAt \in [Keys -> 1..Len(Ring)]
  /\ Kinds \in [Conns -> SUBSET {"PUTREQ", "DELREQ", "GETREQ"}]
  /\ MaxRequests \in Nat /\ MaxTimeouts \in Nat

VARIABLES
  alive,      \* FALSE once a NULL dereference has killed the leader
  lead,       \* what each leader thread is doing
  issued,     \* requests sent so far
  timeouts,   \* premature ends of a wait so far
  crossed,    \* whether a write ever began while another was in progress
  agreed,     \* the requests that every replica of their key voted to commit
  seen        \* the values view had since each thread's GET began

leader == <<alive, lead, issued, timeouts, crossed, agreed>>
vars == <<serverVars, leader, seen>>

-----------------------------------------------------------------------------
(* Replicas *)

\* get_primary and then get_successor, i - 1 times.
Replica(k, i) == Ring[((PrimaryAt[k] + i - 2) % Len(Ring)) + 1]
Replicas(k) == {Replica(k, i) : i \in 1..Redundancy}

view == [k \in Keys |->
           LET holding == {i \in 1..Redundancy : store[Replica(k, i)][k] # NULL}
           IN  IF holding = {} THEN NULL
               ELSE store[Replica(k, CHOOSE i \in holding : \A j \in holding : i <= j)][k]]

LeaderIdle == [pc |-> "idle", req |-> NULL, i |-> 0, abort |-> FALSE, votes |-> 0,
               res |-> NULL]

Init ==
  /\ ServerInit
  /\ alive = TRUE
  /\ lead = [t \in Conns |-> LeaderIdle]
  /\ issued = 0
  /\ timeouts = 0
  /\ crossed = FALSE
  /\ agreed = {}
  /\ seen = [t \in Conns |-> {}]

-----------------------------------------------------------------------------
(* A leader thread *)

LeaderAt(t, label) == alive /\ lead[t].pc = label
Target(t) == Replica(lead[t].req.key, lead[t].i)

Writing(t) == lead[t].pc # "idle" /\ lead[t].req.type # "GETREQ"

\* A client's request reaches thread t.
ClientRequest(t) ==
  /\ LeaderAt(t, "idle") /\ issued < MaxRequests
  /\ \E r \in PutRequests \cup DelRequests \cup GetRequests :
       /\ r.type \in Kinds[t]
       /\ crossed' = (crossed \/ (r.type # "GETREQ" /\ \E u \in Conns : Writing(u)))
       /\ lead' = [lead EXCEPT ![t] =
                     [pc |-> IF r.type = "GETREQ" THEN "get" ELSE "phase1",
                      req |-> r, i |-> 1, abort |-> FALSE, votes |-> 0, res |-> NULL]]
  /\ issued' = issued + 1
  /\ UNCHANGED <<serverVars, alive, timeouts, agreed>>

\* Connect to the current follower and send: the request itself, or the decision.
Send(t) ==
  /\ \/ /\ LeaderAt(t, "phase1") \/ LeaderAt(t, "get")
        /\ Connect(t, Target(t), lead[t].req)
     \/ /\ LeaderAt(t, "phase2")
        /\ Connect(t, Target(t), Request(IF lead[t].abort THEN "ABORT" ELSE "COMMIT", NULL, NULL))
  /\ UNCHANGED leader

\* The end of a wait, and of the connection: answered, cut off, or too long.
Answered(t) == conn[t].st = "answered" /\ Disconnect(t) /\ UNCHANGED timeouts
CutOff(t) == conn[t].st = "reset" /\ Disconnect(t) /\ UNCHANGED timeouts
TimedOut(t) ==
  /\ conn[t].st = "open" /\ timeouts < MaxTimeouts
  /\ timeouts' = timeouts + 1
  /\ Disconnect(t)
NoAnswer(t) == CutOff(t) \/ TimedOut(t)
NoConnection(t) == conn[t].st = "closed" /\ ~up[Target(t)] /\ UNCHANGED <<serverVars, timeouts>>

\* Mutation: only the last follower's answer counts.
Vetoed_LastOnly(t, vote) == ~vote

\* abortBool: anything but a vote to commit counts against the transaction.
Vetoed(t, vote) == lead[t].abort \/ ~vote

\* After one follower of phase 1: the next one, or the decision and phase 2.
Phase1Next(t, vote) ==
  LET last == lead[t].i = Redundancy
      votes == lead[t].votes + (IF vote THEN 1 ELSE 0)
  IN  /\ lead' = [lead EXCEPT ![t].pc = IF last THEN "phase2" ELSE "phase1",
                              ![t].i = IF last THEN 1 ELSE @ + 1,
                              ![t].abort = Vetoed(t, vote),
                              ![t].votes = votes]
      /\ agreed' = IF votes = Redundancy THEN agreed \cup {lead[t].req} ELSE agreed

Phase1(t) ==
  /\ LeaderAt(t, "phase1")
  /\ \/ Answered(t) /\ Phase1Next(t, conn[t].res = Vote)
     \/ NoAnswer(t) /\ Phase1Next(t, FALSE)
     \/ NoConnection(t) /\ Phase1Next(t, FALSE)
  /\ UNCHANGED <<alive, issued, crossed>>

\* Mutation: phase 2 ends with the first follower.
Phase2Next_OneAck(t) ==
  lead' = [lead EXCEPT ![t].pc = "done",
                       ![t].res = IF lead[t].abort THEN "ERROR" ELSE "SUCCESS"]

\* Mutation: the loop runs once too often.
Phase2Next_OffByOne(t) ==
  lead' = IF lead[t].i > Redundancy
          THEN [lead EXCEPT ![t].pc = "done",
                            ![t].res = IF lead[t].abort THEN "ERROR" ELSE "SUCCESS"]
          ELSE [lead EXCEPT ![t].i = @ + 1]

\* After an acknowledgement of phase 2: the next follower, or the answer.
Phase2Next(t) ==
  lead' = IF lead[t].i = Redundancy
          THEN [lead EXCEPT ![t].pc = "done",
                            ![t].res = IF lead[t].abort THEN "ERROR" ELSE "SUCCESS"]
          ELSE [lead EXCEPT ![t].i = @ + 1]

\* A follower that does not acknowledge is asked again, for ever.
Phase2(t) ==
  /\ LeaderAt(t, "phase2")
  /\ \/ Answered(t) /\ IF conn[t].res = Ack THEN Phase2Next(t) ELSE UNCHANGED lead
     \/ NoAnswer(t) /\ UNCHANGED lead
  /\ UNCHANGED <<alive, issued, crossed, agreed>>

\* A GET moves on to the next follower until redundancy runs out.
GetNext(t) ==
  lead' = IF lead[t].i = Redundancy
          THEN [lead EXCEPT ![t].pc = "done", ![t].res = NULL]
          ELSE [lead EXCEPT ![t].i = @ + 1]

\* Mutation: the first follower's answer is final.
GetAnswered_FirstOnly(t) ==
  lead' = [lead EXCEPT ![t].pc = "done", ![t].res = conn[t].res.body]

\* A value ends a GET; an ERROR does not.
GetAnswered(t) ==
  IF conn[t].res.type = "GETRESP"
  THEN lead' = [lead EXCEPT ![t].pc = "done", ![t].res = conn[t].res.body]
  ELSE GetNext(t)

\* A missing answer is dereferenced: the leader dies.
Get(t) ==
  /\ LeaderAt(t, "get")
  /\ \/ Answered(t) /\ GetAnswered(t) /\ UNCHANGED alive
     \/ NoConnection(t) /\ GetNext(t) /\ UNCHANGED alive
     \/ NoAnswer(t) /\ alive' = FALSE /\ UNCHANGED lead
  /\ UNCHANGED <<issued, crossed, agreed>>

\* The answer goes to the client and the thread takes new work.
Done(t) ==
  /\ LeaderAt(t, "done")
  /\ lead' = [lead EXCEPT ![t] = LeaderIdle]
  /\ UNCHANGED <<serverVars, alive, issued, timeouts, crossed, agreed>>

-----------------------------------------------------------------------------
ThreadStep(t) == Send(t) \/ Phase1(t) \/ Phase2(t) \/ Get(t) \/ Done(t)

\* What the views of a GET in progress have been, this step included.
SeenNext ==
  seen' = [t \in Conns |->
             IF lead'[t].pc \in {"get", "done"} /\ lead'[t].req.type = "GETREQ"
             THEN seen[t] \cup {view'[lead'[t].req.key]} ELSE {}]

\* A follower that is down comes back only when the leader is there and one of
\* its threads is free to answer the registration.
CanRegister == alive /\ \E t \in Conns : lead[t].pc = "idle"

SystemNext ==
  /\ \/ \E t \in Conns : ClientRequest(t) \/ ThreadStep(t)
     \/ \E f \in Followers :
          FollowerStep(f) /\ (up[f] \/ CanRegister) /\ UNCHANGED leader
  /\ SeenNext

SystemSpec == Init /\ [][SystemNext]_vars

\* Leader threads and follower workers keep running; clients need not send,
\* processes need not crash.
FairSpec ==
  /\ SystemSpec
  /\ \A t \in Conns : WF_vars(ThreadStep(t) /\ SeenNext)
  /\ \A f \in Followers : \A w \in Workers :
       WF_vars(WorkerStep(f, w) /\ UNCHANGED leader /\ SeenNext)

-----------------------------------------------------------------------------
(* Properties *)

\* The types of the leader's threads on top of the followers': a walk never goes
\* past the last replica, whatever is answered or lost (tpcleader.c:189-262).
SystemTypeOK ==
  /\ TypeOK
  /\ alive \in BOOLEAN
  /\ lead \in [Conns -> [pc : {"idle", "phase1", "phase2", "get", "done"},
                         req : Requests \cup {NULL}, i : 0..Redundancy, abort : BOOLEAN,
                         votes : 0..Redundancy,
                         res : Vals \cup {"SUCCESS", "ERROR", NULL, Wild}]]
  /\ issued \in 0..MaxRequests
  /\ timeouts \in 0..MaxTimeouts
  /\ crossed \in BOOLEAN
  /\ agreed \subseteq PutRequests \cup DelRequests
  /\ seen \in [Conns -> SUBSET (Vals \cup {NULL, Wild})]

\* No transaction is in progress and nothing is left to handle.
Quiet ==
  /\ alive /\ \A t \in Conns : lead[t].pc = "idle"
  /\ \A f \in Followers : up[f] /\ wq[f] = << >> /\ \A w \in Workers : work[f][w].pc = "idle"

\* Nothing has happened yet that the code does not cope with: no two writes were
\* in progress at once, no two workers of a follower handled messages of
\* transactions at once, and no process was restarted from a log with a gap.
Orderly == ~crossed /\ \A f \in Followers : strayed[f] \subseteq {"unlogged"}

\* And no process has crashed.
Undisturbed == Orderly /\ crashes = 0

\* Once every transaction is over, the replicas of a key hold the same value
\* and no other follower holds the key: what tpcleader.h:12-15 says of the system.
AlwaysReplicated ==
  Quiet => \A k \in Keys, f \in Followers :
             store[f][k] = IF f \in Replicas(k) THEN store[Replica(k, 1)][k] ELSE NULL

\* It holds as long as nothing disturbs the system, whatever is late, refused,
\* aborted or sent again (tpcleader.c:189-262).
ReplicasAgree == Undisturbed => AlwaysReplicated

\* A follower's store only ever changes to what a request put there that every
\* replica of the key voted for: no refusal, missing vote, late or repeated
\* message and no restart lets another value in (tpcleader.c:195-258,
\* kvserver.c:160-181).
OnlyCommittedWrites ==
  [][\A f \in Followers, k \in Keys :
       Orderly' /\ store'[f][k] # store[f][k] =>
         Request(IF store'[f][k] = NULL THEN "DELREQ" ELSE "PUTREQ", k, store'[f][k])
           \in agreed]_vars

\* A follower that crashed while it waited for the decision on a PUT is restarted
\* waiting for that decision (the comment on kvserver_rebuild_state,
\* kvserver.c:228-231), unless it could not log a message of that life.
PreparedRestored ==
  [][\A f \in Followers :
       /\ ~up[f] /\ up'[f] /\ Orderly' /\ strayed'[f] = {}
       /\ saved[f] # NULL /\ saved[f].msg = "PUTREQ" /\ saved[f].key # Wild
       => pending'[f] = saved[f]]_vars

\* When a write is answered SUCCESS, every replica of the key holds the outcome,
\* unless the key is one that kvserver_put_check rejects (tpcleader.c:230-270).
SuccessIsStored ==
  \A t \in Conns :
    /\ Undisturbed /\ LeaderAt(t, "done")
    /\ lead[t].req.type # "GETREQ" /\ lead[t].res = "SUCCESS" /\ lead[t].req.key \notin BadKeys
    => \A f \in Replicas(lead[t].req.key) : store[f][lead[t].req.key] = lead[t].req.val

\* A GET answers with a value that the replicas showed at some moment while it
\* ran, although it asks them one after the other (tpcleader.c:146-170).
GetIsCurrent ==
  \A t \in Conns :
    Undisturbed /\ LeaderAt(t, "done") /\ lead[t].req.type = "GETREQ" => lead[t].res \in seen[t]

\* Every request is answered, unless the leader dies or something disturbs the
\* system: phase 2 does not retry for ever (tpcleader.c:235-259).
RequestsAnswered ==
  \A t \in Conns : lead[t].pc # "idle" ~> (lead[t].pc = "idle" \/ ~alive \/ ~Undisturbed)

=============================================================================
