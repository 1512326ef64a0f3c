------------------------------ MODULE KVServer ------------------------------
(***************************************************************************)
(* The followers of the key-value store (hw4/src/kvserver.c, tpclog.c and  *)
(* the worker loop of socket_server.c).  Each follower process accepts     *)
(* connections, hands them to worker threads in the order they came, logs  *)
(* every two-phase-commit message, keeps one pending transaction in three  *)
(* unprotected fields, and rebuilds that transaction from the log when it  *)
(* is restarted after a crash.                                             *)
(*                                                                         *)
(* kvserver_handle_tpc works on a copy of the log descriptor, so nextid    *)
(* never advances during the life of a process and all messages of one     *)
(* life go to one file.  The file is created read-only for its owner: a    *)
(* second open succeeds only for a privileged process.                     *)
(*                                                                         *)
(* A connection carries one request and one response.  The store is a map  *)
(* here; the files it is made of are a component of their own.             *)
(***************************************************************************)
EXTENDS Naturals, Sequences, FiniteSets

CONSTANTS
  Followers,   \* follower processes
  Workers,     \* worker threads of each of them
  Conns,       \* clients of the followers (in the system: the leader's threads)
  Keys, Vals,  \* what requests carry
  BadKeys,     \* the keys that kvserver_put_check rejects
  Privileged,  \* the followers whose process may reopen a read-only log file
  UninitMsgs,  \* what the uninitialised pending_msg may read as
  MaxCrashes,  \* bound: process crashes that nothing in the code causes
  NULL, Wild,  \* the null pointer, and an uninitialised one
  Torn         \* a log file created but not yet written

ASSUME ServerAssumption ==
  /\ IsFiniteSet(Workers) /\ BadKeys \subseteq Keys
  /\ Privileged \subseteq Followers
  /\ UninitMsgs \subseteq {"PUTREQ", "DELREQ", "EMPTY"} /\ UninitMsgs # {}
  /\ MaxCrashes \in Nat
  /\ NULL # Wild /\ {NULL, Wild, Torn} \cap (Keys \cup Vals \cup Conns) = {}

VARIABLES
  up,       \* whether each follower process runs
  pending,  \* pending_msg, pending_key and pending_value of each follower
  log,      \* the files 0.log, 1.log, ... of each follower, in order
  nextid,   \* server->log.nextid: the number of files found at start
  store,    \* what each follower's KVStore holds for each key
  wq,       \* accepted connections no worker has taken yet
  work,     \* what each worker thread is doing
  conn,     \* the connections as their clients see them
  crashes,  \* crashes so far
  saved,    \* the pending transaction a crash interrupted, if nothing else ran
  promised, \* the transaction whose COMMIT is logged and not yet applied
  strayed   \* what has happened to each follower that the code does not cope with

server == <<up, pending, log, nextid, store, crashes, saved, promised, strayed>>
serverVars == <<server, wq, work, conn>>

-----------------------------------------------------------------------------
(* Messages and records *)

Request(type, key, val) == [type |-> type, key |-> key, val |-> val]

PutRequests == {Request("PUTREQ", k, v) : k \in Keys, v \in Vals}
DelRequests == {Request("DELREQ", k, NULL) : k \in Keys}
GetRequests == {Request("GETREQ", k, NULL) : k \in Keys}
\* What else a decision carries is not read.
Decisions == {Request(d, NULL, NULL) : d \in {"COMMIT", "ABORT"}}
Requests == PutRequests \cup DelRequests \cup GetRequests \cup Decisions

Response(type, body) == [type |-> type, body |-> body]
Vote == Response("VOTE", "commit")
Ack == Response("ACK", NULL)
Error == Response("ERROR", NULL)

Pending(msg, key, val) == [msg |-> msg, key |-> key, val |-> val]
Cleared == Pending("EMPTY", NULL, NULL)

\* kvserver_init leaves the three pending fields uninitialised.  A message type
\* that is none of PUTREQ, DELREQ and EMPTY behaves as EMPTY.
Garbage == {Pending(m, Wild, Wild) : m \in UninitMsgs}

Idle == [pc |-> "idle", from |-> NULL, req |-> NULL, res |-> NULL]
Closed == [st |-> "closed", to |-> NULL, res |-> NULL]

ServerInit ==
  /\ up = [f \in Followers |-> TRUE]
  /\ pending \in [Followers -> Garbage]
  /\ log = [f \in Followers |-> << >>]
  /\ nextid = [f \in Followers |-> 0]
  /\ store = [f \in Followers |-> [k \in Keys |-> NULL]]
  /\ wq = [f \in Followers |-> << >>]
  /\ work = [f \in Followers |-> [w \in Workers |-> Idle]]
  /\ conn = [c \in Conns |-> Closed]
  /\ crashes = 0
  /\ saved = [f \in Followers |-> NULL]
  /\ promised = [f \in Followers |-> NULL]
  /\ strayed = [f \in Followers |-> {}]

-----------------------------------------------------------------------------
(* Connections *)

\* connect_to and the send that follows it reach a running follower: its accept
\* loop queues the connection.
Connect(c, f, r) ==
  /\ up[f] /\ conn[c].st = "closed"
  /\ wq' = [wq EXCEPT ![f] = Append(@, [from |-> c, req |-> r])]
  /\ conn' = [conn EXCEPT ![c] = [st |-> "open", to |-> f, res |-> NULL]]
  /\ UNCHANGED <<server, work>>

\* The client closes its end.  A request still queued or being handled is
\* handled all the same; only its answer goes nowhere.
Disconnect(c) ==
  /\ conn[c].st # "closed"
  /\ conn' = [conn EXCEPT ![c] = Closed]
  /\ wq' = [f \in Followers |->
              [i \in DOMAIN wq[f] |->
                 IF wq[f][i].from = c THEN [wq[f][i] EXCEPT !.from = NULL] ELSE wq[f][i]]]
  /\ work' = [f \in Followers |->
                [w \in Workers |->
                   IF work[f][w].from = c THEN [work[f][w] EXCEPT !.from = NULL] ELSE work[f][w]]]
  /\ UNCHANGED server

-----------------------------------------------------------------------------
(* The worker threads *)

At(f, w, label) == up[f] /\ work[f][w].pc = label
Handles(f, w, type) == At(f, w, "act") /\ work[f][w].req.type = type
Goto(f, w, label) == work' = [work EXCEPT ![f][w].pc = label]
Answer(f, w, res) == work' = [work EXCEPT ![f][w].pc = "reply", ![f][w].res = res]

\* A worker has a message of a transaction in hand, until it has answered it.
Busy(f, w) == work[f][w].pc # "idle" /\ work[f][w].req.type # "GETREQ"

\* wq_pop and kvrequest_recieve; every message but GET is logged first.  A
\* follower strays ("mixed") when a worker takes a message of a transaction while
\* another has one in hand: nothing keeps their steps apart.
Take(f, w) ==
  /\ At(f, w, "idle") /\ wq[f] # << >>
  /\ LET job == Head(wq[f])
     IN  work' = [work EXCEPT ![f][w] =
                    [pc |-> IF job.req.type = "GETREQ" THEN "act" ELSE "log",
                     from |-> job.from, req |-> job.req, res |-> NULL]]
  /\ strayed' = [strayed EXCEPT ![f] =
                   IF Head(wq[f]).req.type # "GETREQ" /\ \E u \in Workers : Busy(f, u)
                   THEN @ \cup {"mixed"} ELSE @]
  /\ wq' = [wq EXCEPT ![f] = Tail(@)]
  /\ UNCHANGED <<up, pending, log, nextid, store, crashes, saved, promised, conn>>

\* tpclog_log opens the file number nextid: it creates the file, or reopens the
\* one this process already wrote, or is denied and returns an error nobody
\* looks at ("unlogged").
LogOpen(f, w) ==
  /\ At(f, w, "log")
  /\ \/ /\ Len(log[f]) = nextid[f]
        /\ log' = [log EXCEPT ![f] = Append(@, Torn)]
        /\ Goto(f, w, "write")
        /\ UNCHANGED strayed
     \/ /\ Len(log[f]) > nextid[f] /\ f \in Privileged
        /\ Goto(f, w, "write")
        /\ UNCHANGED <<log, strayed>>
     \/ /\ Len(log[f]) > nextid[f] /\ f \notin Privileged
        /\ strayed' = [strayed EXCEPT ![f] = @ \cup {"unlogged"}]
        /\ Goto(f, w, "act")
        /\ UNCHANGED log
  /\ UNCHANGED <<up, pending, nextid, store, crashes, saved, promised, wq, conn>>

\* tpclog_log writes the entry over what the file held.
LogWrite(f, w) ==
  /\ At(f, w, "write")
  /\ log' = [log EXCEPT ![f][nextid[f] + 1] = work[f][w].req]
  /\ promised' = [promised EXCEPT ![f] =
                    IF work[f][w].req.type = "COMMIT" /\ pending[f].msg # "EMPTY"
                         /\ pending[f].key # Wild
                    THEN pending[f] ELSE @]
  /\ Goto(f, w, "act")
  /\ UNCHANGED <<up, pending, nextid, store, crashes, saved, strayed, wq, conn>>

\* PUT: the result of kvserver_put_check is ignored; the transaction becomes
\* pending whatever it says.
ActPut(f, w) ==
  /\ Handles(f, w, "PUTREQ")
  /\ pending' = [pending EXCEPT ![f].msg = "PUTREQ"]
  /\ Goto(f, w, "setkey")
  /\ UNCHANGED <<up, log, nextid, store, crashes, saved, promised, strayed, wq, conn>>

\* DELETE: a key that is not stored is answered with ERROR.
ActDel(f, w) ==
  /\ Handles(f, w, "DELREQ")
  /\ \/ /\ store[f][work[f][w].req.key] # NULL
        /\ pending' = [pending EXCEPT ![f].msg = "DELREQ"]
        /\ Goto(f, w, "setkey")
     \/ /\ store[f][work[f][w].req.key] = NULL
        /\ Answer(f, w, Error)
        /\ UNCHANGED pending
  /\ UNCHANGED <<up, log, nextid, store, crashes, saved, promised, strayed, wq, conn>>

SetKey(f, w) ==
  /\ At(f, w, "setkey")
  /\ pending' = [pending EXCEPT ![f].key = work[f][w].req.key]
  /\ Goto(f, w, "setval")
  /\ UNCHANGED <<up, log, nextid, store, crashes, saved, promised, strayed, wq, conn>>

SetVal(f, w) ==
  /\ At(f, w, "setval")
  /\ pending' = [pending EXCEPT ![f].val = work[f][w].req.val]
  /\ Answer(f, w, Vote)
  /\ UNCHANGED <<up, log, nextid, store, crashes, saved, promised, strayed, wq, conn>>

\* Mutation: a COMMIT that finds nothing pending, such as a repeated one, is refused.
ActCommit_Refused(f, w) ==
  /\ Handles(f, w, "COMMIT")
  /\ \/ pending[f].msg = "PUTREQ" /\ Goto(f, w, "put")
     \/ pending[f].msg = "DELREQ" /\ Goto(f, w, "del")
     \/ pending[f].msg = "EMPTY" /\ Answer(f, w, Error)
  /\ UNCHANGED <<server, wq, conn>>

\* COMMIT: what is pending is read once, and decides what is done.
ActCommit(f, w) ==
  /\ Handles(f, w, "COMMIT")
  /\ \/ pending[f].msg = "PUTREQ" /\ Goto(f, w, "put")
     \/ pending[f].msg = "DELREQ" /\ Goto(f, w, "del")
     \/ pending[f].msg = "EMPTY" /\ Answer(f, w, Ack)
  /\ UNCHANGED <<server, wq, conn>>

\* The process ends: its memory, its queue and its connections are gone.
Die(f) ==
  /\ up' = [up EXCEPT ![f] = FALSE]
  /\ pending' = [pending EXCEPT ![f] = NULL]
  /\ wq' = [wq EXCEPT ![f] = << >>]
  /\ work' = [work EXCEPT ![f] = [w \in Workers |-> Idle]]
  /\ conn' = [c \in Conns |-> IF conn[c].st = "open" /\ conn[c].to = f
                              THEN [conn[c] EXCEPT !.st = "reset"] ELSE conn[c]]
  /\ saved' = [saved EXCEPT ![f] = IF \A w \in Workers : work[f][w].pc = "idle"
                                   THEN pending[f] ELSE NULL]
  /\ UNCHANGED <<log, nextid, store, strayed>>

\* kvserver_put and kvserver_del on the pending fields: a NULL key or value is
\* a segmentation fault, a wild one is a fault or touches no key that matters,
\* a key that fails its check changes nothing.
ApplyFaults(f, w) ==
  /\ \/ At(f, w, "put") /\ ( \/ pending[f].key \in {NULL, Wild}
                             \/ pending[f].key \notin BadKeys /\ pending[f].val \in {NULL, Wild} )
     \/ At(f, w, "del") /\ pending[f].key \in {NULL, Wild}
  /\ Die(f)
  /\ UNCHANGED <<crashes, promised>>

\* What the store of f holds after the pending operation.
Applied(f, w) ==
  LET p == pending[f]
  IN  IF p.key \in Keys \ BadKeys
      THEN [store[f] EXCEPT ![p.key] = IF work[f][w].pc = "put" THEN p.val ELSE NULL]
      ELSE store[f]

Apply(f, w) ==
  /\ \/ /\ At(f, w, "put")
        /\ pending[f].key # NULL
        /\ pending[f].key \in BadKeys \/ pending[f].val # NULL
     \/ /\ At(f, w, "del")
        /\ pending[f].key # NULL
  /\ store' = [store EXCEPT ![f] = Applied(f, w)]
  /\ promised' = [promised EXCEPT ![f] = NULL]
  /\ Goto(f, w, "clrkey")
  /\ UNCHANGED <<up, pending, log, nextid, crashes, saved, strayed, wq, conn>>

ActAbort(f, w) ==
  /\ Handles(f, w, "ABORT")
  /\ Goto(f, w, "clrkey")
  /\ UNCHANGED <<server, wq, conn>>

\* COMMIT and ABORT end by clearing the pending fields one after the other.
ClrKey(f, w) ==
  /\ At(f, w, "clrkey")
  /\ pending' = [pending EXCEPT ![f].key = NULL]
  /\ Goto(f, w, "clrval")
  /\ UNCHANGED <<up, log, nextid, store, crashes, saved, promised, strayed, wq, conn>>

ClrVal(f, w) ==
  /\ At(f, w, "clrval")
  /\ pending' = [pending EXCEPT ![f].val = NULL]
  /\ Goto(f, w, "clrmsg")
  /\ UNCHANGED <<up, log, nextid, store, crashes, saved, promised, strayed, wq, conn>>

\* Mutation: the message type stays pending.
ClrMsg_Kept(f, w) ==
  /\ At(f, w, "clrmsg")
  /\ Answer(f, w, Ack)
  /\ UNCHANGED <<up, pending, log, nextid, store, crashes, saved, promised, strayed, wq, conn>>

ClrMsg(f, w) ==
  /\ At(f, w, "clrmsg")
  /\ pending' = [pending EXCEPT ![f].msg = "EMPTY"]
  /\ Answer(f, w, Ack)
  /\ UNCHANGED <<up, log, nextid, store, crashes, saved, promised, strayed, wq, conn>>

ActGet(f, w) ==
  /\ Handles(f, w, "GETREQ")
  /\ LET v == store[f][work[f][w].req.key]
     IN  Answer(f, w, IF v # NULL THEN Response("GETRESP", v) ELSE Error)
  /\ UNCHANGED <<server, wq, conn>>

\* kvresponse_send, then the worker closes the socket and asks for more work.
Reply(f, w) ==
  /\ At(f, w, "reply")
  /\ conn' = IF work[f][w].from = NULL THEN conn
             ELSE [conn EXCEPT ![work[f][w].from].st = "answered",
                               ![work[f][w].from].res = work[f][w].res]
  /\ work' = [work EXCEPT ![f][w] = Idle]
  /\ UNCHANGED <<server, wq>>

-----------------------------------------------------------------------------
(* Crash and recovery *)

Crash(f) ==
  /\ up[f] /\ crashes < MaxCrashes
  /\ crashes' = crashes + 1
  /\ Die(f)
  /\ UNCHANGED promised

\* What kvserver_rebuild_state can leave pending after a given last log entry.
\* The key of a DELETE is copied through the uninitialised pending_key, and a
\* COMMIT entry acts on the uninitialised fields: a process that dies of either
\* is one that has not restarted yet.
RebuiltFrom(entry) ==
  CASE entry.type = "PUTREQ" -> {Pending("PUTREQ", entry.key, entry.val)}
    [] entry.type = "DELREQ" -> {Pending("DELREQ", entry.key, NULL)}
    [] entry.type = "COMMIT" -> {IF g.msg = "EMPTY" THEN g ELSE Cleared : g \in Garbage}
    [] entry.type = "ABORT" -> {Cleared}

\* An empty log leaves the fields as they are; a torn last file cannot be loaded,
\* and the process dies of the NULL entry.
Rebuilt(entry) ==
  CASE entry = NULL -> Garbage
    [] entry = Torn -> {}
    [] OTHER -> RebuiltFrom(entry)

\* Mutation: the iteration stops at the first entry.
LastEntry_First(f) == IF log[f] = << >> THEN NULL ELSE log[f][1]

\* The iteration of kvserver_rebuild_state keeps the last entry only.
LastEntry(f) == IF log[f] = << >> THEN NULL ELSE log[f][Len(log[f])]

\* kvserver_init and the registration, which goes on whatever the leader says; a
\* process that cannot reach the leader ends, and stays down.  A restart after a
\* life with an unlogged message is marked for good ("forgot").
Restart(f) ==
  /\ ~up[f]
  /\ \E p \in Rebuilt(LastEntry(f)) : pending' = [pending EXCEPT ![f] = p]
  /\ up' = [up EXCEPT ![f] = TRUE]
  /\ nextid' = [nextid EXCEPT ![f] = Len(log[f])]
  /\ saved' = [saved EXCEPT ![f] = NULL]
  /\ promised' = [promised EXCEPT ![f] = NULL]
  /\ strayed' = [strayed EXCEPT ![f] =
                   IF "unlogged" \in @ THEN (@ \ {"unlogged"}) \cup {"forgot"} ELSE @]
  /\ UNCHANGED <<log, store, wq, work, conn, crashes>>

-----------------------------------------------------------------------------
\* One step of a worker.
WorkerStep(f, w) ==
  \/ Take(f, w) \/ LogOpen(f, w) \/ LogWrite(f, w)
  \/ ActPut(f, w) \/ ActDel(f, w) \/ SetKey(f, w) \/ SetVal(f, w)
  \/ ActCommit(f, w) \/ Apply(f, w) \/ ApplyFaults(f, w)
  \/ ActAbort(f, w) \/ ClrKey(f, w) \/ ClrVal(f, w) \/ ClrMsg(f, w)
  \/ ActGet(f, w) \/ Reply(f, w)

FollowerStep(f) == Crash(f) \/ Restart(f) \/ \E w \in Workers : WorkerStep(f, w)

\* On their own, followers face clients that send any request at any time.
ClientStep(c) == Disconnect(c) \/ \E f \in Followers, r \in Requests : Connect(c, f, r)

Next == (\E f \in Followers : FollowerStep(f)) \/ (\E c \in Conns : ClientStep(c))

Spec == ServerInit /\ [][Next]_serverVars

-----------------------------------------------------------------------------
(* Properties *)

Labels == {"idle", "log", "write", "act", "setkey", "setval", "put", "del",
           "clrkey", "clrval", "clrmsg", "reply"}
Responses == {Vote, Ack, Error} \cup {Response("GETRESP", v) : v \in Vals \cup {Wild}}
PendingRecords ==
  [msg : {"PUTREQ", "DELREQ", "EMPTY"}, key : Keys \cup {NULL, Wild},
   val : Vals \cup {NULL, Wild}]
Mishaps == SUBSET {"mixed", "unlogged", "forgot"}
LogEntries == PutRequests \cup DelRequests \cup Decisions

\* A null pointer and an unwritten file are not requests or pending fields.
ASSUME PointerAssumption ==
  NULL # Torn /\ {NULL, Torn} \cap (Requests \cup PendingRecords) = {}

\* The types; a follower has pending fields exactly while its process runs, so a
\* restart always rebuilds them (kvserver.h:34-48, kvserver.c:19-39, 248-306).
TypeOK ==
  /\ up \in [Followers -> BOOLEAN]
  /\ pending \in [Followers -> PendingRecords \cup {NULL}]
  /\ \A f \in Followers : up[f] <=> pending[f] # NULL
  /\ log \in [Followers -> Seq(LogEntries \cup {Torn})]
  /\ nextid \in [Followers -> Nat]
  /\ store \in [Followers -> [Keys -> Vals \cup {NULL, Wild}]]
  /\ wq \in [Followers -> Seq([from : Conns \cup {NULL}, req : Requests])]
  /\ work \in [Followers -> [Workers ->
                 [pc : Labels, from : Conns \cup {NULL},
                  req : Requests \cup {NULL}, res : Responses \cup {NULL}]]]
  /\ conn \in [Conns -> [st : {"closed", "open", "answered", "reset"},
                         to : Followers \cup {NULL}, res : Responses \cup {NULL}]]
  /\ crashes \in 0..MaxCrashes
  /\ saved \in [Followers -> PendingRecords \cup {NULL}]
  /\ promised \in [Followers -> PendingRecords \cup {NULL}]
  /\ strayed \in [Followers -> Mishaps]

\* As long as the messages of its transactions were handled one at a time, a
\* follower's COMMIT that finds a PUT or DELETE pending also finds its key and
\* value: the three fields are never seen half set or half cleared, whatever is
\* late, repeated or lost in a crash (kvserver.c:138-181).  Only the fields a new
\* process never initialised can be wild.
CommitHasOperands ==
  \A f \in Followers, w \in Workers : "mixed" \notin strayed[f] =>
    /\ At(f, w, "put") => /\ pending[f].key # NULL /\ pending[f].val # NULL
                         /\ (pending[f].key = Wild) <=> (pending[f].val = Wild)
    /\ At(f, w, "del") => pending[f].key # NULL

\* The comment on kvserver_rebuild_state: a COMMIT that was logged is finished
\* upon rebuild, even if the server crashed right after (kvserver.c:231-234).
CommitFinished ==
  [][\A f \in Followers :
       ~up[f] /\ up'[f] /\ promised[f] # NULL
         => store'[f][promised[f].key] =
              IF promised[f].msg = "PUTREQ" THEN promised[f].val ELSE NULL]_serverVars

=============================================================================
