--------------------------- MODULE TPCSystemProofs ---------------------------
(***************************************************************************)
(* Proofs about the followers and about two-phase commit, for any          *)
(* followers, workers, clients, keys, values, leader threads, redundancy   *)
(* and numbers of requests, timeouts and crashes.                          *)
(*                                                                         *)
(* The first part is about the followers of KVServer, whoever their        *)
(* clients are; it holds in the system too.  What two-phase commit adds,   *)
(* in the second part, holds for as long as the system is Orderly.         *)
(***************************************************************************)
EXTENDS TPCSystem, FiniteSetTheorems, SequenceTheorems, TLAPS

-----------------------------------------------------------------------------
(* PART I: the followers *)

Writes == PutRequests \cup DelRequests

-----------------------------------------------------------------------------
(* The inductive invariant *)

\* What the place of a worker says of its request, its answer and the log file
\* it is writing.
WorkerInPlace(f, w) ==
  LET x == work[f][w]
  IN  /\ x.pc = "idle" => x.from = NULL /\ x.req = NULL
      /\ x.pc # "idle" => up[f] /\ x.req \in Requests
      /\ x.pc \in {"log", "write"} => x.req \in LogEntries
      /\ x.pc = "write" => Len(log[f]) = nextid[f] + 1
      /\ x.pc \in {"setkey", "setval"} => x.req \in Writes
      /\ x.pc \in {"put", "del"} => x.req \in Decisions /\ x.req.type = "COMMIT"
      /\ x.pc \in {"clrkey", "clrval", "clrmsg"} => x.req \in Decisions
      /\ x.pc = "reply" => x.res \in Responses
      /\ x.pc = "reply" /\ x.res = Vote => x.req \in Writes

WorkersInPlace == \A f \in Followers, w \in Workers : WorkerInPlace(f, w)

\* All messages of a process's life go to one file, since nextid is advanced in a
\* copy of the log descriptor: a running follower has no torn file but the one a
\* worker is about to write.
TornIsBeingWritten ==
  \A f \in Followers : up[f] =>
    /\ Len(log[f]) \in {nextid[f], nextid[f] + 1}
    /\ \A i \in DOMAIN log[f] :
         log[f][i] = Torn => i = nextid[f] + 1 /\ \E w \in Workers : At(f, w, "write")

\* The queue goes with the process, and only the last log file can be torn.
FilesInPlace ==
  \A f \in Followers :
    /\ ~up[f] => wq[f] = << >>
    /\ \A i \in DOMAIN log[f] : log[f][i] = Torn => i = Len(log[f])

\* A client that waits is waiting for one message, at the follower its
\* connection leads to; an answered client has its answer.
ConnsInPlace ==
  /\ \A f \in Followers : \A n \in DOMAIN wq[f] : wq[f][n].from # NULL =>
       /\ conn[wq[f][n].from].st = "open" /\ conn[wq[f][n].from].to = f
       /\ \A m \in DOMAIN wq[f] : wq[f][m].from = wq[f][n].from => m = n
       /\ \A w \in Workers : work[f][w].from # wq[f][n].from
  /\ \A f \in Followers, w \in Workers : work[f][w].from # NULL =>
       /\ conn[work[f][w].from].st = "open" /\ conn[work[f][w].from].to = f
       /\ \A v \in Workers : work[f][v].from = work[f][w].from => v = w
  /\ \A c \in Conns : conn[c].st = "answered" => conn[c].res \in Responses

ServerInv == TypeOK /\ TornIsBeingWritten /\ WorkersInPlace /\ FilesInPlace /\ ConnsInPlace

-----------------------------------------------------------------------------
(* Messages of transactions handled one at a time *)

\* No other worker has a message of a transaction in hand.
Alone(f, w) == \A v \in Workers : Busy(f, v) => v = w
Serial(f) == \A w \in Workers : Busy(f, w) => Alone(f, w)

PendingOf(r) == Pending(r.type, r.key, r.val)

\* A PUT has its key and value, a DELETE its key; they are wild together.
Coherent(p) ==
  /\ p.msg = "PUTREQ" => p.key # NULL /\ p.val # NULL /\ (p.key = Wild <=> p.val = Wild)
  /\ p.msg = "DELREQ" => p.key # NULL

\* The pending fields are half set or half cleared only while the worker is at
\* it; a worker that votes has made its request pending, and a process that logs
\* every message has the one being handled as its last log entry.
HandlingInPlace(f, w) ==
  LET x == work[f][w]
      p == pending[f]
  IN  up[f] =>
      /\ x.pc \notin {"setkey", "setval", "clrval", "clrmsg"} => Coherent(p)
      /\ x.pc \in {"setkey", "setval"} => p.msg = x.req.type
      /\ x.pc = "setval" => p.key = x.req.key
      /\ x.pc = "put" => p.msg = "PUTREQ"
      /\ x.pc = "del" => p.msg = "DELREQ"
      /\ x.pc = "reply" /\ x.res = Vote => x.req \in Writes /\ p = PendingOf(x.req)
      /\ "unlogged" \notin strayed[f] /\ x.req \in LogEntries /\ x.pc \notin {"log", "write"} =>
           LastEntry(f) = x.req

SingleInv ==
  \A f \in Followers : "mixed" \notin strayed[f] =>
    Serial(f) /\ \A w \in Workers : Alone(f, w) => HandlingInPlace(f, w)

-----------------------------------------------------------------------------
(* Steps that move one worker *)

WorkRecords ==
  [pc : Labels, from : Conns \cup {NULL}, req : Requests \cup {NULL}, res : Responses \cup {NULL}]

\* The constants are apart from each other.
LEMMA NullFacts ==
  /\ NULL \notin Requests /\ NULL \notin LogEntries /\ Torn \notin LogEntries
  /\ NULL \notin PendingRecords /\ NULL # Torn
  /\ NULL # Wild /\ NULL \notin Keys /\ NULL \notin Vals /\ NULL \notin Conns
  /\ Wild \notin Keys /\ Wild \notin Vals /\ BadKeys \subseteq Keys
  /\ LogEntries \subseteq Requests /\ Writes \subseteq LogEntries /\ Decisions \subseteq LogEntries
  /\ GetRequests \subseteq Requests /\ GetRequests \cap LogEntries = {}
<1>1. LogEntries \subseteq Requests /\ GetRequests \subseteq Requests
  BY DEF LogEntries, Requests
<1>2. Writes \subseteq LogEntries /\ Decisions \subseteq LogEntries
  BY DEF LogEntries, Writes
<1>3. GetRequests \cap LogEntries = {}
  BY DEF GetRequests, LogEntries, PutRequests, DelRequests, Decisions, Request
<1>. QED
  BY <1>1, <1>2, <1>3, ServerAssumption, PointerAssumption

\* What a request of each type is.
LEMMA RequestFacts ==
  ASSUME NEW r \in Requests
  PROVE  /\ r.type \in {"PUTREQ", "DELREQ", "GETREQ", "COMMIT", "ABORT"}
         /\ r.type = "PUTREQ" => r \in PutRequests /\ r.key \in Keys /\ r.val \in Vals
         /\ r.type = "DELREQ" => r \in DelRequests /\ r.key \in Keys /\ r.val = NULL
         /\ r.type = "GETREQ" => r \in GetRequests /\ r.key \in Keys
         /\ r.type \in {"COMMIT", "ABORT"} => r \in Decisions
         /\ r \in LogEntries <=> r.type # "GETREQ"
         /\ r \in Writes <=> r.type \in {"PUTREQ", "DELREQ"}
         /\ r = Request(r.type, r.key, r.val)
BY DEF Requests, LogEntries, Writes, PutRequests, DelRequests, GetRequests, Decisions, Request

\* A worker that goes on keeps its connection, request and response.
LEMMA GotoFacts ==
  ASSUME TypeOK, NEW f \in Followers, NEW w \in Workers, NEW label \in Labels,
         Goto(f, w, label)
  PROVE  \E y \in WorkRecords :
           /\ work' = [work EXCEPT ![f][w] = y]
           /\ y.pc = label /\ y.from = work[f][w].from
           /\ y.req = work[f][w].req /\ y.res = work[f][w].res
<1>. DEFINE y == [work[f][w] EXCEPT !.pc = label]
<1>1. work[f][w] \in WorkRecords
  BY DEF TypeOK, WorkRecords
<1>2. y \in WorkRecords /\ y.pc = label /\ y.from = work[f][w].from
      /\ y.req = work[f][w].req /\ y.res = work[f][w].res
  BY <1>1 DEF WorkRecords
<1>3. work' = [work EXCEPT ![f][w] = y]
  BY DEF Goto
<1>. QED
  BY <1>2, <1>3

\* A worker that answers keeps its connection and request.
LEMMA AnswerFacts ==
  ASSUME TypeOK, NEW f \in Followers, NEW w \in Workers, NEW res \in Responses,
         Answer(f, w, res)
  PROVE  \E y \in WorkRecords :
           /\ work' = [work EXCEPT ![f][w] = y]
           /\ y.pc = "reply" /\ y.from = work[f][w].from
           /\ y.req = work[f][w].req /\ y.res = res
<1>. DEFINE y == [work[f][w] EXCEPT !.pc = "reply", !.res = res]
<1>1. work[f][w] \in WorkRecords
  BY DEF TypeOK, WorkRecords
<1>2. y \in WorkRecords /\ y.pc = "reply" /\ y.from = work[f][w].from
      /\ y.req = work[f][w].req /\ y.res = res
  BY <1>1 DEF WorkRecords, Labels
<1>3. work' = [work EXCEPT ![f][w] = y]
  BY <1>1 DEF Answer, TypeOK, WorkRecords
<1>. QED
  BY <1>2, <1>3

\* A worker that moves within its handler disturbs no queue, log or connection.
LEMMA LocalStep ==
  ASSUME ServerInv, NEW f \in Followers, NEW w \in Workers, NEW y \in WorkRecords,
         work' = [work EXCEPT ![f][w] = y],
         y.from = work[f][w].from, y.req = work[f][w].req,
         work[f][w].pc \notin {"idle", "write"}, y.pc # "idle",
         UNCHANGED <<up, log, nextid, wq, conn>>,
         WorkerInPlace(f, w)'
  PROVE  /\ work' \in [Followers -> [Workers -> WorkRecords]]
         /\ TornIsBeingWritten' /\ WorkersInPlace' /\ FilesInPlace' /\ ConnsInPlace'
<1>. USE DEF ServerInv
<1>1. /\ work' \in [Followers -> [Workers -> WorkRecords]]
      /\ work'[f][w] = y
      /\ \A g \in Followers, v \in Workers : g # f \/ v # w => work'[g][v] = work[g][v]
  BY DEF TypeOK, WorkRecords
<1>2. TornIsBeingWritten'
  BY <1>1 DEF TornIsBeingWritten, At
<1>3. WorkersInPlace'
  BY <1>1 DEF WorkersInPlace, WorkerInPlace
<1>4. FilesInPlace'
  BY DEF FilesInPlace
<1>5. ConnsInPlace'
  <2>1. \A g \in Followers, v \in Workers : work'[g][v].from = work[g][v].from
    BY <1>1
  <2>2. ASSUME NEW g \in Followers, NEW n \in DOMAIN wq[g], wq[g][n].from # NULL
        PROVE  /\ conn[wq[g][n].from].st = "open" /\ conn[wq[g][n].from].to = g
               /\ \A m \in DOMAIN wq[g] : wq[g][m].from = wq[g][n].from => m = n
               /\ \A v \in Workers : work'[g][v].from # wq[g][n].from
    BY <2>1, <2>2 DEF ConnsInPlace
  <2>3. ASSUME NEW g \in Followers, NEW v \in Workers, work'[g][v].from # NULL
        PROVE  /\ conn[work'[g][v].from].st = "open" /\ conn[work'[g][v].from].to = g
               /\ \A u \in Workers : work'[g][u].from = work'[g][v].from => u = v
    BY <2>1, <2>3 DEF ConnsInPlace
  <2>4. \A c \in Conns : conn[c].st = "answered" => conn[c].res \in Responses
    BY DEF ConnsInPlace
  <2>5. wq' = wq /\ conn' = conn
    OBVIOUS
  <2>6. \A g \in Followers : \A n \in DOMAIN wq'[g] : wq'[g][n].from # NULL =>
          /\ conn'[wq'[g][n].from].st = "open" /\ conn'[wq'[g][n].from].to = g
          /\ \A m \in DOMAIN wq'[g] : wq'[g][m].from = wq'[g][n].from => m = n
          /\ \A v \in Workers : work'[g][v].from # wq'[g][n].from
    BY <2>2, <2>5
  <2>7. \A g \in Followers, v \in Workers : work'[g][v].from # NULL =>
          /\ conn'[work'[g][v].from].st = "open" /\ conn'[work'[g][v].from].to = g
          /\ \A u \in Workers : work'[g][u].from = work'[g][v].from => u = v
    BY <2>3, <2>5
  <2>8. \A c \in Conns : conn'[c].st = "answered" => conn'[c].res \in Responses
    BY <2>4, <2>5
  <2>. QED
    BY <2>6, <2>7, <2>8, Zenon DEF ConnsInPlace
<1>. QED
  BY <1>1, <1>2, <1>3, <1>4, <1>5

\* The steps of a handler change the pending fields of a running follower only.
LEMMA FieldsType ==
  ASSUME TypeOK, NEW f \in Followers, up[f], NEW p \in PendingRecords,
         pending' = [pending EXCEPT ![f] = p],
         work' \in [Followers -> [Workers -> WorkRecords]],
         UNCHANGED <<up, log, nextid, store, crashes, saved, promised, strayed, wq, conn>>
  PROVE  TypeOK'
<1>1. pending' \in [Followers -> PendingRecords \cup {NULL}]
  BY DEF TypeOK
<1>2. \A g \in Followers : up'[g] <=> pending'[g] # NULL
  BY NullFacts DEF TypeOK
<1>. QED
  BY <1>1, <1>2 DEF TypeOK, WorkRecords

\* The steps of a handler after its message is logged, and those that log nothing.
LEMMA HandlerKeepsInv ==
  ASSUME ServerInv, NEW f \in Followers, NEW w \in Workers,
         \/ ActPut(f, w) \/ ActDel(f, w) \/ SetKey(f, w) \/ SetVal(f, w)
         \/ ActCommit(f, w) \/ Apply(f, w) \/ ActAbort(f, w)
         \/ ClrKey(f, w) \/ ClrVal(f, w) \/ ClrMsg(f, w) \/ ActGet(f, w)
  PROVE  ServerInv'
<1>. USE NullFacts DEF ServerInv
<1>0. /\ WorkerInPlace(f, w) /\ TypeOK /\ (up[f] => pending[f] \in PendingRecords)
      /\ work[f][w].pc # "idle" =>
           /\ work[f][w].req.type = "PUTREQ" => work[f][w].req \in Writes
           /\ work[f][w].req.type = "DELREQ" => work[f][w].req \in Writes
           /\ work[f][w].req.type = "GETREQ" => work[f][w].req.key \in Keys
           /\ work[f][w].req.type \in {"COMMIT", "ABORT"} => work[f][w].req \in Decisions
           /\ work[f][w].req \in Writes =>
                work[f][w].req.key \in Keys /\ work[f][w].req.val \in Vals \cup {NULL}
  <2>1. WorkerInPlace(f, w) /\ TypeOK /\ (up[f] => pending[f] \in PendingRecords)
    BY DEF WorkersInPlace, TypeOK
  <2>2. work[f][w].pc # "idle" => work[f][w].req \in Requests
    BY <2>1 DEF WorkerInPlace
  <2>. QED
    BY <2>1, <2>2, RequestFacts
<1>1. CASE ActPut(f, w)
  <2>1. Goto(f, w, "setkey") /\ "setkey" \in Labels
    BY <1>1 DEF ActPut, Labels
  <2>2. PICK y \in WorkRecords :
          /\ work' = [work EXCEPT ![f][w] = y] /\ y.pc = "setkey"
          /\ y.from = work[f][w].from /\ y.req = work[f][w].req
    BY <2>1, GotoFacts
  <2>3. WorkerInPlace(f, w)'
    BY <1>0, <1>1, <2>1, <2>2 DEF WorkerInPlace, ActPut, Handles, At, server
  <2>4. /\ work' \in [Followers -> [Workers -> WorkRecords]]
        /\ TornIsBeingWritten' /\ WorkersInPlace' /\ FilesInPlace' /\ ConnsInPlace'
    BY <1>1, <2>2, <2>3, LocalStep DEF ActPut, Handles, At, server
  <2>5. PICK p \in PendingRecords : pending' = [pending EXCEPT ![f] = p]
    <3>1. [pending[f] EXCEPT !.msg = "PUTREQ"] \in PendingRecords
      BY <1>0, <1>1 DEF PendingRecords, WorkerInPlace, ActPut, Handles, At
    <3>. QED
      BY <1>1, <3>1 DEF ActPut
  <2>6. TypeOK'
    BY <1>0, <1>1, <2>4, <2>5, FieldsType DEF ActPut, Handles, At
  <2>. QED
    BY <2>4, <2>6
<1>2. CASE ActDel(f, w) /\ store[f][work[f][w].req.key] # NULL
  <2>1. Goto(f, w, "setkey") /\ "setkey" \in Labels
    BY <1>2 DEF ActDel, Labels
  <2>2. PICK y \in WorkRecords :
          /\ work' = [work EXCEPT ![f][w] = y] /\ y.pc = "setkey"
          /\ y.from = work[f][w].from /\ y.req = work[f][w].req
    BY <2>1, GotoFacts
  <2>3. WorkerInPlace(f, w)'
    BY <1>0, <1>2, <2>1, <2>2 DEF WorkerInPlace, ActDel, Handles, At, server
  <2>4. /\ work' \in [Followers -> [Workers -> WorkRecords]]
        /\ TornIsBeingWritten' /\ WorkersInPlace' /\ FilesInPlace' /\ ConnsInPlace'
    BY <1>2, <2>2, <2>3, LocalStep DEF ActDel, Handles, At, server
  <2>5. PICK p \in PendingRecords : pending' = [pending EXCEPT ![f] = p]
    <3>1. [pending[f] EXCEPT !.msg = "DELREQ"] \in PendingRecords
      BY <1>0, <1>2 DEF PendingRecords, WorkerInPlace, ActDel, Handles, At
    <3>. QED
      BY <1>2, <3>1 DEF ActDel
  <2>6. TypeOK'
    BY <1>0, <1>2, <2>4, <2>5, FieldsType DEF ActDel, Handles, At
  <2>. QED
    BY <2>4, <2>6
<1>3. CASE ActDel(f, w) /\ store[f][work[f][w].req.key] = NULL
  <2>1. Answer(f, w, Error) /\ Error \in Responses
    BY <1>3 DEF ActDel, Responses
  <2>2. PICK y \in WorkRecords :
          /\ work' = [work EXCEPT ![f][w] = y] /\ y.pc = "reply" /\ y.res = Error
          /\ y.from = work[f][w].from /\ y.req = work[f][w].req
    BY <2>1, AnswerFacts
  <2>3. WorkerInPlace(f, w)'
    BY <1>0, <1>3, <2>1, <2>2 DEF WorkerInPlace, ActDel, Handles, At, server
  <2>4. /\ work' \in [Followers -> [Workers -> WorkRecords]]
        /\ TornIsBeingWritten' /\ WorkersInPlace' /\ FilesInPlace' /\ ConnsInPlace'
    BY <1>3, <2>2, <2>3, LocalStep DEF ActDel, Handles, At, server
  <2>6. TypeOK'
    BY <1>0, <1>3, <2>4 DEF ActDel, TypeOK, WorkRecords, server
  <2>. QED
    BY <2>4, <2>6
<1>4. CASE SetKey(f, w)
  <2>1. Goto(f, w, "setval") /\ "setval" \in Labels
    BY <1>4 DEF SetKey, Labels
  <2>2. PICK y \in WorkRecords :
          /\ work' = [work EXCEPT ![f][w] = y] /\ y.pc = "setval"
          /\ y.from = work[f][w].from /\ y.req = work[f][w].req
    BY <2>1, GotoFacts
  <2>3. WorkerInPlace(f, w)'
    BY <1>0, <1>4, <2>1, <2>2 DEF WorkerInPlace, SetKey, Handles, At, server
  <2>4. /\ work' \in [Followers -> [Workers -> WorkRecords]]
        /\ TornIsBeingWritten' /\ WorkersInPlace' /\ FilesInPlace' /\ ConnsInPlace'
    BY <1>4, <2>2, <2>3, LocalStep DEF SetKey, Handles, At, server
  <2>5. PICK p \in PendingRecords : pending' = [pending EXCEPT ![f] = p]
    <3>1. [pending[f] EXCEPT !.key = work[f][w].req.key] \in PendingRecords
      BY <1>0, <1>4 DEF PendingRecords, WorkerInPlace, SetKey, Handles, At
    <3>. QED
      BY <1>4, <3>1 DEF SetKey
  <2>6. TypeOK'
    BY <1>0, <1>4, <2>4, <2>5, FieldsType DEF SetKey, Handles, At
  <2>. QED
    BY <2>4, <2>6
<1>5. CASE SetVal(f, w)
  <2>1. Answer(f, w, Vote) /\ Vote \in Responses
    BY <1>5 DEF SetVal, Responses
  <2>2. PICK y \in WorkRecords :
          /\ work' = [work EXCEPT ![f][w] = y] /\ y.pc = "reply" /\ y.res = Vote
          /\ y.from = work[f][w].from /\ y.req = work[f][w].req
    BY <2>1, AnswerFacts
  <2>3. WorkerInPlace(f, w)'
    BY <1>0, <1>5, <2>1, <2>2 DEF WorkerInPlace, SetVal, Handles, At, server
  <2>4. /\ work' \in [Followers -> [Workers -> WorkRecords]]
        /\ TornIsBeingWritten' /\ WorkersInPlace' /\ FilesInPlace' /\ ConnsInPlace'
    BY <1>5, <2>2, <2>3, LocalStep DEF SetVal, Handles, At, server
  <2>5. PICK p \in PendingRecords : pending' = [pending EXCEPT ![f] = p]
    <3>1. [pending[f] EXCEPT !.val = work[f][w].req.val] \in PendingRecords
      BY <1>0, <1>5 DEF PendingRecords, WorkerInPlace, SetVal, Handles, At
    <3>. QED
      BY <1>5, <3>1 DEF SetVal
  <2>6. TypeOK'
    BY <1>0, <1>5, <2>4, <2>5, FieldsType DEF SetVal, Handles, At
  <2>. QED
    BY <2>4, <2>6
<1>6. CASE ActCommit(f, w) /\ pending[f].msg = "PUTREQ"
  <2>1. Goto(f, w, "put") /\ "put" \in Labels
    BY <1>6 DEF ActCommit, Labels
  <2>2. PICK y \in WorkRecords :
          /\ work' = [work EXCEPT ![f][w] = y] /\ y.pc = "put"
          /\ y.from = work[f][w].from /\ y.req = work[f][w].req
    BY <2>1, GotoFacts
  <2>3. WorkerInPlace(f, w)'
    BY <1>0, <1>6, <2>1, <2>2 DEF WorkerInPlace, ActCommit, Handles, At, server
  <2>4. /\ work' \in [Followers -> [Workers -> WorkRecords]]
        /\ TornIsBeingWritten' /\ WorkersInPlace' /\ FilesInPlace' /\ ConnsInPlace'
    BY <1>6, <2>2, <2>3, LocalStep DEF ActCommit, Handles, At, server
  <2>6. TypeOK'
    BY <1>0, <1>6, <2>4 DEF ActCommit, TypeOK, WorkRecords, server
  <2>. QED
    BY <2>4, <2>6
<1>7. CASE ActCommit(f, w) /\ pending[f].msg = "DELREQ"
  <2>1. Goto(f, w, "del") /\ "del" \in Labels
    BY <1>7 DEF ActCommit, Labels
  <2>2. PICK y \in WorkRecords :
          /\ work' = [work EXCEPT ![f][w] = y] /\ y.pc = "del"
          /\ y.from = work[f][w].from /\ y.req = work[f][w].req
    BY <2>1, GotoFacts
  <2>3. WorkerInPlace(f, w)'
    BY <1>0, <1>7, <2>1, <2>2 DEF WorkerInPlace, ActCommit, Handles, At, server
  <2>4. /\ work' \in [Followers -> [Workers -> WorkRecords]]
        /\ TornIsBeingWritten' /\ WorkersInPlace' /\ FilesInPlace' /\ ConnsInPlace'
    BY <1>7, <2>2, <2>3, LocalStep DEF ActCommit, Handles, At, server
  <2>6. TypeOK'
    BY <1>0, <1>7, <2>4 DEF ActCommit, TypeOK, WorkRecords, server
  <2>. QED
    BY <2>4, <2>6
<1>8. CASE ActCommit(f, w) /\ pending[f].msg = "EMPTY"
  <2>1. Answer(f, w, Ack) /\ Ack \in Responses
    BY <1>8 DEF ActCommit, Responses
  <2>2. PICK y \in WorkRecords :
          /\ work' = [work EXCEPT ![f][w] = y] /\ y.pc = "reply" /\ y.res = Ack
          /\ y.from = work[f][w].from /\ y.req = work[f][w].req
    BY <2>1, AnswerFacts
  <2>3. WorkerInPlace(f, w)'
    BY <1>0, <1>8, <2>1, <2>2 DEF WorkerInPlace, ActCommit, Handles, At, server, Ack, Vote, Response
  <2>4. /\ work' \in [Followers -> [Workers -> WorkRecords]]
        /\ TornIsBeingWritten' /\ WorkersInPlace' /\ FilesInPlace' /\ ConnsInPlace'
    BY <1>8, <2>2, <2>3, LocalStep DEF ActCommit, Handles, At, server
  <2>6. TypeOK'
    BY <1>0, <1>8, <2>4 DEF ActCommit, TypeOK, WorkRecords, server
  <2>. QED
    BY <2>4, <2>6
<1>9. CASE Apply(f, w)
  <2>1. Goto(f, w, "clrkey") /\ "clrkey" \in Labels
    BY <1>9 DEF Apply, Labels
  <2>2. PICK y \in WorkRecords :
          /\ work' = [work EXCEPT ![f][w] = y] /\ y.pc = "clrkey"
          /\ y.from = work[f][w].from /\ y.req = work[f][w].req
    BY <2>1, GotoFacts
  <2>3. WorkerInPlace(f, w)'
    BY <1>0, <1>9, <2>1, <2>2 DEF WorkerInPlace, Apply, Handles, At, server
  <2>4. /\ work' \in [Followers -> [Workers -> WorkRecords]]
        /\ TornIsBeingWritten' /\ WorkersInPlace' /\ FilesInPlace' /\ ConnsInPlace'
    BY <1>9, <2>2, <2>3, LocalStep DEF Apply, Handles, At, server
  <2>5. Applied(f, w) \in [Keys -> Vals \cup {NULL, Wild}]
    BY <1>0, <1>9 DEF Applied, PendingRecords, TypeOK, Apply, At
  <2>6. TypeOK'
    BY <1>0, <1>9, <2>4, <2>5 DEF Apply, TypeOK, WorkRecords
  <2>. QED
    BY <2>4, <2>6
<1>10. CASE ActAbort(f, w)
  <2>1. Goto(f, w, "clrkey") /\ "clrkey" \in Labels
    BY <1>10 DEF ActAbort, Labels
  <2>2. PICK y \in WorkRecords :
          /\ work' = [work EXCEPT ![f][w] = y] /\ y.pc = "clrkey"
          /\ y.from = work[f][w].from /\ y.req = work[f][w].req
    BY <2>1, GotoFacts
  <2>3. WorkerInPlace(f, w)'
    BY <1>0, <1>10, <2>1, <2>2 DEF WorkerInPlace, ActAbort, Handles, At, server
  <2>4. /\ work' \in [Followers -> [Workers -> WorkRecords]]
        /\ TornIsBeingWritten' /\ WorkersInPlace' /\ FilesInPlace' /\ ConnsInPlace'
    BY <1>10, <2>2, <2>3, LocalStep DEF ActAbort, Handles, At, server
  <2>6. TypeOK'
    BY <1>0, <1>10, <2>4 DEF ActAbort, TypeOK, WorkRecords, server
  <2>. QED
    BY <2>4, <2>6
<1>11. CASE ClrKey(f, w)
  <2>1. Goto(f, w, "clrval") /\ "clrval" \in Labels
    BY <1>11 DEF ClrKey, Labels
  <2>2. PICK y \in WorkRecords :
          /\ work' = [work EXCEPT ![f][w] = y] /\ y.pc = "clrval"
          /\ y.from = work[f][w].from /\ y.req = work[f][w].req
    BY <2>1, GotoFacts
  <2>3. WorkerInPlace(f, w)'
    BY <1>0, <1>11, <2>1, <2>2 DEF WorkerInPlace, ClrKey, Handles, At, server
  <2>4. /\ work' \in [Followers -> [Workers -> WorkRecords]]
        /\ TornIsBeingWritten' /\ WorkersInPlace' /\ FilesInPlace' /\ ConnsInPlace'
    BY <1>11, <2>2, <2>3, LocalStep DEF ClrKey, Handles, At, server
  <2>5. PICK p \in PendingRecords : pending' = [pending EXCEPT ![f] = p]
    <3>1. [pending[f] EXCEPT !.key = NULL] \in PendingRecords
      BY <1>0, <1>11 DEF PendingRecords, WorkerInPlace, ClrKey, Handles, At
    <3>. QED
      BY <1>11, <3>1 DEF ClrKey
  <2>6. TypeOK'
    BY <1>0, <1>11, <2>4, <2>5, FieldsType DEF ClrKey, Handles, At
  <2>. QED
    BY <2>4, <2>6
<1>12. CASE ClrVal(f, w)
  <2>1. Goto(f, w, "clrmsg") /\ "clrmsg" \in Labels
    BY <1>12 DEF ClrVal, Labels
  <2>2. PICK y \in WorkRecords :
          /\ work' = [work EXCEPT ![f][w] = y] /\ y.pc = "clrmsg"
          /\ y.from = work[f][w].from /\ y.req = work[f][w].req
    BY <2>1, GotoFacts
  <2>3. WorkerInPlace(f, w)'
    BY <1>0, <1>12, <2>1, <2>2 DEF WorkerInPlace, ClrVal, Handles, At, server
  <2>4. /\ work' \in [Followers -> [Workers -> WorkRecords]]
        /\ TornIsBeingWritten' /\ WorkersInPlace' /\ FilesInPlace' /\ ConnsInPlace'
    BY <1>12, <2>2, <2>3, LocalStep DEF ClrVal, Handles, At, server
  <2>5. PICK p \in PendingRecords : pending' = [pending EXCEPT ![f] = p]
    <3>1. [pending[f] EXCEPT !.val = NULL] \in PendingRecords
      BY <1>0, <1>12 DEF PendingRecords, WorkerInPlace, ClrVal, Handles, At
    <3>. QED
      BY <1>12, <3>1 DEF ClrVal
  <2>6. TypeOK'
    BY <1>0, <1>12, <2>4, <2>5, FieldsType DEF ClrVal, Handles, At
  <2>. QED
    BY <2>4, <2>6
<1>13. CASE ClrMsg(f, w)
  <2>1. Answer(f, w, Ack) /\ Ack \in Responses
    BY <1>13 DEF ClrMsg, Responses
  <2>2. PICK y \in WorkRecords :
          /\ work' = [work EXCEPT ![f][w] = y] /\ y.pc = "reply" /\ y.res = Ack
          /\ y.from = work[f][w].from /\ y.req = work[f][w].req
    BY <2>1, AnswerFacts
  <2>3. WorkerInPlace(f, w)'
    BY <1>0, <1>13, <2>1, <2>2 DEF WorkerInPlace, ClrMsg, Handles, At, server, Ack, Vote, Response
  <2>4. /\ work' \in [Followers -> [Workers -> WorkRecords]]
        /\ TornIsBeingWritten' /\ WorkersInPlace' /\ FilesInPlace' /\ ConnsInPlace'
    BY <1>13, <2>2, <2>3, LocalStep DEF ClrMsg, Handles, At, server
  <2>5. PICK p \in PendingRecords : pending' = [pending EXCEPT ![f] = p]
    <3>1. [pending[f] EXCEPT !.msg = "EMPTY"] \in PendingRecords
      BY <1>0, <1>13 DEF PendingRecords, WorkerInPlace, ClrMsg, Handles, At
    <3>. QED
      BY <1>13, <3>1 DEF ClrMsg
  <2>6. TypeOK'
    BY <1>0, <1>13, <2>4, <2>5, FieldsType DEF ClrMsg, Handles, At
  <2>. QED
    BY <2>4, <2>6
<1>14. CASE ActGet(f, w)
  <2>. DEFINE v == store[f][work[f][w].req.key]
              res == IF v # NULL THEN Response("GETRESP", v) ELSE Error
  <2>1. Answer(f, w, res) /\ res \in Responses
    <3>1. work[f][w].req.key \in Keys
      BY <1>0, <1>14 DEF ActGet, Handles, At
    <3>2. v \in Vals \cup {NULL, Wild}
      BY <1>0, <3>1 DEF TypeOK
    <3>3. res \in Responses
      BY <3>2 DEF Responses
    <3>. QED
      BY <1>14, <3>3 DEF ActGet
  <2>0. res # Vote
    BY DEF Vote, Error, Response
  <2>. HIDE DEF res
  <2>2. PICK y \in WorkRecords :
          /\ work' = [work EXCEPT ![f][w] = y] /\ y.pc = "reply" /\ y.res = res
          /\ y.from = work[f][w].from /\ y.req = work[f][w].req
    BY <2>1, AnswerFacts
  <2>3. WorkerInPlace(f, w)'
    <3>1. work'[f][w] = y
      BY <1>0, <2>2 DEF TypeOK
    <3>2. UNCHANGED <<up, log, nextid>> /\ work[f][w].pc = "act" /\ up[f]
      BY <1>14 DEF ActGet, Handles, At, server
    <3>3. y.req \in Requests
      BY <1>0, <2>2, <3>2 DEF WorkersInPlace, WorkerInPlace
    <3>. QED
      BY <2>0, <2>1, <2>2, <3>1, <3>2, <3>3 DEF WorkerInPlace
  <2>4. /\ work' \in [Followers -> [Workers -> WorkRecords]]
        /\ TornIsBeingWritten' /\ WorkersInPlace' /\ FilesInPlace' /\ ConnsInPlace'
    BY <1>14, <2>2, <2>3, LocalStep DEF ActGet, Handles, At, server
  <2>5. TypeOK'
    <3>1. UNCHANGED <<up, pending, log, nextid, store, crashes, saved, promised, strayed, wq, conn>>
      BY <1>14 DEF ActGet, server
    <3>. QED
      BY <1>0, <2>4, <3>1 DEF TypeOK, WorkRecords
  <2>. QED
    BY <2>4, <2>5
<1>. QED
  BY <1>0, <1>1, <1>2, <1>3, <1>4, <1>5, <1>6, <1>7, <1>8, <1>9, <1>10, <1>11, <1>12, <1>13, <1>14 DEF PendingRecords, ActDel, ActCommit

-----------------------------------------------------------------------------
(* Queues, the log, crashes and clients *)

JobRecords == [from : Conns \cup {NULL}, req : Requests]
ConnRecords == [st : {"closed", "open", "answered", "reset"},
                to : Followers \cup {NULL}, res : Responses \cup {NULL}]

\* Taking the head of a queue.
LEMMA TailFacts ==
  ASSUME NEW S, NEW q \in Seq(S), q # << >>
  PROVE  /\ 1 \in DOMAIN q /\ Head(q) = q[1] /\ Head(q) \in S /\ Tail(q) \in Seq(S)
         /\ \A n \in DOMAIN Tail(q) : n + 1 \in DOMAIN q /\ n + 1 # 1 /\ Tail(q)[n] = q[n + 1]
<1>1. Len(q) \in Nat /\ Len(q) # 0 /\ DOMAIN q = 1..Len(q)
  OBVIOUS
<1>2. Tail(q) \in Seq(S) /\ Len(Tail(q)) = Len(q) - 1
  BY <1>1
<1>3. \A n \in 1..(Len(q) - 1) : n + 1 \in 1..Len(q) /\ n + 1 # 1 /\ Tail(q)[n] = q[n + 1]
  BY <1>1
<1>. QED
  BY <1>1, <1>2, <1>3

\* Appending to a queue or a log.
LEMMA AppendFacts ==
  ASSUME NEW S, NEW q \in Seq(S), NEW e \in S
  PROVE  /\ Append(q, e) \in Seq(S) /\ Len(Append(q, e)) = Len(q) + 1
         /\ Len(q) + 1 \in DOMAIN Append(q, e) /\ Append(q, e)[Len(q) + 1] = e
         /\ \A n \in DOMAIN q : n \in DOMAIN Append(q, e) /\ n # Len(q) + 1 /\ Append(q, e)[n] = q[n]
         /\ \A n \in DOMAIN Append(q, e) : n # Len(q) + 1 => n \in DOMAIN q
OBVIOUS

\* What has happened to a follower is not forgotten, and is its own; only a
\* restart turns a life with an unlogged message into one that forgot it.
LEMMA StrayedFacts ==
  ASSUME TypeOK, NEW f \in Followers, FollowerStep(f)
  PROVE  /\ strayed' \in [Followers -> Mishaps]
         /\ \A g \in Followers : g # f => strayed'[g] = strayed[g]
         /\ "mixed" \in strayed[f] => "mixed" \in strayed'[f]
         /\ "forgot" \in strayed[f] => "forgot" \in strayed'[f]
         /\ "forgot" \notin strayed'[f] => strayed[f] \subseteq strayed'[f]
<1>0. strayed \in [Followers -> Mishaps]
  BY DEF TypeOK
<1>1. ASSUME NEW s \in Mishaps, strayed' = [strayed EXCEPT ![f] = s],
             strayed[f] \ {"unlogged"} \subseteq s,
             "unlogged" \in strayed[f] => "unlogged" \in s \/ "forgot" \in s
      PROVE  /\ strayed' \in [Followers -> Mishaps]
             /\ \A g \in Followers : g # f => strayed'[g] = strayed[g]
             /\ "mixed" \in strayed[f] => "mixed" \in strayed'[f]
             /\ "forgot" \in strayed[f] => "forgot" \in strayed'[f]
             /\ "forgot" \notin strayed'[f] => strayed[f] \subseteq strayed'[f]
  <2>1. /\ strayed' \in [Followers -> Mishaps] /\ strayed'[f] = s
        /\ \A g \in Followers : g # f => strayed'[g] = strayed[g]
    BY <1>0, <1>1
  <2>. QED
    BY <1>1, <2>1
<1>2. CASE UNCHANGED strayed
  BY <1>0, <1>2
<1>3. ASSUME NEW w \in Workers, Take(f, w) \/ LogOpen(f, w), ~UNCHANGED strayed
      PROVE  \E x \in {"mixed", "unlogged"} : strayed' = [strayed EXCEPT ![f] = @ \cup {x}]
  <2>1. CASE Take(f, w)
    BY <1>0, <1>3, <2>1 DEF Take
  <2>2. CASE LogOpen(f, w)
    BY <1>3, <2>2 DEF LogOpen
  <2>. QED
    BY <1>3, <2>1, <2>2
<1>4. ASSUME NEW w \in Workers, Take(f, w) \/ LogOpen(f, w), ~UNCHANGED strayed
      PROVE  \E s \in Mishaps : /\ strayed' = [strayed EXCEPT ![f] = s]
                                /\ strayed[f] \subseteq s
  <2>1. PICK x \in {"mixed", "unlogged"} : strayed' = [strayed EXCEPT ![f] = strayed[f] \cup {x}]
    BY <1>3, <1>4
  <2>2. strayed[f] \cup {x} \in Mishaps
    BY <1>0 DEF Mishaps
  <2>. QED
    BY <2>1, <2>2
<1>5. CASE Restart(f)
  <2>. DEFINE s == IF "unlogged" \in strayed[f] THEN (strayed[f] \ {"unlogged"}) \cup {"forgot"}
                   ELSE strayed[f]
  <2>1. strayed' = [strayed EXCEPT ![f] = s]
    BY <1>5 DEF Restart
  <2>2. s \in Mishaps /\ strayed[f] \ {"unlogged"} \subseteq s
    BY <1>0 DEF Mishaps
  <2>3. "unlogged" \in strayed[f] => "forgot" \in s
    OBVIOUS
  <2>. HIDE DEF s
  <2>. QED
    BY <1>1, <2>1, <2>2, <2>3
<1>6. CASE Crash(f)
  BY <1>2, <1>6 DEF Crash, Die
<1>7. ASSUME NEW w \in Workers, WorkerStep(f, w), ~(Take(f, w) \/ LogOpen(f, w)) PROVE UNCHANGED strayed
  <2>1. CASE LogWrite(f, w) \/ ActPut(f, w) \/ ActDel(f, w) \/ SetKey(f, w) \/ SetVal(f, w)
    BY <2>1 DEF LogWrite, ActPut, ActDel, SetKey, SetVal
  <2>2. CASE ActCommit(f, w) \/ Apply(f, w) \/ ApplyFaults(f, w) \/ ActAbort(f, w)
    BY <2>2 DEF ActCommit, Apply, ApplyFaults, Die, ActAbort, server
  <2>3. CASE ClrKey(f, w) \/ ClrVal(f, w) \/ ClrMsg(f, w) \/ ActGet(f, w) \/ Reply(f, w)
    BY <2>3 DEF ClrKey, ClrVal, ClrMsg, ActGet, Reply, server
  <2>. QED
    BY <1>7, <2>1, <2>2, <2>3 DEF WorkerStep
<1>8. CASE \E w \in Workers : WorkerStep(f, w)
  BY <1>1, <1>2, <1>4, <1>7, <1>8
<1>. QED
  BY <1>5, <1>6, <1>8 DEF FollowerStep

\* A worker takes the next connection (socket_server.c:35-44).
LEMMA TakeKeepsInv ==
  ASSUME ServerInv, NEW f \in Followers, NEW w \in Workers, Take(f, w)
  PROVE  ServerInv'
<1>. USE NullFacts DEF ServerInv
<1>0. /\ WorkerInPlace(f, w) /\ TypeOK /\ up[f] /\ work[f][w].pc = "idle" /\ wq[f] # << >>
      /\ wq[f] \in Seq(JobRecords)
  BY DEF WorkersInPlace, TypeOK, Take, At, JobRecords
<1>. DEFINE job == wq[f][1]
<1>1. /\ job \in JobRecords /\ 1 \in DOMAIN wq[f] /\ Head(wq[f]) = job
      /\ Tail(wq[f]) \in Seq(JobRecords)
      /\ \A n \in DOMAIN Tail(wq[f]) :
           n + 1 \in DOMAIN wq[f] /\ n + 1 # 1 /\ Tail(wq[f])[n] = wq[f][n + 1]
  BY <1>0, TailFacts
<1>2. PICK y \in WorkRecords :
        /\ work' = [work EXCEPT ![f][w] = y] /\ y.from = job.from /\ y.req = job.req
        /\ y.pc = IF job.req.type = "GETREQ" THEN "act" ELSE "log"
  <2>. DEFINE y == [pc |-> IF job.req.type = "GETREQ" THEN "act" ELSE "log",
                    from |-> job.from, req |-> job.req, res |-> NULL]
  <2>1. y \in WorkRecords
    BY <1>1 DEF WorkRecords, JobRecords, Labels
  <2>2. work' = [work EXCEPT ![f][w] = y]
    BY <1>1 DEF Take
  <2>. QED
    BY <2>1, <2>2
<1>3. /\ wq' = [wq EXCEPT ![f] = Tail(wq[f])]
      /\ UNCHANGED <<up, pending, log, nextid, store, crashes, saved, promised, conn>>
      /\ strayed' \in [Followers -> Mishaps]
  <2>1. FollowerStep(f)
    BY DEF FollowerStep, WorkerStep
  <2>. QED
    BY <1>0, <2>1, StrayedFacts DEF Take
<1>4. /\ work' \in [Followers -> [Workers -> WorkRecords]]
      /\ work'[f][w] = y
      /\ \A g \in Followers, v \in Workers : g # f \/ v # w => work'[g][v] = work[g][v]
  BY <1>0, <1>2 DEF TypeOK, WorkRecords
<1>5. /\ wq' \in [Followers -> Seq(JobRecords)]
      /\ wq'[f] = Tail(wq[f]) /\ \A g \in Followers : g # f => wq'[g] = wq[g]
  <2>1. wq \in [Followers -> Seq(JobRecords)]
    BY <1>0 DEF TypeOK, JobRecords
  <2>. QED
    BY <1>1, <1>3, <2>1
<1>6. TypeOK'
  BY <1>0, <1>3, <1>4, <1>5, Zenon DEF TypeOK, WorkRecords, JobRecords
<1>7. TornIsBeingWritten'
  BY <1>0, <1>3, <1>4 DEF TornIsBeingWritten, At
<1>8. WorkersInPlace'
  <2>1. y.pc # "idle" /\ y.pc \in {"log", "act"} /\ y.req \in Requests
    BY <1>1, <1>2 DEF JobRecords
  <2>2. y.pc = "log" => y.req \in LogEntries
    BY <1>2, <2>1, RequestFacts
  <2>3. WorkerInPlace(f, w)'
    BY <1>0, <1>3, <1>4, <2>1, <2>2 DEF WorkerInPlace
  <2>. QED
    BY <1>3, <1>4, <2>3 DEF WorkersInPlace, WorkerInPlace
<1>9. FilesInPlace'
  BY <1>0, <1>3, <1>5 DEF FilesInPlace
<1>10. ConnsInPlace'
  <2>1. \A g \in Followers : \A n \in DOMAIN wq'[g] : wq'[g][n].from # NULL =>
          /\ conn'[wq'[g][n].from].st = "open" /\ conn'[wq'[g][n].from].to = g
    BY <1>1, <1>3, <1>5 DEF ConnsInPlace
  <2>2. \A g \in Followers : \A n \in DOMAIN wq'[g] : wq'[g][n].from # NULL =>
          \A m \in DOMAIN wq'[g] : wq'[g][m].from = wq'[g][n].from => m = n
    <3>. SUFFICES ASSUME NEW g \in Followers, NEW n \in DOMAIN wq'[g], wq'[g][n].from # NULL,
                         NEW m \in DOMAIN wq'[g], wq'[g][m].from = wq'[g][n].from
                  PROVE  m = n
      OBVIOUS
    <3>1. CASE g # f
      BY <1>5, <3>1 DEF ConnsInPlace
    <3>2. CASE g = f
      <4>0. /\ m + 1 \in DOMAIN wq[f] /\ n + 1 \in DOMAIN wq[f]
            /\ wq[f][m + 1].from = wq[f][n + 1].from /\ wq[f][n + 1].from # NULL
        BY <1>1, <1>5, <3>2
      <4>1. m + 1 = n + 1
        BY <4>0 DEF ConnsInPlace
      <4>2. m \in Nat /\ n \in Nat
        BY <1>5
      <4>. QED
        BY <4>1, <4>2
    <3>. QED
      BY <3>1, <3>2
  <2>3. \A g \in Followers : \A n \in DOMAIN wq'[g] : wq'[g][n].from # NULL =>
          \A v \in Workers : work'[g][v].from # wq'[g][n].from
    <3>. SUFFICES ASSUME NEW g \in Followers, NEW n \in DOMAIN wq'[g], wq'[g][n].from # NULL,
                         NEW v \in Workers
                  PROVE  work'[g][v].from # wq'[g][n].from
      OBVIOUS
    <3>1. CASE g # f
      <4>1. wq'[g] = wq[g] /\ work'[g][v] = work[g][v]
        BY <1>4, <1>5, <3>1
      <4>. QED
        BY <4>1 DEF ConnsInPlace
    <3>2. CASE g = f /\ v # w
      <4>1. /\ wq'[g][n] = wq[f][n + 1] /\ n + 1 \in DOMAIN wq[f] /\ work'[g][v] = work[f][v]
        BY <1>1, <1>4, <1>5, <3>2
      <4>. QED
        BY <3>2, <4>1 DEF ConnsInPlace
    <3>3. CASE g = f /\ v = w
      <4>1. /\ wq'[g][n] = wq[f][n + 1] /\ n + 1 \in DOMAIN wq[f] /\ n + 1 # 1
            /\ work'[g][v].from = wq[f][1].from /\ 1 \in DOMAIN wq[f]
        BY <1>1, <1>2, <1>4, <1>5, <3>3
      <4>. QED
        BY <3>3, <4>1 DEF ConnsInPlace
    <3>. QED
      BY <3>1, <3>2, <3>3
  <2>4. \A g \in Followers, v \in Workers : work'[g][v].from # NULL =>
          /\ conn'[work'[g][v].from].st = "open" /\ conn'[work'[g][v].from].to = g
          /\ \A u \in Workers : work'[g][u].from = work'[g][v].from => u = v
    BY <1>1, <1>2, <1>3, <1>4 DEF ConnsInPlace
  <2>5. \A c \in Conns : conn'[c].st = "answered" => conn'[c].res \in Responses
    BY <1>3 DEF ConnsInPlace
  <2>. QED
    BY <2>1, <2>2, <2>3, <2>4, <2>5 DEF ConnsInPlace
<1>. QED
  BY <1>6, <1>7, <1>8, <1>9, <1>10

\* A worker opens and writes its log file (tpclog.c:42-81).
LEMMA LogKeepsInv ==
  ASSUME ServerInv, NEW f \in Followers, NEW w \in Workers, LogOpen(f, w) \/ LogWrite(f, w)
  PROVE  ServerInv'
<1>. USE NullFacts DEF ServerInv
<1>0. /\ WorkerInPlace(f, w) /\ TypeOK /\ up[f] /\ log[f] \in Seq(LogEntries \cup {Torn})
      /\ nextid[f] \in Nat /\ Len(log[f]) \in {nextid[f], nextid[f] + 1}
      /\ UNCHANGED <<up, pending, nextid, store, crashes, saved, wq, conn>>
  BY DEF WorkersInPlace, TypeOK, LogOpen, LogWrite, At, TornIsBeingWritten
<1>10. strayed' \in [Followers -> Mishaps]
  <2>1. FollowerStep(f)
    BY DEF FollowerStep, WorkerStep
  <2>. QED
    BY <1>0, <2>1, StrayedFacts
<1>1. PICK label \in {"write", "act"} : Goto(f, w, label)
  BY DEF LogOpen, LogWrite
<1>2. PICK y \in WorkRecords :
        /\ work' = [work EXCEPT ![f][w] = y] /\ y.pc = label
        /\ y.from = work[f][w].from /\ y.req = work[f][w].req
  BY <1>0, <1>1, GotoFacts DEF Labels
<1>3. /\ work' \in [Followers -> [Workers -> WorkRecords]]
      /\ work'[f][w] = y /\ y.pc = label
      /\ \A g \in Followers, v \in Workers : g # f \/ v # w => work'[g][v] = work[g][v]
      /\ \A g \in Followers, v \in Workers : work'[g][v].from = work[g][v].from
  BY <1>0, <1>2 DEF TypeOK, WorkRecords
<1>4. ConnsInPlace'
  BY <1>0, <1>3 DEF ConnsInPlace
<1>5. CASE LogOpen(f, w) /\ Len(log[f]) = nextid[f]
  <2>1. log' = [log EXCEPT ![f] = Append(log[f], Torn)] /\ promised' = promised
    BY <1>0, <1>5 DEF LogOpen
  <2>2. label = "write"
    BY <1>0, <1>1, <1>3, <1>5 DEF LogOpen, Goto, TypeOK, WorkRecords
  <2>3. /\ log' \in [Followers -> Seq(LogEntries \cup {Torn})]
        /\ Len(log'[f]) = nextid[f] + 1
        /\ \A i \in DOMAIN log'[f] : i = nextid[f] + 1 \/ (i \in DOMAIN log[f] /\ log'[f][i] = log[f][i])
        /\ \A g \in Followers : g # f => log'[g] = log[g]
    <3>1. Append(log[f], Torn) \in Seq(LogEntries \cup {Torn})
      BY <1>0
    <3>. QED
      BY <1>0, <1>5, <2>1, <3>1 DEF TypeOK
  <2>4. \A i \in DOMAIN log[f] : log[f][i] # Torn
    <3>. SUFFICES ASSUME NEW i \in DOMAIN log[f], log[f][i] = Torn PROVE FALSE
      OBVIOUS
    <3>1. i = nextid[f] + 1 /\ i \in 1..Len(log[f])
      BY <1>0 DEF TornIsBeingWritten
    <3>. QED
      BY <1>0, <1>5, <3>1
  <2>5. TypeOK'
    BY <1>0, <1>10, <1>3, <2>1, <2>3 DEF TypeOK, WorkRecords
  <2>6. TornIsBeingWritten'
    <3>. SUFFICES ASSUME NEW g \in Followers, up'[g]
                  PROVE  /\ Len(log'[g]) \in {nextid'[g], nextid'[g] + 1}
                         /\ \A i \in DOMAIN log'[g] : log'[g][i] = Torn =>
                              i = nextid'[g] + 1 /\ \E v \in Workers : At(g, v, "write")'
      BY DEF TornIsBeingWritten
    <3>1. CASE g = f
      BY <1>0, <1>3, <2>2, <2>3, <2>4, <3>1 DEF At
    <3>2. CASE g # f
      <4>1. /\ log'[g] = log[g] /\ up[g] /\ nextid'[g] = nextid[g]
            /\ \A v \in Workers : work'[g][v] = work[g][v]
        BY <1>0, <1>3, <2>3, <3>2
      <4>. QED
        BY <1>0, <4>1 DEF TornIsBeingWritten, At
    <3>. QED
      BY <3>1, <3>2
  <2>7. FilesInPlace'
    BY <1>0, <2>3, <2>4 DEF FilesInPlace
  <2>8. WorkersInPlace'
    <3>1. WorkerInPlace(f, w)'
      BY <1>0, <1>2, <1>3, <1>5, <2>2, <2>3 DEF WorkerInPlace, LogOpen, At
    <3>2. \A v \in Workers : work[f][v].pc # "write"
      BY <1>0, <1>5 DEF WorkersInPlace, WorkerInPlace
    <3>3. ASSUME NEW g \in Followers, NEW v \in Workers, g # f \/ v # w
          PROVE  WorkerInPlace(g, v)'
      <4>1. work'[g][v] = work[g][v] /\ WorkerInPlace(g, v)
        BY <1>3, <3>3 DEF WorkersInPlace
      <4>. QED
        BY <1>0, <2>3, <3>2, <4>1 DEF WorkerInPlace
    <3>. QED
      BY <3>1, <3>3 DEF WorkersInPlace
  <2>. QED
    BY <1>4, <2>5, <2>6, <2>7, <2>8
<1>6. CASE LogOpen(f, w) /\ Len(log[f]) # nextid[f]
  <2>1. UNCHANGED <<log, promised>>
    BY <1>6 DEF LogOpen
  <2>2. WorkerInPlace(f, w)'
    BY <1>0, <1>2, <1>3, <1>6, <2>1 DEF WorkerInPlace, LogOpen, At
  <2>3. TypeOK'
    BY <1>0, <1>10, <1>3, <2>1 DEF TypeOK, WorkRecords
  <2>4. TornIsBeingWritten' /\ WorkersInPlace' /\ FilesInPlace'
    BY <1>0, <1>2, <1>6, <2>1, <2>2, LocalStep DEF LogOpen, At
  <2>. QED
    BY <1>4, <2>3, <2>4
<1>7. CASE LogWrite(f, w)
  <2>1. /\ work[f][w].pc = "write" /\ work[f][w].req \in LogEntries
        /\ Len(log[f]) = nextid[f] + 1
    BY <1>0, <1>7 DEF LogWrite, At, WorkerInPlace
  <2>2. /\ log' = [log EXCEPT ![f] = [log[f] EXCEPT ![nextid[f] + 1] = work[f][w].req]]
        /\ label = "act"
    BY <1>0, <1>1, <1>3, <1>7 DEF LogWrite, Goto, TypeOK, WorkRecords
  <2>3. /\ log' \in [Followers -> Seq(LogEntries \cup {Torn})]
        /\ Len(log'[f]) = Len(log[f]) /\ DOMAIN log'[f] = DOMAIN log[f]
        /\ \A i \in DOMAIN log'[f] :
             log'[f][i] = IF i = nextid[f] + 1 THEN work[f][w].req ELSE log[f][i]
        /\ \A g \in Followers : g # f => log'[g] = log[g]
    <3>1. [log[f] EXCEPT ![nextid[f] + 1] = work[f][w].req] \in Seq(LogEntries \cup {Torn})
      BY <1>0, <2>1
    <3>. QED
      BY <1>0, <2>1, <2>2, <3>1 DEF TypeOK
  <2>4. \A i \in DOMAIN log'[f] : log'[f][i] # Torn
    BY <1>0, <2>1, <2>3 DEF TornIsBeingWritten
  <2>5. promised' \in [Followers -> PendingRecords \cup {NULL}]
    BY <1>0, <1>7 DEF TypeOK, LogWrite
  <2>6. TypeOK'
    BY <1>0, <1>10, <1>3, <2>3, <2>5 DEF TypeOK, WorkRecords
  <2>7. TornIsBeingWritten'
    <3>. SUFFICES ASSUME NEW g \in Followers, up'[g]
                  PROVE  /\ Len(log'[g]) \in {nextid'[g], nextid'[g] + 1}
                         /\ \A i \in DOMAIN log'[g] : log'[g][i] = Torn =>
                              i = nextid'[g] + 1 /\ \E v \in Workers : At(g, v, "write")'
      BY DEF TornIsBeingWritten
    <3>1. CASE g = f
      BY <1>0, <2>3, <2>4, <3>1
    <3>2. CASE g # f
      <4>1. /\ log'[g] = log[g] /\ up[g] /\ nextid'[g] = nextid[g]
            /\ \A v \in Workers : work'[g][v] = work[g][v]
        BY <1>0, <1>3, <2>3, <3>2
      <4>. QED
        BY <1>0, <4>1 DEF TornIsBeingWritten, At
    <3>. QED
      BY <3>1, <3>2
  <2>8. FilesInPlace'
    BY <1>0, <2>3, <2>4 DEF FilesInPlace
  <2>9. WorkersInPlace'
    <3>1. WorkerInPlace(f, w)'
      BY <1>0, <1>2, <1>3, <2>1, <2>2 DEF WorkerInPlace
    <3>2. ASSUME NEW g \in Followers, NEW v \in Workers, g # f \/ v # w
          PROVE  WorkerInPlace(g, v)'
      <4>1. work'[g][v] = work[g][v] /\ WorkerInPlace(g, v)
        BY <1>3, <3>2 DEF WorkersInPlace
      <4>2. Len(log'[g]) = Len(log[g])
        BY <2>3
      <4>. QED
        BY <1>0, <4>1, <4>2 DEF WorkerInPlace
    <3>. QED
      BY <3>1, <3>2 DEF WorkersInPlace
  <2>. QED
    BY <1>4, <2>6, <2>7, <2>8, <2>9
<1>. QED
  BY <1>5, <1>6, <1>7

\* A worker answers and closes (kvserver.c:203-223).
LEMMA ReplyKeepsInv ==
  ASSUME ServerInv, NEW f \in Followers, NEW w \in Workers, Reply(f, w)
  PROVE  ServerInv'
<1>. USE NullFacts DEF ServerInv
<1>0. /\ WorkerInPlace(f, w) /\ TypeOK /\ up[f] /\ work[f][w].pc = "reply"
      /\ work[f][w].res \in Responses /\ work[f][w] \in WorkRecords
      /\ UNCHANGED <<up, pending, log, nextid, store, crashes, saved, promised, strayed, wq>>
  <2>1. WorkerInPlace(f, w) /\ TypeOK /\ work[f][w] \in WorkRecords
    <3>1. TypeOK
      OBVIOUS
    <3>2. work[f][w] \in WorkRecords
      BY <3>1 DEF TypeOK, WorkRecords
    <3>. QED
      BY <3>1, <3>2 DEF WorkersInPlace
  <2>2. /\ up[f] /\ work[f][w].pc = "reply"
        /\ UNCHANGED <<up, pending, log, nextid, store, crashes, saved, promised, strayed, wq>>
    BY DEF Reply, At, server
  <2>. QED
    BY <2>1, <2>2 DEF WorkerInPlace
<1>1. Idle \in WorkRecords
  BY DEF Idle, WorkRecords, Labels
<1>2. /\ work' \in [Followers -> [Workers -> WorkRecords]]
      /\ work'[f][w] = Idle
      /\ \A g \in Followers, v \in Workers : g # f \/ v # w => work'[g][v] = work[g][v]
  BY <1>0, <1>1 DEF TypeOK, WorkRecords, Reply
<1>. DEFINE c == work[f][w].from
<1>3. /\ conn' \in [Conns -> ConnRecords]
      /\ c # NULL => c \in Conns /\ conn'[c].st = "answered" /\ conn'[c].res = work[f][w].res
      /\ \A d \in Conns : d # c => conn'[d] = conn[d]
  <2>1. CASE c = NULL
    BY <1>0, <2>1 DEF Reply, TypeOK, ConnRecords
  <2>2. CASE c # NULL
    <3>. DEFINE d == [conn[c] EXCEPT !.st = "answered", !.res = work[f][w].res]
    <3>1. c \in Conns /\ conn' = [conn EXCEPT ![c] = d]
      BY <1>0, <2>2 DEF Reply, WorkRecords, TypeOK
    <3>2. conn[c] \in ConnRecords
      BY <1>0, <3>1 DEF TypeOK, ConnRecords
    <3>3. d \in ConnRecords /\ d.st = "answered" /\ d.res = work[f][w].res
      BY <1>0, <3>2 DEF ConnRecords
    <3>. HIDE DEF d
    <3>. QED
      BY <1>0, <3>1, <3>3 DEF TypeOK, ConnRecords
  <2>. QED
    BY <2>1, <2>2
<1>4. TypeOK'
  BY <1>0, <1>2, <1>3 DEF TypeOK, WorkRecords, ConnRecords
<1>5. TornIsBeingWritten'
  BY <1>0, <1>2 DEF TornIsBeingWritten, At
<1>6. WorkersInPlace'
  <2>1. WorkerInPlace(f, w)'
    BY <1>2 DEF WorkerInPlace, Idle
  <2>. QED
    BY <1>0, <1>2, <2>1 DEF WorkersInPlace, WorkerInPlace
<1>7. FilesInPlace'
  BY <1>0 DEF FilesInPlace
<1>8. ConnsInPlace'
  <2>1. \A g \in Followers : \A n \in DOMAIN wq[g] :
          wq[g][n].from # NULL => wq[g][n].from # c /\ wq[g][n].from \in Conns
    <3>. SUFFICES ASSUME NEW g \in Followers, NEW n \in DOMAIN wq[g], wq[g][n].from # NULL
                  PROVE  wq[g][n].from # c /\ wq[g][n].from \in Conns
      OBVIOUS
    <3>1. wq[g][n].from \in Conns
      <4>1. wq[g] \in Seq(JobRecords)
        BY <1>0 DEF TypeOK, JobRecords
      <4>2. wq[g][n] \in JobRecords
        BY <4>1
      <4>. QED
        BY <4>2 DEF JobRecords
    <3>2. CASE g = f
      BY <3>1, <3>2 DEF ConnsInPlace
    <3>3. CASE g # f
      BY <3>1, <3>3 DEF ConnsInPlace
    <3>. QED
      BY <3>1, <3>2, <3>3
  <2>2. \A g \in Followers, v \in Workers :
          work'[g][v].from # NULL => /\ work'[g][v].from # c /\ work'[g][v].from \in Conns
                                     /\ work'[g][v].from = work[g][v].from
    <3>. SUFFICES ASSUME NEW g \in Followers, NEW v \in Workers, work'[g][v].from # NULL
                  PROVE  /\ work'[g][v].from # c /\ work'[g][v].from \in Conns
                         /\ work'[g][v].from = work[g][v].from
      OBVIOUS
    <3>1. (g # f \/ v # w) /\ work'[g][v] = work[g][v]
      BY <1>2 DEF Idle
    <3>2. work[g][v].from \in Conns
      BY <1>0, <3>1 DEF TypeOK
    <3>. QED
      BY <3>1, <3>2 DEF ConnsInPlace
  <2>3. \A g \in Followers : \A n \in DOMAIN wq'[g] : wq'[g][n].from # NULL =>
          /\ conn'[wq'[g][n].from].st = "open" /\ conn'[wq'[g][n].from].to = g
          /\ \A m \in DOMAIN wq'[g] : wq'[g][m].from = wq'[g][n].from => m = n
    BY <1>0, <1>3, <2>1 DEF ConnsInPlace
  <2>4. \A g \in Followers : \A n \in DOMAIN wq'[g] : wq'[g][n].from # NULL =>
          \A v \in Workers : work'[g][v].from # wq'[g][n].from
    BY <1>0, <2>2 DEF ConnsInPlace
  <2>5. \A g \in Followers, v \in Workers : work'[g][v].from # NULL =>
          /\ conn'[work'[g][v].from].st = "open" /\ conn'[work'[g][v].from].to = g
          /\ \A u \in Workers : work'[g][u].from = work'[g][v].from => u = v
    BY <1>3, <2>2 DEF ConnsInPlace
  <2>6. \A d \in Conns : conn'[d].st = "answered" => conn'[d].res \in Responses
    BY <1>0, <1>3 DEF ConnsInPlace
  <2>. QED
    BY <2>3, <2>4, <2>5, <2>6 DEF ConnsInPlace
<1>. QED
  BY <1>4, <1>5, <1>6, <1>7, <1>8

\* A process ends: its connections are reset, its files stay.
LEMMA DieKeepsInv ==
  ASSUME ServerInv, NEW f \in Followers, up[f], Die(f), crashes' \in 0..MaxCrashes,
         UNCHANGED promised
  PROVE  ServerInv'
<1>. USE NullFacts DEF ServerInv
<1>0. TypeOK /\ pending[f] \in PendingRecords
  BY DEF TypeOK
<1>1. /\ up' \in [Followers -> BOOLEAN] /\ ~up'[f] /\ wq'[f] = << >> /\ pending'[f] = NULL
      /\ \A g \in Followers : g # f =>
           /\ up'[g] = up[g] /\ wq'[g] = wq[g] /\ pending'[g] = pending[g]
           /\ \A v \in Workers : work'[g][v] = work[g][v]
      /\ \A v \in Workers : work'[f][v] = Idle
      /\ UNCHANGED <<log, nextid, store, strayed>>
  BY <1>0 DEF Die, TypeOK
<1>2. conn' \in [Conns -> ConnRecords] /\ \A c \in Conns :
        conn'[c] = IF conn[c].st = "open" /\ conn[c].to = f
                   THEN [conn[c] EXCEPT !.st = "reset"] ELSE conn[c]
  <2>1. \A c \in Conns : conn[c] \in ConnRecords
    BY <1>0 DEF TypeOK, ConnRecords
  <2>2. \A c \in Conns : [conn[c] EXCEPT !.st = "reset"] \in ConnRecords
    BY <2>1 DEF ConnRecords
  <2>. QED
    BY <2>1, <2>2 DEF Die
<1>3. work' \in [Followers -> [Workers -> WorkRecords]]
  <2>1. Idle \in WorkRecords
    BY DEF Idle, WorkRecords, Labels
  <2>. QED
    BY <1>0, <2>1 DEF Die, TypeOK, WorkRecords
<1>4. TypeOK'
  <2>1. saved' \in [Followers -> PendingRecords \cup {NULL}]
    BY <1>0 DEF Die, TypeOK
  <2>2. pending' \in [Followers -> PendingRecords \cup {NULL}]
    BY <1>0 DEF Die, TypeOK
  <2>3. wq' \in [Followers -> Seq(JobRecords)]
    <3>1. << >> \in Seq(JobRecords)
      OBVIOUS
    <3>. QED
      BY <1>0, <3>1 DEF Die, TypeOK, JobRecords
  <2>4. \A g \in Followers : up'[g] <=> pending'[g] # NULL
    <3>1. \A g \in Followers : up[g] <=> pending[g] # NULL
      BY <1>0 DEF TypeOK
    <3>. QED
      BY <1>1, <3>1
  <2>. QED
    BY <1>0, <1>1, <1>2, <1>3, <2>1, <2>2, <2>3, <2>4 DEF TypeOK, WorkRecords, ConnRecords, JobRecords
<1>5. TornIsBeingWritten'
  <2>. SUFFICES ASSUME NEW g \in Followers, up'[g]
                PROVE  /\ Len(log'[g]) \in {nextid'[g], nextid'[g] + 1}
                       /\ \A i \in DOMAIN log'[g] : log'[g][i] = Torn =>
                            i = nextid'[g] + 1 /\ \E v \in Workers : At(g, v, "write")'
    BY DEF TornIsBeingWritten
  <2>1. g # f /\ up[g]
    BY <1>1
  <2>. QED
    BY <1>1, <2>1 DEF TornIsBeingWritten, At
<1>6. WorkersInPlace'
  <2>1. \A v \in Workers : WorkerInPlace(f, v)'
    BY <1>1 DEF WorkerInPlace, Idle
  <2>2. ASSUME NEW g \in Followers, NEW v \in Workers, g # f PROVE WorkerInPlace(g, v)'
    BY <1>1, <2>2 DEF WorkerInPlace, WorkersInPlace
  <2>. QED
    BY <2>1, <2>2 DEF WorkersInPlace
<1>7. FilesInPlace'
  BY <1>1 DEF FilesInPlace
<1>8. ConnsInPlace'
  <2>1. \A g \in Followers : \A n \in DOMAIN wq'[g] : wq'[g][n].from # NULL =>
          /\ conn'[wq'[g][n].from].st = "open" /\ conn'[wq'[g][n].from].to = g
          /\ \A m \in DOMAIN wq'[g] : wq'[g][m].from = wq'[g][n].from => m = n
          /\ \A w \in Workers : work'[g][w].from # wq'[g][n].from
    <3>. SUFFICES ASSUME NEW g \in Followers, NEW n \in DOMAIN wq'[g], wq'[g][n].from # NULL
                  PROVE  /\ conn'[wq'[g][n].from].st = "open" /\ conn'[wq'[g][n].from].to = g
                         /\ \A m \in DOMAIN wq'[g] : wq'[g][m].from = wq'[g][n].from => m = n
                         /\ \A w \in Workers : work'[g][w].from # wq'[g][n].from
      OBVIOUS
    <3>1. g # f /\ wq'[g] = wq[g] /\ \A v \in Workers : work'[g][v] = work[g][v]
      BY <1>1
    <3>2. wq[g][n].from \in Conns
      <4>1. wq[g] \in Seq(JobRecords)
        BY <1>0 DEF TypeOK, JobRecords
      <4>2. wq[g][n] \in JobRecords
        BY <3>1, <4>1
      <4>. QED
        BY <3>1, <4>2 DEF JobRecords
    <3>3. conn[wq[g][n].from].to = g /\ conn[wq[g][n].from].st = "open"
      BY <3>1 DEF ConnsInPlace
    <3>. QED
      BY <1>2, <3>1, <3>2, <3>3 DEF ConnsInPlace
  <2>2. \A g \in Followers, w \in Workers : work'[g][w].from # NULL =>
          /\ conn'[work'[g][w].from].st = "open" /\ conn'[work'[g][w].from].to = g
          /\ \A v \in Workers : work'[g][v].from = work'[g][w].from => v = w
    <3>. SUFFICES ASSUME NEW g \in Followers, NEW w \in Workers, work'[g][w].from # NULL
                  PROVE  /\ conn'[work'[g][w].from].st = "open" /\ conn'[work'[g][w].from].to = g
                         /\ \A v \in Workers : work'[g][v].from = work'[g][w].from => v = w
      OBVIOUS
    <3>1. g # f /\ \A v \in Workers : work'[g][v] = work[g][v]
      BY <1>1 DEF Idle
    <3>2. work[g][w].from \in Conns
      BY <1>0, <3>1 DEF TypeOK
    <3>. QED
      BY <1>2, <3>1, <3>2 DEF ConnsInPlace
  <2>3. \A c \in Conns : conn'[c].st = "answered" => conn'[c].res \in Responses
    <3>. SUFFICES ASSUME NEW c \in Conns, conn'[c].st = "answered"
                  PROVE  conn'[c].res \in Responses
      OBVIOUS
    <3>1. conn[c] \in ConnRecords
      BY <1>0 DEF TypeOK, ConnRecords
    <3>2. conn'[c] = conn[c]
      BY <1>2, <3>1 DEF ConnRecords
    <3>. QED
      BY <3>2 DEF ConnsInPlace
  <2>. QED
    BY <2>1, <2>2, <2>3 DEF ConnsInPlace
<1>. QED
  BY <1>4, <1>5, <1>6, <1>7, <1>8

\* What a process can have pending when it starts.
LEMMA RebuiltFacts ==
  ASSUME NEW e \in LogEntries \cup {Torn, NULL}, NEW p \in Rebuilt(e)
  PROVE  /\ p \in PendingRecords /\ Coherent(p) /\ e # Torn
         /\ e \in Writes => p = PendingOf(e)
         /\ e \in Decisions => p.msg = "EMPTY"
<1>. USE NullFacts
<1>1. \A g \in Garbage : g \in PendingRecords /\ Coherent(g)
  BY ServerAssumption DEF Garbage, PendingRecords, Pending, Coherent
<1>2. Cleared \in PendingRecords /\ Coherent(Cleared) /\ Cleared.msg = "EMPTY"
  BY DEF Cleared, PendingRecords, Pending, Coherent
<1>3. e # Torn
  BY DEF Rebuilt
<1>4. CASE e = NULL
  BY <1>1, <1>4 DEF Rebuilt
<1>5. CASE e # NULL
  <2>1. e \in LogEntries /\ p \in RebuiltFrom(e)
    BY <1>3, <1>5 DEF Rebuilt
  <2>2. CASE e \in PutRequests
    BY <2>1, <2>2 DEF RebuiltFrom, PutRequests, Request, PendingRecords, Pending, Coherent,
                      PendingOf, Decisions
  <2>3. CASE e \in DelRequests
    BY <2>1, <2>3 DEF RebuiltFrom, DelRequests, Request, PendingRecords, Pending, Coherent,
                      PendingOf, Decisions
  <2>4. CASE e \in Decisions
    <3>1. e \notin Writes
      BY <2>4 DEF Decisions, Writes, PutRequests, DelRequests, Request
    <3>2. (p \in Garbage /\ p.msg = "EMPTY") \/ p = Cleared
      BY <2>1, <2>4 DEF RebuiltFrom, Decisions, Request
    <3>. QED
      BY <1>1, <1>2, <1>3, <3>1, <3>2
  <2>. QED
    BY <1>3, <2>1, <2>2, <2>3, <2>4 DEF LogEntries
<1>. QED
  BY <1>3, <1>4, <1>5

\* What a rebuild finds last in the log.
LEMMA LastEntryType ==
  ASSUME TypeOK, NEW f \in Followers
  PROVE  LastEntry(f) \in LogEntries \cup {Torn, NULL}
<1>1. log[f] \in Seq(LogEntries \cup {Torn})
  BY DEF TypeOK
<1>. QED
  BY <1>1 DEF LastEntry

\* A process starts again and rebuilds its state (kvserver.c:248-306).
LEMMA RestartKeepsInv ==
  ASSUME ServerInv, NEW f \in Followers, Restart(f)
  PROVE  ServerInv'
<1>. USE NullFacts DEF ServerInv
<1>0. TypeOK /\ ~up[f] /\ log[f] \in Seq(LogEntries \cup {Torn})
  BY DEF TypeOK, Restart
<1>1. PICK p \in Rebuilt(LastEntry(f)) : pending' = [pending EXCEPT ![f] = p]
  BY DEF Restart
<1>2. p \in PendingRecords /\ LastEntry(f) # Torn
  BY <1>0, <1>1, RebuiltFacts, LastEntryType
<1>3. /\ up' = [up EXCEPT ![f] = TRUE] /\ nextid' = [nextid EXCEPT ![f] = Len(log[f])]
      /\ saved' = [saved EXCEPT ![f] = NULL] /\ promised' = [promised EXCEPT ![f] = NULL]
      /\ UNCHANGED <<log, store, wq, work, conn, crashes>>
  BY DEF Restart
<1>4. TypeOK'
  <2>1. \A g \in Followers : up'[g] <=> pending'[g] # NULL
    BY <1>0, <1>1, <1>2, <1>3 DEF TypeOK
  <2>2. Len(log[f]) \in Nat
    BY <1>0
  <2>3. strayed' \in [Followers -> Mishaps]
    BY <1>0, StrayedFacts DEF FollowerStep
  <2>. QED
    BY <1>0, <1>1, <1>2, <1>3, <2>1, <2>2, <2>3 DEF TypeOK
<1>5. \A i \in DOMAIN log[f] : log[f][i] # Torn
  <2>. SUFFICES ASSUME NEW i \in DOMAIN log[f], log[f][i] = Torn PROVE FALSE
    OBVIOUS
  <2>1. i = Len(log[f]) /\ log[f] # << >>
    BY <1>0 DEF FilesInPlace
  <2>. QED
    BY <1>2, <2>1 DEF LastEntry
<1>6. TornIsBeingWritten'
  <2>. SUFFICES ASSUME NEW g \in Followers, up'[g]
                PROVE  /\ Len(log'[g]) \in {nextid'[g], nextid'[g] + 1}
                       /\ \A i \in DOMAIN log'[g] : log'[g][i] = Torn =>
                            i = nextid'[g] + 1 /\ \E v \in Workers : At(g, v, "write")'
    BY DEF TornIsBeingWritten
  <2>1. CASE g = f
    BY <1>0, <1>3, <1>5, <2>1 DEF TypeOK
  <2>2. CASE g # f
    <3>1. up[g] /\ nextid'[g] = nextid[g]
      BY <1>0, <1>3, <2>2 DEF TypeOK
    <3>. QED
      BY <1>3, <3>1 DEF TornIsBeingWritten, At
  <2>. QED
    BY <2>1, <2>2
<1>7. WorkersInPlace'
  <2>. SUFFICES ASSUME NEW g \in Followers, NEW v \in Workers PROVE WorkerInPlace(g, v)'
    BY DEF WorkersInPlace
  <2>1. WorkerInPlace(g, v)
    BY DEF WorkersInPlace
  <2>2. CASE g = f
    BY <1>0, <1>3, <2>1, <2>2 DEF WorkerInPlace
  <2>3. CASE g # f
    <3>1. up'[g] = up[g] /\ nextid'[g] = nextid[g]
      BY <1>0, <1>3, <2>3 DEF TypeOK
    <3>. QED
      BY <1>3, <2>1, <3>1 DEF WorkerInPlace
  <2>. QED
    BY <2>2, <2>3
<1>8. FilesInPlace'
  BY <1>0, <1>3 DEF FilesInPlace, TypeOK
<1>9. ConnsInPlace'
  BY <1>3 DEF ConnsInPlace
<1>. QED
  BY <1>4, <1>6, <1>7, <1>8, <1>9

\* A request arrives at the end of the queue.
LEMMA ConnectKeepsInv ==
  ASSUME ServerInv, NEW c \in Conns, NEW f \in Followers, NEW r \in Requests, Connect(c, f, r)
  PROVE  ServerInv'
<1>. USE NullFacts DEF ServerInv
<1>. DEFINE e == [from |-> c, req |-> r]
            o == [st |-> "open", to |-> f, res |-> NULL]
<1>0. /\ TypeOK /\ up[f] /\ conn[c].st = "closed"
      /\ UNCHANGED <<up, pending, log, nextid, store, crashes, saved, promised, strayed, work>>
      /\ wq[f] \in Seq(JobRecords) /\ e \in JobRecords /\ o \in ConnRecords
      /\ wq' = [wq EXCEPT ![f] = Append(wq[f], e)] /\ conn' = [conn EXCEPT ![c] = o]
  BY DEF TypeOK, Connect, server, JobRecords, ConnRecords
<1>1. /\ wq' \in [Followers -> Seq(JobRecords)] /\ \A g \in Followers : g # f => wq'[g] = wq[g]
      /\ wq'[f] = Append(wq[f], e)
      /\ \A n \in DOMAIN wq'[f] : n # Len(wq[f]) + 1 => n \in DOMAIN wq[f] /\ wq'[f][n] = wq[f][n]
      /\ wq'[f][Len(wq[f]) + 1] = e
  <2>1. Append(wq[f], e) \in Seq(JobRecords)
    BY <1>0, AppendFacts
  <2>2. wq'[f] = Append(wq[f], e) /\ \A g \in Followers : g # f => wq'[g] = wq[g]
    BY <1>0 DEF TypeOK
  <2>3. wq' \in [Followers -> Seq(JobRecords)]
    BY <1>0, <2>1 DEF TypeOK, JobRecords
  <2>. HIDE DEF e
  <2>4. /\ \A n \in DOMAIN Append(wq[f], e) :
             n # Len(wq[f]) + 1 => n \in DOMAIN wq[f] /\ Append(wq[f], e)[n] = wq[f][n]
        /\ Append(wq[f], e)[Len(wq[f]) + 1] = e
    BY <1>0, AppendFacts
  <2>. QED
    BY <2>2, <2>3, <2>4
<1>2. /\ conn' \in [Conns -> ConnRecords] /\ conn'[c] = o
      /\ \A d \in Conns : d # c => conn'[d] = conn[d]
  BY <1>0 DEF TypeOK, ConnRecords
<1>3. /\ \A g \in Followers : \A n \in DOMAIN wq[g] : wq[g][n].from # c /\ wq[g][n].from \in Conns \cup {NULL}
      /\ \A g \in Followers, w \in Workers : work[g][w].from # c /\ work[g][w].from \in Conns \cup {NULL}
  <2>1. ASSUME NEW g \in Followers, NEW n \in DOMAIN wq[g]
        PROVE  wq[g][n].from # c /\ wq[g][n].from \in Conns \cup {NULL}
    <3>1. wq[g] \in Seq(JobRecords)
      BY <1>0 DEF TypeOK, JobRecords
    <3>2. wq[g][n] \in JobRecords
      BY <3>1
    <3>3. wq[g][n].from # c
      BY <1>0 DEF ConnsInPlace
    <3>. QED
      BY <3>2, <3>3 DEF JobRecords
  <2>2. ASSUME NEW g \in Followers, NEW w \in Workers
        PROVE  work[g][w].from # c /\ work[g][w].from \in Conns \cup {NULL}
    <3>1. work[g][w].from \in Conns \cup {NULL}
      BY <1>0 DEF TypeOK
    <3>. QED
      BY <1>0, <3>1 DEF ConnsInPlace
  <2>. QED
    BY <2>1, <2>2
<1>4. TypeOK'
  BY <1>0, <1>1, <1>2 DEF TypeOK, JobRecords, ConnRecords
<1>5. TornIsBeingWritten' /\ WorkersInPlace'
  BY <1>0 DEF TornIsBeingWritten, At, WorkersInPlace, WorkerInPlace
<1>6. FilesInPlace'
  BY <1>0, <1>1 DEF FilesInPlace
<1>7. ConnsInPlace'
  <2>1. ASSUME NEW g \in Followers, NEW n \in DOMAIN wq'[g], wq'[g][n].from # NULL
        PROVE  /\ conn'[wq'[g][n].from].st = "open" /\ conn'[wq'[g][n].from].to = g
               /\ \A m \in DOMAIN wq'[g] : wq'[g][m].from = wq'[g][n].from => m = n
               /\ \A w \in Workers : work'[g][w].from # wq'[g][n].from
    <3>1. CASE g # f
      BY <1>0, <1>1, <1>2, <1>3, <2>1, <3>1 DEF ConnsInPlace
    <3>2. CASE g = f /\ n = Len(wq[f]) + 1
      BY <1>0, <1>1, <1>2, <1>3, <3>2
    <3>3. CASE g = f /\ n # Len(wq[f]) + 1
      <4>1. n \in DOMAIN wq[f] /\ wq'[g][n] = wq[f][n] /\ wq[f][n].from # c
            /\ wq[f][n].from \in Conns
        BY <1>1, <1>3, <2>1, <3>3
      <4>. QED
        BY <1>0, <1>1, <1>2, <1>3, <2>1, <3>3, <4>1 DEF ConnsInPlace
    <3>. QED
      BY <3>1, <3>2, <3>3
  <2>2. ASSUME NEW g \in Followers, NEW w \in Workers, work'[g][w].from # NULL
        PROVE  /\ conn'[work'[g][w].from].st = "open" /\ conn'[work'[g][w].from].to = g
               /\ \A v \in Workers : work'[g][v].from = work'[g][w].from => v = w
    BY <1>0, <1>2, <1>3, <2>2 DEF ConnsInPlace
  <2>3. \A d \in Conns : conn'[d].st = "answered" => conn'[d].res \in Responses
    BY <1>2 DEF ConnsInPlace
  <2>. QED
    BY <2>1, <2>2, <2>3 DEF ConnsInPlace
<1>. QED
  BY <1>4, <1>5, <1>6, <1>7

\* A client that goes leaves its requests behind, addressed to nobody.
LEMMA DisconnectFacts ==
  ASSUME ServerInv, NEW c \in Conns, Disconnect(c)
  PROVE  /\ wq' \in [Followers -> Seq(JobRecords)]
         /\ work' \in [Followers -> [Workers -> WorkRecords]]
         /\ conn' \in [Conns -> ConnRecords] /\ conn'[c].st = "closed"
         /\ \A d \in Conns : d # c => conn'[d] = conn[d]
         /\ \A g \in Followers : DOMAIN wq'[g] = DOMAIN wq[g]
         /\ \A g \in Followers : \A n \in DOMAIN wq[g] :
              /\ wq'[g][n].req = wq[g][n].req /\ wq[g][n].from \in Conns \cup {NULL}
              /\ wq'[g][n].from = IF wq[g][n].from = c THEN NULL ELSE wq[g][n].from
         /\ \A g \in Followers, w \in Workers :
              /\ work'[g][w].pc = work[g][w].pc /\ work'[g][w].req = work[g][w].req
              /\ work'[g][w].res = work[g][w].res /\ work[g][w].from \in Conns \cup {NULL}
              /\ work'[g][w].from = IF work[g][w].from = c THEN NULL ELSE work[g][w].from
<1>. USE DEF ServerInv
<1>1. ASSUME NEW g \in Followers
      PROVE  /\ DOMAIN wq'[g] = DOMAIN wq[g] /\ wq'[g] \in Seq(JobRecords)
             /\ \A n \in DOMAIN wq[g] :
                  /\ wq'[g][n].req = wq[g][n].req /\ wq[g][n].from \in Conns \cup {NULL}
                  /\ wq'[g][n].from = IF wq[g][n].from = c THEN NULL ELSE wq[g][n].from
  <2>1. wq[g] \in Seq(JobRecords)
    BY DEF TypeOK, JobRecords
  <2>2. /\ DOMAIN wq'[g] = DOMAIN wq[g]
        /\ \A n \in DOMAIN wq[g] :
             wq'[g][n] = IF wq[g][n].from = c THEN [wq[g][n] EXCEPT !.from = NULL] ELSE wq[g][n]
    BY DEF Disconnect
  <2>3. ASSUME NEW n \in DOMAIN wq[g]
        PROVE  /\ wq'[g][n] \in JobRecords
               /\ wq'[g][n].req = wq[g][n].req /\ wq[g][n].from \in Conns \cup {NULL}
               /\ wq'[g][n].from = IF wq[g][n].from = c THEN NULL ELSE wq[g][n].from
    <3>1. wq[g][n] \in JobRecords
      BY <2>1
    <3>. QED
      BY <2>2, <3>1 DEF JobRecords
  <2>4. wq'[g] \in Seq(JobRecords)
    <3>1. wq'[g] = [n \in 1..Len(wq[g]) |-> wq'[g][n]]
      BY <2>1 DEF Disconnect
    <3>2. \A n \in 1..Len(wq[g]) : wq'[g][n] \in JobRecords
      BY <2>1, <2>3
    <3>3. Len(wq[g]) \in Nat
      BY <2>1
    <3>. QED
      BY <3>1, <3>2, <3>3, IsASeq
  <2>. QED
    BY <2>2, <2>3, <2>4
<1>2. ASSUME NEW g \in Followers, NEW w \in Workers
      PROVE  /\ work'[g][w] \in WorkRecords
             /\ work'[g][w].pc = work[g][w].pc /\ work'[g][w].req = work[g][w].req
             /\ work'[g][w].res = work[g][w].res /\ work[g][w].from \in Conns \cup {NULL}
             /\ work'[g][w].from = IF work[g][w].from = c THEN NULL ELSE work[g][w].from
  <2>1. work[g][w] \in WorkRecords
    BY DEF TypeOK, WorkRecords
  <2>2. work'[g][w] = IF work[g][w].from = c THEN [work[g][w] EXCEPT !.from = NULL] ELSE work[g][w]
    BY DEF Disconnect
  <2>. QED
    BY <2>1, <2>2 DEF WorkRecords
<1>3. wq' \in [Followers -> Seq(JobRecords)]
  BY <1>1 DEF Disconnect
<1>4. work' \in [Followers -> [Workers -> WorkRecords]]
  <2>1. work' = [g \in Followers |-> [w \in Workers |-> work'[g][w]]]
    BY DEF Disconnect
  <2>. QED
    BY <1>2, <2>1
<1>5. /\ conn' \in [Conns -> ConnRecords] /\ conn'[c].st = "closed"
      /\ \A d \in Conns : d # c => conn'[d] = conn[d]
  BY DEF Disconnect, Closed, ConnRecords, TypeOK
<1>. QED
  BY <1>1, <1>2, <1>3, <1>4, <1>5

\* A client goes, whether its request was answered or not.
LEMMA DisconnectKeepsInv ==
  ASSUME ServerInv, NEW c \in Conns, Disconnect(c)
  PROVE  ServerInv'
<1>. USE NullFacts DEF ServerInv
<1>0. /\ TypeOK
      /\ UNCHANGED <<up, pending, log, nextid, store, crashes, saved, promised, strayed>>
  BY DEF Disconnect, server
<1>1. /\ wq' \in [Followers -> Seq(JobRecords)]
      /\ work' \in [Followers -> [Workers -> WorkRecords]]
      /\ conn' \in [Conns -> ConnRecords] /\ conn'[c].st = "closed"
      /\ \A d \in Conns : d # c => conn'[d] = conn[d]
      /\ \A g \in Followers : DOMAIN wq'[g] = DOMAIN wq[g]
      /\ \A g \in Followers : \A n \in DOMAIN wq[g] :
           /\ wq[g][n].from \in Conns \cup {NULL}
           /\ wq'[g][n].from = IF wq[g][n].from = c THEN NULL ELSE wq[g][n].from
      /\ \A g \in Followers, w \in Workers :
           /\ work'[g][w].pc = work[g][w].pc /\ work'[g][w].req = work[g][w].req
           /\ work'[g][w].res = work[g][w].res /\ work[g][w].from \in Conns \cup {NULL}
           /\ work'[g][w].from = IF work[g][w].from = c THEN NULL ELSE work[g][w].from
  BY DisconnectFacts
<1>2. TypeOK'
  BY <1>0, <1>1 DEF TypeOK, WorkRecords, JobRecords, ConnRecords
<1>3. TornIsBeingWritten'
  BY <1>0, <1>1 DEF TornIsBeingWritten, At
<1>4. WorkersInPlace'
  <2>. SUFFICES ASSUME NEW g \in Followers, NEW w \in Workers PROVE WorkerInPlace(g, w)'
    BY DEF WorkersInPlace
  <2>1. WorkerInPlace(g, w)
    BY DEF WorkersInPlace
  <2>2. /\ work'[g][w].pc = work[g][w].pc /\ work'[g][w].req = work[g][w].req
        /\ work'[g][w].res = work[g][w].res
        /\ work'[g][w].from = IF work[g][w].from = c THEN NULL ELSE work[g][w].from
    BY <1>1
  <2>. QED
    BY <1>0, <2>1, <2>2 DEF WorkerInPlace
<1>5. FilesInPlace'
  <2>. SUFFICES ASSUME NEW g \in Followers, ~up[g] PROVE wq'[g] = << >>
    BY <1>0 DEF FilesInPlace
  <2>1. wq[g] = << >> /\ DOMAIN wq'[g] = {} /\ wq'[g] \in Seq(JobRecords)
    BY <1>1 DEF FilesInPlace
  <2>2. Len(wq'[g]) = 0
    <3>0. wq'[g] \in Seq(JobRecords)
      BY <1>1
    <3>1. Len(wq'[g]) \in Nat /\ DOMAIN wq'[g] = 1..Len(wq'[g])
      BY <3>0, LenProperties
    <3>2. Len(wq'[g]) > 0 => 1 \in DOMAIN wq'[g]
      BY <3>1
    <3>. QED
      BY <2>1, <3>1, <3>2
  <2>. QED
    BY <2>1, <2>2, EmptySeq
<1>6. ConnsInPlace'
  <2>1. ASSUME NEW g \in Followers, NEW n \in DOMAIN wq'[g], wq'[g][n].from # NULL
        PROVE  /\ conn'[wq'[g][n].from].st = "open" /\ conn'[wq'[g][n].from].to = g
               /\ \A m \in DOMAIN wq'[g] : wq'[g][m].from = wq'[g][n].from => m = n
               /\ \A w \in Workers : work'[g][w].from # wq'[g][n].from
    <3>1. /\ n \in DOMAIN wq[g] /\ wq[g][n].from # NULL /\ wq[g][n].from # c
          /\ wq'[g][n].from = wq[g][n].from /\ wq[g][n].from \in Conns
      BY <1>1, <2>1
    <3>2. /\ conn[wq[g][n].from].st = "open" /\ conn[wq[g][n].from].to = g
          /\ \A m \in DOMAIN wq[g] : wq[g][m].from = wq[g][n].from => m = n
          /\ \A w \in Workers : work[g][w].from # wq[g][n].from
      BY <3>1 DEF ConnsInPlace
    <3>3. conn'[wq'[g][n].from].st = "open" /\ conn'[wq'[g][n].from].to = g
      BY <1>1, <3>1, <3>2
    <3>4. \A m \in DOMAIN wq'[g] : wq'[g][m].from = wq'[g][n].from => m = n
      BY <1>1, <3>1, <3>2
    <3>5. \A w \in Workers : work'[g][w].from # wq'[g][n].from
      BY <1>1, <3>1, <3>2
    <3>. QED
      BY <3>3, <3>4, <3>5
  <2>2. ASSUME NEW g \in Followers, NEW w \in Workers, work'[g][w].from # NULL
        PROVE  /\ conn'[work'[g][w].from].st = "open" /\ conn'[work'[g][w].from].to = g
               /\ \A v \in Workers : work'[g][v].from = work'[g][w].from => v = w
    <3>1. /\ work[g][w].from # NULL /\ work[g][w].from # c
          /\ work'[g][w].from = work[g][w].from /\ work[g][w].from \in Conns
      BY <1>1, <2>2
    <3>. QED
      BY <1>1, <3>1 DEF ConnsInPlace
  <2>3. \A d \in Conns : conn'[d].st = "answered" => conn'[d].res \in Responses
    BY <1>1 DEF ConnsInPlace
  <2>. QED
    BY <2>1, <2>2, <2>3 DEF ConnsInPlace
<1>. QED
  BY <1>2, <1>3, <1>4, <1>5, <1>6

-----------------------------------------------------------------------------
(* The invariant of the followers *)

\* The followers start with empty logs and queues.
LEMMA ServerInitInv == ServerInit => ServerInv
<1>. SUFFICES ASSUME ServerInit PROVE ServerInv
  OBVIOUS
<1>. USE NullFacts
<1>1. \A g \in Garbage : g \in PendingRecords
  BY ServerAssumption DEF Garbage, PendingRecords, Pending
<1>. USE DEF ServerInit
<1>2. Idle \in WorkRecords /\ Closed \in ConnRecords
  BY DEF Idle, WorkRecords, Labels, Closed, ConnRecords
<1>3. TypeOK
  <2>1. up \in [Followers -> BOOLEAN] /\ \A f \in Followers : up[f] <=> pending[f] # NULL
    BY <1>1
  <2>2. /\ 0 \in 0..MaxCrashes /\ << >> \in Seq(LogEntries \cup {Torn}) /\ << >> \in Seq(JobRecords)
        /\ {} \in Mishaps
    BY ServerAssumption DEF Mishaps
  <2>. QED
    BY <1>1, <1>2, <2>1, <2>2 DEF TypeOK, WorkRecords, ConnRecords, JobRecords
<1>4. TornIsBeingWritten
  BY DEF TornIsBeingWritten
<1>5. WorkersInPlace
  BY DEF WorkersInPlace, WorkerInPlace, Idle
<1>6. FilesInPlace
  BY DEF FilesInPlace
<1>7. ConnsInPlace
  BY DEF ConnsInPlace, Idle, Closed
<1>. QED
  BY <1>3, <1>4, <1>5, <1>6, <1>7 DEF ServerInv

\* Every step of a follower keeps the invariant.
LEMMA FollowerKeepsInv ==
  ASSUME ServerInv, NEW f \in Followers, FollowerStep(f)
  PROVE  ServerInv'
<1>1. CASE Crash(f)
  <2>1. up[f] /\ crashes' \in 0..MaxCrashes /\ promised' = promised /\ Die(f)
    BY <1>1, ServerAssumption DEF Crash, ServerInv, TypeOK
  <2>. QED
    BY <2>1, DieKeepsInv
<1>2. CASE Restart(f)
  BY <1>2, RestartKeepsInv
<1>3. ASSUME NEW w \in Workers, WorkerStep(f, w) PROVE ServerInv'
  <2>1. CASE ApplyFaults(f, w)
    <3>1. up[f] /\ crashes' \in 0..MaxCrashes /\ promised' = promised /\ Die(f)
      BY <2>1 DEF ApplyFaults, At, ServerInv, TypeOK
    <3>. QED
      BY <3>1, DieKeepsInv
  <2>. QED
    BY <1>3, <2>1, TakeKeepsInv, LogKeepsInv, HandlerKeepsInv, ReplyKeepsInv DEF WorkerStep
<1>. QED
  BY <1>1, <1>2, <1>3 DEF FollowerStep

\* So does a step that changes nothing of the followers.
LEMMA ServerStutters ==
  ASSUME ServerInv, UNCHANGED serverVars
  PROVE  ServerInv'
<1>. USE DEF ServerInv, serverVars, server
<1>1. TypeOK'
  BY DEF TypeOK
<1>2. TornIsBeingWritten'
  BY DEF TornIsBeingWritten, At
<1>3. WorkersInPlace'
  BY DEF WorkersInPlace, WorkerInPlace
<1>4. FilesInPlace' /\ ConnsInPlace'
  BY DEF FilesInPlace, ConnsInPlace
<1>. QED
  BY <1>1, <1>2, <1>3, <1>4

\* Together: the invariant is inductive.
LEMMA ServerNextInv == ServerInv /\ [Next]_serverVars => ServerInv'
BY FollowerKeepsInv, ConnectKeepsInv, DisconnectKeepsInv, ServerStutters DEF Next, ClientStep

\* The inductive invariant holds of followers that face any clients.
THEOREM ServerInvariant == Spec => []ServerInv
BY ServerInitInv, ServerNextInv, PTL DEF Spec

-----------------------------------------------------------------------------
(* The pending fields *)

\* A step of one follower is no step of another.
LEMMA StepElsewhere ==
  ASSUME TypeOK, NEW f \in Followers, FollowerStep(f), NEW g \in Followers, g # f
  PROVE  /\ up'[g] = up[g] /\ pending'[g] = pending[g] /\ log'[g] = log[g]
         /\ nextid'[g] = nextid[g] /\ store'[g] = store[g] /\ wq'[g] = wq[g]
         /\ work'[g] = work[g] /\ saved'[g] = saved[g] /\ promised'[g] = promised[g]
         /\ strayed'[g] = strayed[g]
<1>0. strayed'[g] = strayed[g]
  BY StrayedFacts
<1>1. ASSUME Die(f), UNCHANGED promised
      PROVE  /\ up'[g] = up[g] /\ pending'[g] = pending[g] /\ log'[g] = log[g]
             /\ nextid'[g] = nextid[g] /\ store'[g] = store[g] /\ wq'[g] = wq[g]
             /\ work'[g] = work[g] /\ saved'[g] = saved[g] /\ promised'[g] = promised[g]
  BY <1>1 DEF Die, TypeOK
<1>2. CASE Crash(f)
  BY <1>0, <1>1, <1>2 DEF Crash
<1>3. CASE Restart(f)
  BY <1>3 DEF Restart, TypeOK
<1>4. ASSUME NEW w \in Workers, WorkerStep(f, w)
      PROVE  /\ up'[g] = up[g] /\ pending'[g] = pending[g] /\ log'[g] = log[g]
             /\ nextid'[g] = nextid[g] /\ store'[g] = store[g] /\ wq'[g] = wq[g]
             /\ work'[g] = work[g] /\ saved'[g] = saved[g] /\ promised'[g] = promised[g]
  <2>1. CASE ApplyFaults(f, w)
    BY <1>1, <2>1 DEF ApplyFaults
  <2>2. CASE Take(f, w)
    BY <2>2 DEF Take, TypeOK, server
  <2>3. CASE LogOpen(f, w)
    BY <2>3 DEF LogOpen, Goto, TypeOK
  <2>4. CASE LogWrite(f, w)
    BY <2>4 DEF LogWrite, Goto, TypeOK
  <2>5. CASE ActPut(f, w) \/ ActDel(f, w)
    BY <2>5 DEF ActPut, ActDel, Goto, Answer, TypeOK
  <2>6. CASE SetKey(f, w) \/ SetVal(f, w)
    BY <2>6 DEF SetKey, SetVal, Goto, Answer, TypeOK
  <2>7. CASE ActCommit(f, w) \/ ActAbort(f, w) \/ ActGet(f, w)
    BY <2>7 DEF ActCommit, ActAbort, ActGet, Goto, Answer, TypeOK, server
  <2>8. CASE Apply(f, w)
    BY <2>8 DEF Apply, Goto, TypeOK
  <2>9. CASE ClrKey(f, w) \/ ClrVal(f, w) \/ ClrMsg(f, w)
    BY <2>9 DEF ClrKey, ClrVal, ClrMsg, Goto, Answer, TypeOK
  <2>10. CASE Reply(f, w)
    BY <2>10 DEF Reply, TypeOK, server
  <2>. QED
    BY <1>4, <2>1, <2>2, <2>3, <2>4, <2>5, <2>6, <2>7, <2>8, <2>9, <2>10 DEF WorkerStep
<1>. QED
  BY <1>0, <1>2, <1>3, <1>4 DEF FollowerStep

\* What the last entry of the log becomes when the worker logs its request.
LEMMA LogWriteFacts ==
  ASSUME ServerInv, NEW f \in Followers, NEW w \in Workers, LogWrite(f, w)
  PROVE  LastEntry(f)' = work[f][w].req /\ work[f][w].req \in LogEntries
<1>1. /\ work[f][w].req \in LogEntries /\ Len(log[f]) = nextid[f] + 1 /\ nextid[f] \in Nat
      /\ log[f] \in Seq(LogEntries \cup {Torn}) /\ log \in [Followers -> Seq(LogEntries \cup {Torn})]
  BY DEF ServerInv, WorkersInPlace, WorkerInPlace, LogWrite, At, TypeOK
<1>2. log'[f] = [log[f] EXCEPT ![nextid[f] + 1] = work[f][w].req]
  BY <1>1 DEF LogWrite
<1>3. /\ [log[f] EXCEPT ![nextid[f] + 1] = work[f][w].req] \in Seq(LogEntries \cup {Torn})
      /\ Len([log[f] EXCEPT ![nextid[f] + 1] = work[f][w].req]) = nextid[f] + 1
      /\ [log[f] EXCEPT ![nextid[f] + 1] = work[f][w].req][nextid[f] + 1] = work[f][w].req
  BY <1>1
<1>4. log'[f] # << >>
  BY <1>1, <1>2, <1>3
<1>. QED
  BY <1>1, <1>2, <1>3, <1>4 DEF LastEntry

\* What Goto and Answer do to the worker's record.
LEMMA GotoFields ==
  ASSUME TypeOK, NEW f \in Followers, NEW w \in Workers, NEW label, Goto(f, w, label)
  PROVE  /\ work'[f][w].pc = label /\ work'[f][w].from = work[f][w].from
         /\ work'[f][w].req = work[f][w].req /\ work'[f][w].res = work[f][w].res
BY DEF Goto, TypeOK

\* What an answer changes in its worker.
LEMMA AnswerFields ==
  ASSUME TypeOK, NEW f \in Followers, NEW w \in Workers, NEW res, Answer(f, w, res)
  PROVE  /\ work'[f][w].pc = "reply" /\ work'[f][w].from = work[f][w].from
         /\ work'[f][w].req = work[f][w].req /\ work'[f][w].res = res
BY DEF Answer, TypeOK

\* A step of a worker keeps what is known while it is the only one at a message.
LEMMA WorkerKeepsSingle ==
  ASSUME ServerInv, ServerInv', NEW f \in Followers, NEW w \in Workers,
         HandlingInPlace(f, w), WorkerStep(f, w)
  PROVE  HandlingInPlace(f, w)'
<1>. USE NullFacts
<1>0. /\ TypeOK /\ WorkerInPlace(f, w)
      /\ up[f] => /\ pending[f] \in PendingRecords
                  /\ pending[f].msg \in {"PUTREQ", "DELREQ", "EMPTY"}
      /\ work[f][w].pc # "idle" =>
           /\ work[f][w].req \in Requests
           /\ work[f][w].req.type = "PUTREQ" => work[f][w].req \in Writes
           /\ work[f][w].req.type = "DELREQ" => work[f][w].req \in Writes
           /\ work[f][w].req.type = "GETREQ" => work[f][w].req \notin LogEntries
           /\ work[f][w].req \in Writes =>
                /\ work[f][w].req.type \in {"PUTREQ", "DELREQ"}
                /\ work[f][w].req.type = "PUTREQ" => work[f][w].req.val \in Vals
                /\ work[f][w].req.key \in Keys
  <2>1. TypeOK /\ WorkerInPlace(f, w)
    BY DEF ServerInv, WorkersInPlace
  <2>2. up[f] => pending[f] \in PendingRecords
    BY <2>1 DEF TypeOK
  <2>3. up[f] => pending[f].msg \in {"PUTREQ", "DELREQ", "EMPTY"}
    BY <2>2 DEF PendingRecords
  <2>4. work[f][w].pc # "idle" => work[f][w].req \in Requests
    BY <2>1 DEF WorkerInPlace
  <2>. QED
    BY <2>1, <2>2, <2>3, <2>4, RequestFacts
<1>1. CASE Take(f, w)
  <2>1. /\ work'[f][w].pc \in {"act", "log"} /\ pending' = pending /\ up' = up /\ up[f]
        /\ work'[f][w].pc = "act" => work'[f][w].req.type = "GETREQ"
    BY <1>0, <1>1 DEF Take, At, server, TypeOK
  <2>2. work'[f][w].req \in Requests
    BY <2>1 DEF ServerInv, WorkersInPlace, WorkerInPlace
  <2>3. work'[f][w].pc = "act" => work'[f][w].req \notin LogEntries
    BY <2>1, <2>2, RequestFacts
  <2>4. Coherent(pending[f])
    BY <1>1, <2>1 DEF HandlingInPlace, Take, At
  <2>. QED
    BY <2>1, <2>3, <2>4 DEF HandlingInPlace, Coherent
<1>2. CASE LogOpen(f, w)
  <2>1. PICK label \in {"write", "act"} :
          Goto(f, w, label) /\ ("unlogged" \notin strayed'[f] => label = "write")
    BY <1>0, <1>2 DEF LogOpen, TypeOK
  <2>2. work'[f][w].pc = label
    BY <1>0, <2>1 DEF Goto, TypeOK
  <2>3. pending' = pending /\ up' = up /\ up[f] /\ Coherent(pending[f])
    BY <1>2 DEF LogOpen, HandlingInPlace, At
  <2>. QED
    BY <2>1, <2>2, <2>3 DEF HandlingInPlace, Coherent
<1>3. CASE LogWrite(f, w)
  <2>1. work'[f][w].pc = "act" /\ work'[f][w].req = work[f][w].req
    BY <1>0, <1>3 DEF LogWrite, Goto, TypeOK
  <2>2. LastEntry(f)' = work[f][w].req
    BY <1>3, LogWriteFacts
  <2>3. pending' = pending /\ up' = up /\ up[f] /\ Coherent(pending[f])
    BY <1>3 DEF LogWrite, HandlingInPlace, At
  <2>. QED
    BY <2>1, <2>2, <2>3 DEF HandlingInPlace, Coherent
<1>4. CASE ActPut(f, w) \/ (ActDel(f, w) /\ store[f][work[f][w].req.key] # NULL)
  <2>1. work'[f][w].pc = "setkey" /\ work'[f][w].req = work[f][w].req
    <3>1. Goto(f, w, "setkey")
      BY <1>4 DEF ActPut, ActDel
    <3>. QED
      BY <1>0, <3>1, GotoFields
  <2>2. /\ pending'[f].msg = work[f][w].req.type
        /\ UNCHANGED <<up, log, strayed>> /\ up[f] /\ work[f][w].pc = "act"
    BY <1>0, <1>4 DEF ActPut, ActDel, Handles, At, TypeOK, PendingRecords
  <2>. QED
    BY <2>1, <2>2 DEF HandlingInPlace, LastEntry
<1>5. CASE ActDel(f, w) /\ store[f][work[f][w].req.key] = NULL
  <2>1. work'[f][w].pc = "reply" /\ work'[f][w].req = work[f][w].req /\ work'[f][w].res = Error
    BY <1>0, <1>5, AnswerFields DEF ActDel
  <2>2. UNCHANGED <<up, log, pending, strayed>> /\ up[f] /\ work[f][w].pc = "act"
    BY <1>5 DEF ActDel, Handles, At
  <2>3. Error # Vote
    BY DEF Error, Vote, Response
  <2>. QED
    BY <2>1, <2>2, <2>3 DEF HandlingInPlace, LastEntry, Coherent
<1>6. CASE SetKey(f, w)
  <2>1. work'[f][w].pc = "setval" /\ work'[f][w].req = work[f][w].req
    BY <1>0, <1>6 DEF SetKey, Goto, TypeOK
  <2>2. /\ pending'[f].msg = pending[f].msg /\ pending'[f].key = work[f][w].req.key
        /\ UNCHANGED <<up, log, strayed>> /\ up[f] /\ work[f][w].pc = "setkey"
    BY <1>0, <1>6 DEF SetKey, At, TypeOK, PendingRecords
  <2>. QED
    BY <2>1, <2>2 DEF HandlingInPlace, LastEntry
<1>7. CASE SetVal(f, w)
  <2>1. work'[f][w].pc = "reply" /\ work'[f][w].req = work[f][w].req
    BY <1>0, <1>7 DEF SetVal, Answer, TypeOK
  <2>2. /\ UNCHANGED <<up, log, strayed>> /\ up[f] /\ work[f][w].pc = "setval"
        /\ work[f][w].req \in Writes
    BY <1>0, <1>7 DEF SetVal, At, WorkerInPlace
  <2>3. pending'[f] = PendingOf(work[f][w].req)
    <3>1. pending[f].msg = work[f][w].req.type /\ pending[f].key = work[f][w].req.key
      BY <2>2 DEF HandlingInPlace
    <3>2. pending'[f] = [pending[f] EXCEPT !.val = work[f][w].req.val]
      BY <1>0, <1>7 DEF SetVal, TypeOK
    <3>. QED
      BY <1>0, <2>2, <3>1, <3>2 DEF PendingOf, Pending, PendingRecords
  <2>4. Coherent(PendingOf(work[f][w].req))
    BY <1>0, <2>2 DEF Coherent, PendingOf, Pending
  <2>. QED
    BY <2>1, <2>2, <2>3, <2>4 DEF HandlingInPlace, LastEntry, Coherent
<1>8. CASE ActCommit(f, w)
  <2>1. /\ work'[f][w].req = work[f][w].req
        /\ \/ pending[f].msg = "PUTREQ" /\ work'[f][w].pc = "put"
           \/ pending[f].msg = "DELREQ" /\ work'[f][w].pc = "del"
           \/ pending[f].msg = "EMPTY" /\ work'[f][w].pc = "reply" /\ work'[f][w].res = Ack
    <3>1. \/ pending[f].msg = "PUTREQ" /\ Goto(f, w, "put")
          \/ pending[f].msg = "DELREQ" /\ Goto(f, w, "del")
          \/ pending[f].msg = "EMPTY" /\ Answer(f, w, Ack)
      BY <1>8 DEF ActCommit
    <3>. QED
      BY <1>0, <3>1, GotoFields, AnswerFields
  <2>2. UNCHANGED <<up, log, pending, strayed>> /\ up[f] /\ work[f][w].pc = "act"
    BY <1>8 DEF ActCommit, Handles, At, server
  <2>3. Ack # Vote
    BY DEF Ack, Vote, Response
  <2>. QED
    BY <2>1, <2>2, <2>3 DEF HandlingInPlace, LastEntry, Coherent
<1>9. CASE Apply(f, w) \/ ActAbort(f, w)
  <2>1. work'[f][w].pc = "clrkey" /\ work'[f][w].req = work[f][w].req
    <3>1. Goto(f, w, "clrkey")
      BY <1>9 DEF Apply, ActAbort
    <3>. QED
      BY <1>0, <3>1, GotoFields
  <2>2. UNCHANGED <<up, log, pending, strayed>> /\ up[f] /\ work[f][w].pc \in {"act", "put", "del"}
    BY <1>9 DEF Apply, ActAbort, Handles, At, server
  <2>. QED
    BY <2>1, <2>2 DEF HandlingInPlace, LastEntry, Coherent
<1>10. CASE ClrKey(f, w) \/ ClrVal(f, w)
  <2>1. work'[f][w].pc \in {"clrval", "clrmsg"} /\ work'[f][w].req = work[f][w].req
    <3>1. Goto(f, w, "clrval") \/ Goto(f, w, "clrmsg")
      BY <1>10 DEF ClrKey, ClrVal
    <3>. QED
      BY <1>0, <3>1, GotoFields
  <2>2. UNCHANGED <<up, log, strayed>> /\ up[f] /\ work[f][w].pc \in {"clrkey", "clrval"}
    BY <1>10 DEF ClrKey, ClrVal, At
  <2>. QED
    BY <2>1, <2>2 DEF HandlingInPlace, LastEntry
<1>11. CASE ClrMsg(f, w)
  <2>1. work'[f][w].pc = "reply" /\ work'[f][w].req = work[f][w].req /\ work'[f][w].res = Ack
    BY <1>0, <1>11 DEF ClrMsg, Answer, TypeOK
  <2>2. /\ UNCHANGED <<up, log, strayed>> /\ up[f] /\ work[f][w].pc = "clrmsg"
        /\ pending'[f].msg = "EMPTY"
    BY <1>0, <1>11 DEF ClrMsg, At, TypeOK, PendingRecords
  <2>3. Ack # Vote
    BY DEF Ack, Vote, Response
  <2>. QED
    BY <2>1, <2>2, <2>3 DEF HandlingInPlace, LastEntry, Coherent
<1>12. CASE ActGet(f, w)
  <2>1. /\ work'[f][w].pc = "reply" /\ work'[f][w].req = work[f][w].req
        /\ work'[f][w].res.type \in {"GETRESP", "ERROR"}
    BY <1>0, <1>12 DEF ActGet, Answer, TypeOK, Response, Error
  <2>2. /\ UNCHANGED <<up, log, pending, strayed>> /\ up[f] /\ work[f][w].pc = "act"
        /\ work[f][w].req \notin LogEntries
    BY <1>0, <1>12 DEF ActGet, Handles, At, server
  <2>3. Vote.type = "VOTE"
    BY DEF Vote, Response
  <2>. QED
    BY <2>1, <2>2, <2>3 DEF HandlingInPlace, LastEntry, Coherent
<1>13. CASE Reply(f, w)
  <2>1. work'[f][w] = Idle
    BY <1>0, <1>13 DEF Reply, TypeOK
  <2>2. UNCHANGED <<up, log, pending, strayed>> /\ up[f] /\ Coherent(pending[f])
    BY <1>13 DEF Reply, At, server, HandlingInPlace
  <2>. QED
    BY <2>1, <2>2 DEF HandlingInPlace, Coherent, Idle
<1>14. CASE ApplyFaults(f, w)
  BY <1>0, <1>14 DEF ApplyFaults, Die, HandlingInPlace, TypeOK
<1>. QED
  BY <1>1, <1>2, <1>3, <1>4, <1>5, <1>6, <1>7, <1>8, <1>9, <1>10, <1>11, <1>12, <1>13, <1>14
     DEF WorkerStep

\* What a message in hand is, and where a worker without one can be.
LEMMA BusyFacts ==
  ASSUME ServerInv, NEW f \in Followers, NEW w \in Workers
  PROVE  /\ Busy(f, w) <=> work[f][w].req \in LogEntries
         /\ ~Busy(f, w) => /\ work[f][w].pc \in {"idle", "act", "reply"}
                           /\ work[f][w].req \notin LogEntries
                           /\ work[f][w].res = Vote => work[f][w].pc # "reply"
<1>1. TypeOK /\ WorkerInPlace(f, w)
  BY DEF ServerInv, WorkersInPlace
<1>2. work[f][w].pc \in Labels
  BY <1>1 DEF TypeOK
<1>3. CASE work[f][w].pc = "idle"
  BY <1>1, <1>3, NullFacts DEF Busy, WorkerInPlace
<1>4. CASE work[f][w].pc # "idle"
  <2>0. work[f][w].req \in Requests /\ (Busy(f, w) <=> work[f][w].req.type # "GETREQ")
    BY <1>1, <1>4 DEF Busy, WorkerInPlace
  <2>1. Busy(f, w) <=> work[f][w].req \in LogEntries
    BY <2>0, RequestFacts
  <2>2. work[f][w].req \notin LogEntries =>
          work[f][w].req \notin Writes /\ work[f][w].req \notin Decisions
    BY NullFacts
  <2>. QED
    BY <1>1, <1>2, <2>1, <2>2 DEF WorkerInPlace, Labels
<1>. QED
  BY <1>3, <1>4

\* A worker keeps the message it has in hand until it has answered; it takes one
\* only when none of the others has one, or the follower strays.
LEMMA BusyMoves ==
  ASSUME ServerInv, ServerInv', NEW f \in Followers, NEW w \in Workers, WorkerStep(f, w)
  PROVE  /\ \A v \in Workers : v # w => work'[f][v] = work[f][v] \/ ~up'[f]
         /\ Busy(f, w) /\ up'[f] => Busy(f, w)' \/ Reply(f, w)
         /\ Busy(f, w)' /\ ~Busy(f, w) =>
              /\ Take(f, w)
              /\ "mixed" \notin strayed'[f] => \A v \in Workers : ~Busy(f, v)
<1>0. TypeOK
  BY DEF ServerInv
<1>1. CASE Take(f, w)
  <2>1. /\ \A v \in Workers : v # w => work'[f][v] = work[f][v]
        /\ work[f][w].pc = "idle"
        /\ work'[f][w].req = Head(wq[f]).req
        /\ Head(wq[f]).req.type # "GETREQ" /\ (\E u \in Workers : Busy(f, u)) =>
             "mixed" \in strayed'[f]
    BY <1>0, <1>1 DEF Take, At, TypeOK
  <2>2. ~Busy(f, w)
    BY <2>1 DEF Busy
  <2>3. Busy(f, w)' => Head(wq[f]).req.type # "GETREQ"
    BY <2>1 DEF Busy
  <2>. QED
    BY <1>1, <2>1, <2>2, <2>3
<1>2. CASE Reply(f, w)
  <2>1. /\ \A v \in Workers : v # w => work'[f][v] = work[f][v]
        /\ work'[f][w].pc = "idle"
    BY <1>0, <1>2 DEF Reply, TypeOK, Idle
  <2>. QED
    BY <1>2, <2>1 DEF Busy
<1>3. CASE ApplyFaults(f, w)
  <2>1. ~up'[f] /\ work'[f][w].pc = "idle"
    BY <1>0, <1>3 DEF ApplyFaults, Die, TypeOK, Idle
  <2>. QED
    BY <2>1 DEF Busy
<1>4. CASE ~(Take(f, w) \/ Reply(f, w) \/ ApplyFaults(f, w))
  <2>1. /\ work[f][w].pc # "idle"
        /\ (\E label : Goto(f, w, label) /\ label # "idle") \/ (\E res : Answer(f, w, res))
    <3>1. CASE LogOpen(f, w) \/ LogWrite(f, w) \/ ActPut(f, w) \/ ActDel(f, w)
      BY <3>1 DEF LogOpen, LogWrite, ActPut, ActDel, Handles, At
    <3>2. CASE SetKey(f, w) \/ SetVal(f, w) \/ ActCommit(f, w) \/ Apply(f, w) \/ ActAbort(f, w)
      BY <3>2 DEF SetKey, SetVal, ActCommit, Apply, ActAbort, Handles, At
    <3>3. CASE ClrKey(f, w) \/ ClrVal(f, w) \/ ClrMsg(f, w) \/ ActGet(f, w)
      BY <3>3 DEF ClrKey, ClrVal, ClrMsg, ActGet, Handles, At
    <3>. QED
      BY <1>4, <3>1, <3>2, <3>3 DEF WorkerStep
  <2>2. work'[f][w].req = work[f][w].req /\ work'[f][w].pc # "idle"
    BY <1>0, <2>1, GotoFields, AnswerFields
  <2>3. \A v \in Workers : v # w => work'[f][v] = work[f][v]
    BY <1>0, <2>1 DEF Goto, Answer, TypeOK
  <2>. QED
    BY <2>1, <2>2, <2>3 DEF Busy
<1>. QED
  BY <1>1, <1>2, <1>3, <1>4

\* A worker without a message of a transaction in hand takes one, or handles and
\* answers a GET.
LEMMA IdlerSteps ==
  ASSUME ServerInv, NEW f \in Followers, NEW w \in Workers, WorkerStep(f, w), ~Busy(f, w)
  PROVE  Take(f, w) \/ ActGet(f, w) \/ Reply(f, w)
<1>1. work[f][w].pc \in {"idle", "act", "reply"} /\ (work[f][w].pc = "act" => work[f][w].req.type = "GETREQ")
  BY BusyFacts DEF Busy
<1>2. CASE LogOpen(f, w) \/ LogWrite(f, w) \/ SetKey(f, w) \/ SetVal(f, w) \/ Apply(f, w)
           \/ ApplyFaults(f, w) \/ ClrKey(f, w) \/ ClrVal(f, w) \/ ClrMsg(f, w)
  BY <1>1, <1>2 DEF LogOpen, LogWrite, SetKey, SetVal, Apply, ApplyFaults, ClrKey, ClrVal, ClrMsg, At
<1>3. CASE ActPut(f, w) \/ ActDel(f, w) \/ ActCommit(f, w) \/ ActAbort(f, w)
  BY <1>1, <1>3 DEF ActPut, ActDel, ActCommit, ActAbort, Handles, At
<1>. QED
  BY <1>2, <1>3 DEF WorkerStep

\* Every step of a follower that does not stray keeps its pending fields coherent.
LEMMA FollowerKeepsSingle ==
  ASSUME ServerInv, ServerInv', SingleInv, NEW f \in Followers, FollowerStep(f)
  PROVE  SingleInv'
<1>. SUFFICES ASSUME NEW g \in Followers, "mixed" \notin strayed'[g]
              PROVE  Serial(g)' /\ \A w \in Workers : Alone(g, w)' => HandlingInPlace(g, w)'
  BY DEF SingleInv
<1>0. /\ TypeOK /\ Serial(g) /\ \A w \in Workers : WorkerInPlace(g, w)
      /\ \A w \in Workers : Alone(g, w) => HandlingInPlace(g, w)
      /\ "mixed" \notin strayed[g]
  <2>1. "mixed" \notin strayed[g]
    BY StrayedFacts DEF ServerInv
  <2>. QED
    BY <2>1 DEF SingleInv, ServerInv, WorkersInPlace
<1>1. CASE g # f
  BY <1>0, <1>1, StepElsewhere DEF Serial, Alone, Busy, HandlingInPlace, LastEntry, Coherent
<1>2. CASE g = f /\ ~up'[f]
  <2>1. \A w \in Workers : work'[f][w].pc = "idle"
    BY <1>2 DEF ServerInv, WorkersInPlace, WorkerInPlace
  <2>. QED
    BY <1>2, <2>1 DEF Serial, Busy, HandlingInPlace
<1>3. CASE g = f /\ Restart(f)
  <2>1. PICK p \in Rebuilt(LastEntry(f)) : pending' = [pending EXCEPT ![f] = p]
    BY <1>3 DEF Restart
  <2>2. Coherent(p) /\ pending'[f] = p
    BY <1>0, <2>1, RebuiltFacts, LastEntryType DEF TypeOK
  <2>3. work' = work /\ \A w \in Workers : work[f][w].pc = "idle" /\ work[f][w].req = NULL
    BY <1>0, <1>3 DEF Restart, WorkerInPlace
  <2>. QED
    BY <1>3, <2>2, <2>3, NullFacts DEF HandlingInPlace, Coherent, Serial, Busy
<1>4. CASE g = f /\ up'[f] /\ \E v \in Workers : WorkerStep(f, v)
  <2>1. PICK v \in Workers : WorkerStep(f, v)
    BY <1>4
  <2>2. /\ \A w \in Workers : w # v => work'[f][w] = work[f][w] /\ (Busy(f, w)' <=> Busy(f, w))
        /\ Busy(f, v) => Busy(f, v)' \/ Reply(f, v)
        /\ Busy(f, v)' /\ ~Busy(f, v) => Take(f, v) /\ \A w \in Workers : ~Busy(f, w)
    BY <1>4, <2>1, BusyMoves DEF Busy
  <2>3. Serial(f)'
    BY <1>0, <1>4, <2>2 DEF Serial, Alone
  <2>4. ASSUME NEW w \in Workers, Alone(f, w)' PROVE HandlingInPlace(f, w)'
    <3>1. CASE w = v
      BY <1>0, <1>4, <2>1, <2>2, <2>4, <3>1, WorkerKeepsSingle DEF Alone
    <3>2. CASE w # v /\ ~Busy(f, v)
      <4>1. Alone(f, w) /\ HandlingInPlace(f, w)
        BY <1>0, <1>4, <2>2, <2>4, <3>2 DEF Alone
      <4>2. Take(f, v) \/ ActGet(f, v) \/ Reply(f, v)
        BY <2>1, <3>2, IdlerSteps
      <4>3. UNCHANGED <<up, pending, log>> /\ strayed[f] \subseteq strayed'[f]
        BY <1>0, <4>2 DEF Take, ActGet, Reply, server, TypeOK
      <4>. QED
        BY <2>2, <3>2, <4>1, <4>3 DEF HandlingInPlace, LastEntry, Coherent
    <3>3. CASE w # v /\ Busy(f, v)
      <4>1. Alone(f, v) /\ ~Busy(f, w)
        BY <1>0, <1>4, <3>3 DEF Alone, Serial
      <4>5. ~Busy(f, v)'
        BY <2>4, <3>3 DEF Alone
      <4>6. Reply(f, v)
        BY <2>2, <3>3, <4>5
      <4>2. up[f] /\ work[f][v].pc = "reply" /\ UNCHANGED <<up, pending, log>>
        BY <4>6 DEF Reply, At, server
      <4>3. Coherent(pending[f])
        BY <1>0, <1>4, <4>1, <4>2 DEF HandlingInPlace
      <4>4. /\ work'[f][w] = work[f][w] /\ work[f][w].pc \in {"idle", "act", "reply"}
            /\ work[f][w].req \notin LogEntries
            /\ work[f][w].res = Vote => work[f][w].pc # "reply"
        BY <2>2, <3>3, <4>1, BusyFacts
      <4>. QED
        BY <4>2, <4>3, <4>4 DEF HandlingInPlace, Coherent
    <3>. QED
      BY <3>1, <3>2, <3>3
  <2>. QED
    BY <1>4, <2>3, <2>4
<1>. QED
  <2>1. CASE Crash(f)
    BY <1>0, <1>1, <1>2, <2>1 DEF Crash, Die, TypeOK
  <2>. QED
    BY <1>1, <1>2, <1>3, <1>4, <2>1 DEF FollowerStep

\* Clients do not touch the pending fields.
LEMMA ClientKeepsSingle ==
  ASSUME ServerInv, SingleInv, NEW c \in Conns,
         Disconnect(c) \/ (\E f \in Followers, r \in Requests : Connect(c, f, r))
  PROVE  SingleInv'
<1>1. UNCHANGED <<up, pending, log, strayed>>
  BY DEF Disconnect, Connect, server
<1>2. \A g \in Followers, w \in Workers :
        /\ work'[g][w].pc = work[g][w].pc /\ work'[g][w].req = work[g][w].req
        /\ work'[g][w].res = work[g][w].res
  <2>1. CASE Disconnect(c)
    BY <2>1, DisconnectFacts
  <2>2. CASE \E f \in Followers, r \in Requests : Connect(c, f, r)
    <3>1. work' = work
      BY <2>2 DEF Connect
    <3>. QED
      BY <3>1
  <2>. QED
    BY <2>1, <2>2
<1>. QED
  BY <1>1, <1>2 DEF SingleInv, Serial, Alone, Busy, HandlingInPlace, LastEntry, Coherent

\* With no process running there is nothing to be coherent.
LEMMA SingleInitInv == ServerInit => SingleInv
<1>1. \A g \in Garbage : Coherent(g)
  BY NullFacts, ServerAssumption DEF Garbage, Pending, Coherent
<1>2. Idle.pc = "idle" /\ Idle.req = NULL
  BY DEF Idle
<1>. QED
  BY <1>1, <1>2, NullFacts DEF ServerInit, SingleInv, Serial, Alone, Busy, HandlingInPlace, Coherent

\* Together: coherence is inductive.
LEMMA SingleNextInv == ServerInv /\ SingleInv /\ [Next]_serverVars => SingleInv'
<1>. SUFFICES ASSUME ServerInv, SingleInv, [Next]_serverVars PROVE SingleInv'
  OBVIOUS
<1>1. ServerInv'
  BY ServerNextInv
<1>2. CASE UNCHANGED serverVars
  BY <1>2 DEF SingleInv, Serial, Alone, Busy, HandlingInPlace, LastEntry, Coherent, serverVars, server
<1>. QED
  BY <1>1, <1>2, FollowerKeepsSingle, ClientKeepsSingle DEF Next, ClientStep

-----------------------------------------------------------------------------
(* Theorems *)

\* The types, and that a follower has pending fields exactly while its process
\* runs, for any clients (kvserver.c:19-39, 248-306).
THEOREM ServerTypes == Spec => []TypeOK
BY ServerInvariant, PTL DEF ServerInv

\* Coherent fields have the operands that a COMMIT uses.
LEMMA OperandsInPlace ==
  ASSUME ServerInv, SingleInv
  PROVE  CommitHasOperands
<1>. SUFFICES ASSUME NEW f \in Followers, NEW w \in Workers, "mixed" \notin strayed[f]
              PROVE  /\ At(f, w, "put") => /\ pending[f].key # NULL /\ pending[f].val # NULL
                                           /\ (pending[f].key = Wild) <=> (pending[f].val = Wild)
                     /\ At(f, w, "del") => pending[f].key # NULL
  BY DEF CommitHasOperands
<1>. SUFFICES ASSUME up[f], work[f][w].pc \in {"put", "del"}
              PROVE  HandlingInPlace(f, w)
  BY DEF HandlingInPlace, Coherent, At
<1>1. Busy(f, w)
  BY BusyFacts
<1>. QED
  BY <1>1 DEF SingleInv, Serial

\* As long as the messages of transactions are handled one at a time, the pending
\* fields are never used half set or half cleared, for any number of workers, any
\* clients and any crashes (kvserver.c:138-181).
THEOREM CommitAlwaysHasOperands == Spec => []CommitHasOperands
<1>1. Spec => []SingleInv
  BY SingleInitInv, SingleNextInv, ServerInvariant, PTL DEF Spec
<1>. QED
  BY <1>1, ServerInvariant, OperandsInPlace, PTL

-----------------------------------------------------------------------------
(* PART II: the system *)

-----------------------------------------------------------------------------
(* The leader's threads, whatever the followers do *)

Working == {"phase1", "phase2", "get"}

\* What a thread sends to the follower it is at.
Decision(x) == Request(IF x.abort THEN "ABORT" ELSE "COMMIT", NULL, NULL)
Sent(x) == IF x.pc = "phase2" THEN Decision(x) ELSE x.req

LeadRecords ==
  [pc : {"idle", "phase1", "phase2", "get", "done"}, req : Requests \cup {NULL},
   i : 0..Redundancy, abort : BOOLEAN, votes : 0..Redundancy,
   res : Vals \cup {"SUCCESS", "ERROR", NULL, Wild}]

\* The place of a thread in its walk; a vote is counted for each follower that
\* was asked, and all of them count exactly when nobody vetoed.
WalkInPlace(t, x) ==
  /\ x.pc \in {"phase1", "phase2"} => x.req \in Writes
  /\ x.pc = "get" => x.req \in GetRequests
  /\ x.pc = "done" => x.req \in Writes \cup GetRequests
  /\ x.pc # "idle" => x.i \in 1..Redundancy /\ x.req.type \in Kinds[t]
  /\ x.pc = "phase1" => x.votes <= x.i - 1 /\ (x.abort <=> x.votes < x.i - 1)

LeadInPlace(t) ==
  /\ WalkInPlace(t, lead[t])
  /\ conn[t].st # "closed" => lead[t].pc \in Working /\ conn[t].to = Target(t)

\* A message a thread waits for is the one it sent.
MessagesInPlace ==
  \A f \in Followers :
    /\ \A n \in DOMAIN wq[f] : wq[f][n].from # NULL => wq[f][n].req = Sent(lead[wq[f][n].from])
    /\ \A w \in Workers : work[f][w].from # NULL => work[f][w].req = Sent(lead[work[f][w].from])

SystemInv ==
  /\ ServerInv /\ SingleInv /\ SystemTypeOK
  /\ \A t \in Conns : LeadInPlace(t)
  /\ MessagesInPlace

-----------------------------------------------------------------------------
(* Replicas *)

\* A set of numbers that is not empty has a least one.
LEMMA Least ==
  ASSUME NEW T \in SUBSET Nat, T # {}
  PROVE  \E m \in T : \A k \in T : m <= k
<1>1. PICK m \in T : \A k \in T : ~(<<k, m>> \in OpToRel(<, Nat))
  BY NatLessThanWellFounded, WFMin
<1>2. ASSUME NEW k \in T PROVE ~(k < m)
  <2>1. k \in Nat /\ m \in Nat /\ ~(<<k, m>> \in OpToRel(<, Nat))
    BY <1>1
  <2>. QED
    BY <2>1, Zenon DEF OpToRel
<1>. QED
  BY <1>2

\* The walk from the primary goes through the list and comes round at its end.
LEMMA Places ==
  ASSUME NEW k \in Keys, NEW i \in 1..Redundancy
  PROVE  /\ ((PrimaryAt[k] + i - 2) % Len(Ring)) + 1 \in 1..Len(Ring)
         /\ ((PrimaryAt[k] + i - 2) % Len(Ring)) + 1 =
              IF PrimaryAt[k] + i - 1 <= Len(Ring) THEN PrimaryAt[k] + i - 1
              ELSE PrimaryAt[k] + i - 1 - Len(Ring)
<1>. DEFINE n == Len(Ring)
            p == PrimaryAt[k]
<1>1. n \in Nat /\ n >= 1 /\ p \in 1..n /\ Redundancy \in 1..n
  BY SystemAssumption
<1>. HIDE DEF n, p
<1>2. p + i - 2 \in 0..(2 * n - 2)
  BY <1>1
<1>3. ASSUME p + i - 2 < n
      PROVE  /\ ((p + i - 2) % n) + 1 \in 1..n
             /\ ((p + i - 2) % n) + 1 = IF p + i - 1 <= n THEN p + i - 1 ELSE p + i - 1 - n
  <2>1. (p + i - 2) % n = p + i - 2
    BY <1>1, <1>2, <1>3
  <2>. QED
    BY <1>1, <1>2, <1>3, <2>1
<1>4. ASSUME ~(p + i - 2 < n)
      PROVE  /\ ((p + i - 2) % n) + 1 \in 1..n
             /\ ((p + i - 2) % n) + 1 = IF p + i - 1 <= n THEN p + i - 1 ELSE p + i - 1 - n
  <2>1. (p + i - 2) % n = p + i - 2 - n
    BY <1>1, <1>2, <1>4
  <2>. QED
    BY <1>1, <1>2, <1>4, <2>1
<1>. QED
  BY <1>3, <1>4 DEF n, p

\* The replicas of a key are followers, and as many as they should be.
LEMMA ReplicaFacts ==
  ASSUME NEW k \in Keys, NEW i \in 1..Redundancy
  PROVE  /\ Replica(k, i) \in Followers
         /\ \A j \in 1..Redundancy : Replica(k, j) = Replica(k, i) => j = i
<1>. DEFINE at(j) == ((PrimaryAt[k] + j - 2) % Len(Ring)) + 1
<1>1. /\ Len(Ring) \in Nat /\ PrimaryAt[k] \in 1..Len(Ring) /\ Redundancy \in 1..Len(Ring)
      /\ Ring \in Seq(Followers)
  BY SystemAssumption
<1>2. at(i) \in 1..Len(Ring) /\ Replica(k, i) = Ring[at(i)]
  BY Places DEF Replica
<1>3. Ring[at(i)] \in Followers
  BY <1>1, <1>2
<1>4. ASSUME NEW j \in 1..Redundancy, Replica(k, j) = Replica(k, i) PROVE j = i
  <2>1. at(j) \in 1..Len(Ring) /\ Replica(k, j) = Ring[at(j)]
    BY Places DEF Replica
  <2>2. at(i) = at(j)
    BY <1>2, <1>4, <2>1, SystemAssumption
  <2>3. /\ at(i) = IF PrimaryAt[k] + i - 1 <= Len(Ring) THEN PrimaryAt[k] + i - 1
                   ELSE PrimaryAt[k] + i - 1 - Len(Ring)
        /\ at(j) = IF PrimaryAt[k] + j - 1 <= Len(Ring) THEN PrimaryAt[k] + j - 1
                   ELSE PrimaryAt[k] + j - 1 - Len(Ring)
    BY Places
  <2>. HIDE DEF at
  <2>. DEFINE n == Len(Ring)
              p == PrimaryAt[k]
  <2>4. (IF p + i - 1 <= n THEN p + i - 1 ELSE p + i - 1 - n) =
          (IF p + j - 1 <= n THEN p + j - 1 ELSE p + j - 1 - n)
    BY <2>2, <2>3, Zenon
  <2>5. n \in Nat /\ p \in 1..n /\ i \in 1..n /\ j \in 1..n
    BY <1>1
  <2>. HIDE DEF n, p
  <2>. QED
    BY <2>4, <2>5
<1>. QED
  BY <1>2, <1>3, <1>4

\* What the replicas show is what the first one that holds a value holds.
LEMMA ViewFacts ==
  ASSUME TypeOK, NEW k \in Keys
  PROVE  \/ /\ view[k] = NULL
            /\ \A j \in 1..Redundancy : store[Replica(k, j)][k] = NULL
         \/ \E i \in 1..Redundancy :
              /\ view[k] = store[Replica(k, i)][k] /\ view[k] # NULL
              /\ \A j \in 1..Redundancy : j < i => store[Replica(k, j)][k] = NULL
<1>. DEFINE holding == {i \in 1..Redundancy : store[Replica(k, i)][k] # NULL}
            first == CHOOSE i \in holding : \A j \in holding : i <= j
<1>1. view[k] = IF holding = {} THEN NULL ELSE store[Replica(k, first)][k]
  BY DEF view
<1>2. holding \in SUBSET Nat
  BY SystemAssumption
<1>3. holding # {} => first \in holding /\ \A j \in holding : first <= j
  <2>. HIDE DEF holding
  <2>1. holding # {} => \E i \in holding : \A j \in holding : i <= j
    BY <1>2, Least
  <2>. QED
    BY <2>1
<1>4. CASE holding = {}
  BY <1>1, <1>4
<1>5. CASE holding # {}
  <2>1. first \in 1..Redundancy /\ store[Replica(k, first)][k] # NULL /\ view[k] = store[Replica(k, first)][k]
    BY <1>1, <1>3, <1>5
  <2>2. ASSUME NEW j \in 1..Redundancy, j < first PROVE store[Replica(k, j)][k] = NULL
    BY <1>2, <1>3, <1>5, <2>1, <2>2
  <2>. QED
    BY <2>1, <2>2
<1>. QED
  BY <1>4, <1>5

\* A view is made of values, and of wild pointers.
LEMMA ViewType == TypeOK => \A k \in Keys : view[k] \in Vals \cup {NULL, Wild}
<1>. SUFFICES ASSUME TypeOK, NEW k \in Keys
              PROVE  view[k] \in Vals \cup {NULL, Wild}
  OBVIOUS
<1>1. ASSUME NEW i \in 1..Redundancy PROVE store[Replica(k, i)][k] \in Vals \cup {NULL, Wild}
  BY ReplicaFacts DEF TypeOK
<1>. QED
  BY <1>1, ViewFacts

-----------------------------------------------------------------------------
(* What the steps do to messages and connections *)

\* A client that gives up, or none: only its own connection and its name on the
\* messages it waits for go.
LEMMA EndOfWait ==
  ASSUME ServerInv, NEW c \in Conns, Disconnect(c) \/ UNCHANGED serverVars
  PROVE  /\ UNCHANGED server
         /\ \A d \in Conns : d # c => conn'[d] = conn[d]
         /\ \A g \in Followers : DOMAIN wq'[g] = DOMAIN wq[g]
         /\ \A g \in Followers : \A n \in DOMAIN wq[g] :
              wq'[g][n].req = wq[g][n].req /\ wq'[g][n].from \in {NULL, wq[g][n].from}
         /\ \A g \in Followers, w \in Workers :
              /\ work'[g][w].pc = work[g][w].pc /\ work'[g][w].req = work[g][w].req
              /\ work'[g][w].res = work[g][w].res
              /\ work'[g][w].from \in {NULL, work[g][w].from}
<1>1. CASE Disconnect(c)
  <2>1. UNCHANGED server
    BY <1>1 DEF Disconnect
  <2>. QED
    BY <1>1, <2>1, DisconnectFacts
<1>2. CASE UNCHANGED serverVars
  BY <1>2 DEF serverVars
<1>. QED
  BY <1>1, <1>2

\* The steps of a follower that take a message, answer one, or lose them all;
\* the others leave the messages where they are.
LEMMA FollowerStepShape ==
  ASSUME ServerInv, NEW f \in Followers, FollowerStep(f)
  PROVE  \/ \E w \in Workers : Take(f, w) \/ Reply(f, w)
         \/ up[f] /\ Die(f)
         \/ /\ UNCHANGED <<wq, conn>>
            /\ \A v \in Workers : /\ work'[f][v].req = work[f][v].req
                                  /\ work'[f][v].from = work[f][v].from
<1>0. TypeOK
  BY DEF ServerInv
<1>1. CASE Crash(f)
  BY <1>1 DEF Crash
<1>2. CASE Restart(f)
  BY <1>2 DEF Restart
<1>3. ASSUME NEW w \in Workers, WorkerStep(f, w)
      PROVE  \/ Take(f, w) \/ Reply(f, w)
             \/ up[f] /\ Die(f)
             \/ /\ UNCHANGED <<wq, conn>>
                /\ \A v \in Workers : /\ work'[f][v].req = work[f][v].req
                                      /\ work'[f][v].from = work[f][v].from
  <2>1. CASE ApplyFaults(f, w)
    BY <2>1 DEF ApplyFaults, At
  <2>2. CASE Take(f, w) \/ Reply(f, w)
    BY <2>2
  <2>3. ASSUME NEW label, Goto(f, w, label)
        PROVE  \A v \in Workers : /\ work'[f][v].req = work[f][v].req
                                  /\ work'[f][v].from = work[f][v].from
    BY <1>0, <2>3 DEF Goto, TypeOK
  <2>4. ASSUME NEW res, Answer(f, w, res)
        PROVE  \A v \in Workers : /\ work'[f][v].req = work[f][v].req
                                  /\ work'[f][v].from = work[f][v].from
    BY <1>0, <2>4 DEF Answer, TypeOK
  <2>5. CASE LogOpen(f, w) \/ LogWrite(f, w)
    BY <2>3, <2>5 DEF LogOpen, LogWrite
  <2>6. CASE ActPut(f, w) \/ ActDel(f, w) \/ ActCommit(f, w) \/ ActAbort(f, w) \/ ActGet(f, w)
    BY <2>3, <2>4, <2>6 DEF ActPut, ActDel, ActCommit, ActAbort, ActGet
  <2>7. CASE SetKey(f, w) \/ SetVal(f, w) \/ Apply(f, w)
    BY <2>3, <2>4, <2>7 DEF SetKey, SetVal, Apply
  <2>8. CASE ClrKey(f, w) \/ ClrVal(f, w) \/ ClrMsg(f, w)
    BY <2>3, <2>4, <2>8 DEF ClrKey, ClrVal, ClrMsg
  <2>. QED
    BY <1>3, <2>1, <2>2, <2>5, <2>6, <2>7, <2>8 DEF WorkerStep
<1>. QED
  BY <1>1, <1>2, <1>3 DEF FollowerStep

\* What a step of f leaves in its queue was there, in the same order.
LEMMA QueueMoves ==
  ASSUME ServerInv, NEW f \in Followers, FollowerStep(f)
  PROVE  \E d \in {0, 1} :
           /\ \A n \in DOMAIN wq'[f] : n + d \in DOMAIN wq[f] /\ wq'[f][n] = wq[f][n + d]
           /\ (\E w \in Workers : Take(f, w)) => d = 1
<1>0. TypeOK /\ wq[f] \in Seq(JobRecords)
  BY DEF ServerInv, TypeOK, JobRecords
<1>1. ASSUME NEW w \in Workers, Take(f, w)
      PROVE  \A n \in DOMAIN wq'[f] : n + 1 \in DOMAIN wq[f] /\ wq'[f][n] = wq[f][n + 1]
  <2>1. wq'[f] = Tail(wq[f]) /\ wq[f] # << >>
    BY <1>0, <1>1 DEF Take, TypeOK
  <2>. QED
    BY <1>0, <2>1, TailFacts
<1>2. ASSUME wq' = wq
      PROVE  \A n \in DOMAIN wq'[f] : n + 0 \in DOMAIN wq[f] /\ wq'[f][n] = wq[f][n + 0]
  <2>1. DOMAIN wq[f] = 1..Len(wq[f])
    BY <1>0
  <2>. QED
    BY <1>2, <2>1
<1>3. CASE Die(f)
  <2>1. wq'[f] = << >>
    BY <1>0, <1>3 DEF Die, TypeOK
  <2>. QED
    BY <2>1
<1>4. ASSUME NEW w \in Workers, Reply(f, w) PROVE wq' = wq
  BY <1>4 DEF Reply
<1>5. CASE \E w \in Workers : Take(f, w)
  BY <1>1, <1>5
<1>6. CASE ~\E w \in Workers : Take(f, w)
  BY <1>2, <1>3, <1>4, <1>6, FollowerStepShape
<1>. QED
  BY <1>5, <1>6

\* What a worker of f has after a step of f it had, or took from the queue.
LEMMA WorkMoves ==
  ASSUME ServerInv, NEW f \in Followers, FollowerStep(f), NEW w \in Workers
  PROVE  \/ work'[f][w].req = NULL /\ work'[f][w].from = NULL
         \/ work'[f][w].req = work[f][w].req /\ work'[f][w].from = work[f][w].from
         \/ /\ Take(f, w) /\ 1 \in DOMAIN wq[f]
            /\ work'[f][w].req = wq[f][1].req /\ work'[f][w].from = wq[f][1].from
<1>0. TypeOK /\ wq[f] \in Seq(JobRecords)
  BY DEF ServerInv, TypeOK, JobRecords
<1>1. ASSUME NEW v \in Workers, Take(f, v)
      PROVE  \/ work'[f][w] = work[f][w]
             \/ /\ v = w /\ 1 \in DOMAIN wq[f]
                /\ work'[f][w].req = wq[f][1].req /\ work'[f][w].from = wq[f][1].from
  <2>1. wq[f] # << >> /\ 1 \in DOMAIN wq[f] /\ Head(wq[f]) = wq[f][1]
    BY <1>0, <1>1, TailFacts DEF Take
  <2>2. CASE v = w
    BY <1>0, <1>1, <2>1, <2>2 DEF Take, TypeOK
  <2>3. CASE v # w
    BY <1>0, <1>1, <2>3 DEF Take, TypeOK
  <2>. QED
    BY <2>2, <2>3
<1>2. ASSUME NEW v \in Workers, Reply(f, v)
      PROVE  \/ work'[f][w] = work[f][w]
             \/ work'[f][w].req = NULL /\ work'[f][w].from = NULL
  BY <1>0, <1>2 DEF Reply, TypeOK, Idle
<1>3. CASE Die(f)
  BY <1>0, <1>3 DEF Die, TypeOK, Idle
<1>. QED
  BY <1>1, <1>2, <1>3, FollowerStepShape

\* The connections a step of f changes lead to f: one is answered with what a
\* worker had for it, or those that wait for an answer are cut off.
LEMMA ConnMoves ==
  ASSUME ServerInv, NEW f \in Followers, FollowerStep(f), NEW c \in Conns
  PROVE  /\ conn'[c].to = conn[c].to
         /\ \/ conn'[c] = conn[c]
            \/ /\ Die(f) /\ conn[c].to = f /\ conn[c].st = "open" /\ conn'[c].st = "reset"
            \/ \E w \in Workers : /\ Reply(f, w) /\ work[f][w].from = c
                                  /\ conn[c].to = f /\ conn[c].st = "open"
                                  /\ conn'[c].st = "answered" /\ conn'[c].res = work[f][w].res
<1>0. TypeOK /\ ConnsInPlace /\ conn[c] \in ConnRecords /\ NULL \notin Conns
  BY NullFacts DEF ServerInv, TypeOK, ConnRecords
<1>1. ASSUME NEW v \in Workers, Reply(f, v)
      PROVE  /\ conn'[c].to = conn[c].to
             /\ \/ conn'[c] = conn[c]
                \/ /\ work[f][v].from = c /\ conn[c].to = f /\ conn[c].st = "open"
                   /\ conn'[c].st = "answered" /\ conn'[c].res = work[f][v].res
  <2>1. CASE work[f][v].from = c
    <3>1. conn[c].to = f /\ conn[c].st = "open"
      BY <1>0, <2>1 DEF ConnsInPlace
    <3>2. conn' = [conn EXCEPT ![c].st = "answered", ![c].res = work[f][v].res]
      BY <1>0, <1>1, <2>1 DEF Reply
    <3>. QED
      BY <1>0, <2>1, <3>1, <3>2 DEF TypeOK, ConnRecords
  <2>2. CASE work[f][v].from # c
    BY <1>0, <1>1, <2>2 DEF Reply, TypeOK
  <2>. QED
    BY <2>1, <2>2
<1>2. CASE Die(f)
  BY <1>0, <1>2 DEF Die, ConnRecords
<1>3. ASSUME NEW v \in Workers, Take(f, v) PROVE conn' = conn
  BY <1>3 DEF Take
<1>. QED
  BY <1>1, <1>2, <1>3, FollowerStepShape

\* A message that is sent goes to the end of the queue, and nothing else moves.
LEMMA ConnectFacts ==
  ASSUME ServerInv, NEW c \in Conns, NEW f \in Followers, NEW r \in Requests, Connect(c, f, r)
  PROVE  /\ UNCHANGED <<server, work>> /\ up[f]
         /\ conn[c].st = "closed" /\ conn'[c].st = "open" /\ conn'[c].to = f
         /\ \A d \in Conns : d # c => conn'[d] = conn[d]
         /\ \A g \in Followers : g # f => wq'[g] = wq[g]
         /\ \A n \in DOMAIN wq[f] : n \in DOMAIN wq'[f] /\ wq'[f][n] = wq[f][n]
         /\ \A n \in DOMAIN wq'[f] :
              \/ n \in DOMAIN wq[f]
              \/ /\ wq'[f][n].from = c /\ wq'[f][n].req = r
                 /\ \A m \in DOMAIN wq'[f] : ~(m > n)
<1>0. TypeOK /\ wq[f] \in Seq(JobRecords)
  BY DEF ServerInv, TypeOK, JobRecords
<1>. DEFINE e == [from |-> c, req |-> r]
<1>1. e \in JobRecords /\ e.from = c /\ e.req = r
  BY DEF JobRecords
<1>2. wq' = [wq EXCEPT ![f] = Append(@, e)]
  BY DEF Connect
<1>. HIDE DEF e
<1>3. wq'[f] = Append(wq[f], e) /\ \A g \in Followers : g # f => wq'[g] = wq[g]
  BY <1>0, <1>2 DEF TypeOK
<1>4. /\ \A n \in DOMAIN wq[f] : n \in DOMAIN wq'[f] /\ wq'[f][n] = wq[f][n]
      /\ \A n \in DOMAIN wq'[f] : n \in DOMAIN wq[f] \/ n = Len(wq[f]) + 1
      /\ wq'[f][Len(wq[f]) + 1] = e /\ DOMAIN wq'[f] = 1..(Len(wq[f]) + 1) /\ Len(wq[f]) \in Nat
  <2>1. Append(wq[f], e) \in Seq(JobRecords) /\ Len(Append(wq[f], e)) = Len(wq[f]) + 1
    BY <1>0, <1>1, AppendFacts
  <2>2. DOMAIN wq'[f] = 1..(Len(wq[f]) + 1) /\ Len(wq[f]) \in Nat
    BY <1>0, <1>3, <2>1
  <2>. QED
    BY <1>0, <1>1, <1>3, <2>2, AppendFacts
<1>5. \A n \in DOMAIN wq'[f] :
        \/ n \in DOMAIN wq[f]
        \/ /\ wq'[f][n].from = c /\ wq'[f][n].req = r
           /\ \A m \in DOMAIN wq'[f] : ~(m > n)
  BY <1>1, <1>4
<1>6. /\ UNCHANGED <<server, work>> /\ up[f]
      /\ conn[c].st = "closed" /\ conn'[c].st = "open" /\ conn'[c].to = f
      /\ \A d \in Conns : d # c => conn'[d] = conn[d]
  BY <1>0 DEF Connect, TypeOK
<1>. QED
  BY <1>3, <1>4, <1>5, <1>6

-----------------------------------------------------------------------------
(* What the steps do to the leader's threads *)

\* What a thread sends is a request, to a replica of its key; it is a message of
\* a transaction exactly when the thread writes.
LEMMA LeadFacts ==
  ASSUME SystemTypeOK, NEW t \in Conns, WalkInPlace(t, lead[t])
  PROVE  /\ lead[t] \in LeadRecords
         /\ lead[t].pc \in Working =>
              /\ lead[t].req.key \in Keys /\ lead[t].i \in 1..Redundancy
              /\ Target(t) \in Followers /\ Sent(lead[t]) \in Requests
         /\ lead[t].pc \in {"phase1", "phase2"} => Sent(lead[t]) \in LogEntries
         /\ lead[t].pc = "get" => Sent(lead[t]) \in GetRequests
<1>1. lead[t] \in LeadRecords
  BY DEF SystemTypeOK, LeadRecords
<1>2. Decision(lead[t]) \in Decisions
  BY DEF Decision, Decisions
<1>3. lead[t].pc \in {"phase1", "phase2"} => lead[t].req \in Writes /\ Sent(lead[t]) \in LogEntries
  BY <1>2, NullFacts DEF WalkInPlace, Sent
<1>4. lead[t].pc = "get" => lead[t].req \in GetRequests /\ Sent(lead[t]) \in GetRequests
  BY DEF WalkInPlace, Sent
<1>5. lead[t].pc \in Working =>
        /\ lead[t].req \in Requests /\ lead[t].req.key \in Keys /\ Sent(lead[t]) \in Requests
        /\ lead[t].i \in 1..Redundancy
  <2>1. SUFFICES ASSUME lead[t].pc \in Working
                 PROVE  /\ lead[t].req \in Requests /\ lead[t].req.key \in Keys
                        /\ Sent(lead[t]) \in Requests /\ lead[t].i \in 1..Redundancy
    OBVIOUS
  <2>2. lead[t].req \in Writes \cup GetRequests /\ Sent(lead[t]) \in LogEntries \cup GetRequests
    BY <1>3, <1>4, <2>1 DEF Working
  <2>3. lead[t].i \in 1..Redundancy
    BY <2>1 DEF WalkInPlace, Working
  <2>4. lead[t].req.key \in Keys
    BY <2>2 DEF Writes, PutRequests, DelRequests, GetRequests, Request
  <2>. QED
    BY <2>2, <2>3, <2>4, NullFacts
<1>6. lead[t].pc \in Working => Target(t) \in Followers
  BY <1>5, ReplicaFacts DEF Target
<1>. QED
  BY <1>1, <1>3, <1>4, <1>5, <1>6

\* A vote of phase 1 is counted and the walk goes on, or the decision is taken:
\* it is to commit only if every replica voted for the request.
LEMMA Phase1Moves ==
  ASSUME SystemTypeOK, NEW t \in Conns, WalkInPlace(t, lead[t]), lead[t].pc = "phase1",
         NEW vote \in BOOLEAN, Phase1Next(t, vote)
  PROVE  \E y \in LeadRecords :
           /\ lead' = [lead EXCEPT ![t] = y] /\ WalkInPlace(t, y)
           /\ y.req = lead[t].req /\ (y.abort <=> lead[t].abort \/ ~vote)
           /\ lead[t].i # Redundancy => y.pc = "phase1" /\ y.i = lead[t].i + 1
           /\ lead[t].i = Redundancy => /\ y.pc = "phase2" /\ y.i = 1
                                        /\ ~y.abort => lead[t].req \in agreed'
           /\ agreed \subseteq agreed' /\ agreed' \subseteq Writes
<1>. DEFINE x == lead[t]
            v == x.votes + (IF vote THEN 1 ELSE 0)
            last == x.i = Redundancy
            y == [x EXCEPT !.pc = IF last THEN "phase2" ELSE "phase1",
                           !.i = IF last THEN 1 ELSE @ + 1,
                           !.abort = x.abort \/ ~vote, !.votes = v]
<1>1. /\ x \in LeadRecords /\ x.req \in Writes /\ x.i \in 1..Redundancy /\ Redundancy \in Nat
      /\ x.req.type \in Kinds[t]
      /\ x.votes \in Nat /\ x.votes <= x.i - 1 /\ (x.abort <=> x.votes < x.i - 1)
  BY LeadFacts, SystemAssumption DEF WalkInPlace, LeadRecords
<1>2. lead' = [lead EXCEPT ![t] = y]
  BY DEF Phase1Next, Vetoed, SystemTypeOK
<1>3. v \in 0..Redundancy /\ v <= x.i
  BY <1>1
<1>. HIDE DEF v
<1>4. y \in LeadRecords
  <2>1. (IF last THEN 1 ELSE x.i + 1) \in 0..Redundancy
    BY <1>1
  <2>2. (x.abort \/ ~vote) \in BOOLEAN
    OBVIOUS
  <2>. QED
    BY <1>1, <1>3, <2>1, <2>2 DEF LeadRecords
<1>5. /\ y.pc = (IF last THEN "phase2" ELSE "phase1") /\ y.i = (IF last THEN 1 ELSE x.i + 1)
      /\ y.abort = (x.abort \/ ~vote) /\ y.votes = v /\ y.req = x.req
  BY <1>1 DEF LeadRecords
<1>6. (x.abort \/ ~vote) <=> v < x.i
  BY <1>1 DEF v
<1>7. agreed' = IF v = Redundancy THEN agreed \cup {x.req} ELSE agreed
  BY DEF Phase1Next, v
<1>8. agreed \subseteq agreed' /\ agreed' \subseteq Writes
  BY <1>1, <1>7 DEF SystemTypeOK, Writes
<1>. HIDE DEF y
<1>9. WalkInPlace(t, y)
  <2>1. CASE last
    <3>1. y.pc = "phase2" /\ y.i = 1 /\ 1 \in 1..Redundancy
      BY <1>1, <1>5, <2>1
    <3>. QED
      BY <1>1, <1>5, <3>1 DEF WalkInPlace
  <2>2. CASE ~last
    <3>1. y.pc = "phase1" /\ y.i = x.i + 1 /\ y.i - 1 = x.i /\ y.i \in 1..Redundancy
      BY <1>1, <1>5, <2>2
    <3>2. y.votes <= y.i - 1 /\ (y.abort <=> y.votes < y.i - 1)
      BY <1>3, <1>5, <1>6, <3>1
    <3>. QED
      BY <1>1, <1>5, <3>1, <3>2 DEF WalkInPlace
  <2>. QED
    BY <2>1, <2>2
<1>10. last /\ ~y.abort => x.req \in agreed'
  <2>. SUFFICES ASSUME last, ~y.abort PROVE x.req \in agreed'
    OBVIOUS
  <2>1. ~(v < x.i)
    BY <1>5, <1>6
  <2>2. v = Redundancy
    BY <1>1, <1>3, <2>1
  <2>. QED
    BY <1>7, <2>2
<1>. QED
  BY <1>1, <1>2, <1>4, <1>5, <1>8, <1>9, <1>10

\* An acknowledgement of phase 2 moves the walk on, or ends it.
LEMMA Phase2Moves ==
  ASSUME SystemTypeOK, NEW t \in Conns, WalkInPlace(t, lead[t]), lead[t].pc = "phase2",
         Phase2Next(t)
  PROVE  \E y \in LeadRecords :
           /\ lead' = [lead EXCEPT ![t] = y] /\ WalkInPlace(t, y)
           /\ y.req = lead[t].req /\ y.abort = lead[t].abort
           /\ lead[t].i # Redundancy => y.pc = "phase2" /\ y.i = lead[t].i + 1
           /\ lead[t].i = Redundancy =>
                y.pc = "done" /\ y.res = IF lead[t].abort THEN "ERROR" ELSE "SUCCESS"
<1>. DEFINE x == lead[t]
            y == IF x.i = Redundancy
                 THEN [x EXCEPT !.pc = "done", !.res = IF x.abort THEN "ERROR" ELSE "SUCCESS"]
                 ELSE [x EXCEPT !.i = @ + 1]
<1>1. /\ x \in LeadRecords /\ x.req \in Writes /\ x.i \in 1..Redundancy /\ Redundancy \in Nat
      /\ x.req.type \in Kinds[t]
  BY LeadFacts, SystemAssumption DEF WalkInPlace
<1>2. lead' = [lead EXCEPT ![t] = y]
  BY DEF Phase2Next, SystemTypeOK
<1>3. y \in LeadRecords
  <2>1. CASE x.i = Redundancy
    BY <1>1, <2>1 DEF LeadRecords
  <2>2. CASE x.i # Redundancy
    <3>1. x.i + 1 \in 0..Redundancy
      BY <1>1, <2>2
    <3>. QED
      BY <1>1, <2>2, <3>1 DEF LeadRecords
  <2>. QED
    BY <2>1, <2>2
<1>4. /\ x.i # Redundancy => y.pc = "phase2" /\ y.i = x.i + 1
      /\ x.i = Redundancy =>
           y.pc = "done" /\ y.i = x.i /\ y.res = IF x.abort THEN "ERROR" ELSE "SUCCESS"
      /\ y.req = x.req /\ y.abort = x.abort
  BY <1>1 DEF LeadRecords
<1>. HIDE DEF y
<1>5. WalkInPlace(t, y)
  BY <1>1, <1>4 DEF WalkInPlace
<1>. QED
  BY <1>2, <1>3, <1>4, <1>5

\* A GET asks the next replica, or ends: with a value, or with none once it has
\* asked all of them.
LEMMA GetMoves ==
  ASSUME SystemTypeOK, NEW t \in Conns, WalkInPlace(t, lead[t]), lead[t].pc = "get",
         \/ GetNext(t)
         \/ conn[t].res \in Responses /\ GetAnswered(t)
  PROVE  \E y \in LeadRecords :
           /\ lead' = [lead EXCEPT ![t] = y] /\ WalkInPlace(t, y)
           /\ y.req = lead[t].req
           /\ \/ /\ y.pc = "done" /\ conn[t].res.type = "GETRESP" /\ y.res = conn[t].res.body
                 /\ GetAnswered(t)
              \/ y.pc = "done" /\ lead[t].i = Redundancy /\ y.res = NULL /\ GetNext(t)
              \/ y.pc = "get" /\ lead[t].i # Redundancy /\ y.i = lead[t].i + 1 /\ GetNext(t)
<1>. DEFINE x == lead[t]
<1>1. /\ x \in LeadRecords /\ x.req \in GetRequests /\ x.i \in 1..Redundancy
      /\ Redundancy \in Nat /\ x.req.type \in Kinds[t]
  BY LeadFacts, SystemAssumption DEF WalkInPlace
<1>2. ASSUME NEW y \in LeadRecords, y.req = x.req, y.pc \in {"get", "done"}, y.i \in 1..Redundancy
      PROVE  WalkInPlace(t, y)
  BY <1>1, <1>2 DEF WalkInPlace
<1>3. CASE GetNext(t)
  <2>1. CASE x.i = Redundancy
    <3>. DEFINE y == [x EXCEPT !.pc = "done", !.res = NULL]
    <3>1. lead' = [lead EXCEPT ![t] = y]
      BY <1>3, <2>1 DEF GetNext, SystemTypeOK
    <3>2. y \in LeadRecords /\ y.req = x.req /\ y.pc = "done" /\ y.i = x.i /\ y.res = NULL
      BY <1>1 DEF LeadRecords
    <3>. HIDE DEF y
    <3>. QED
      BY <1>1, <1>2, <1>3, <2>1, <3>1, <3>2
  <2>2. CASE x.i # Redundancy
    <3>. DEFINE y == [x EXCEPT !.i = @ + 1]
    <3>1. lead' = [lead EXCEPT ![t] = y]
      BY <1>3, <2>2 DEF GetNext, SystemTypeOK
    <3>2. /\ y \in LeadRecords /\ y.req = x.req /\ y.pc = "get" /\ y.i = x.i + 1
          /\ y.i \in 1..Redundancy
      BY <1>1, <2>2 DEF LeadRecords
    <3>. HIDE DEF y
    <3>. QED
      BY <1>2, <1>3, <2>2, <3>1, <3>2
  <2>. QED
    BY <2>1, <2>2
<1>4. CASE conn[t].res \in Responses /\ GetAnswered(t) /\ conn[t].res.type = "GETRESP"
  <2>. DEFINE y == [x EXCEPT !.pc = "done", !.res = conn[t].res.body]
  <2>1. lead' = [lead EXCEPT ![t] = y]
    BY <1>4 DEF GetAnswered, SystemTypeOK
  <2>2. conn[t].res.body \in Vals \cup {Wild}
    BY <1>4 DEF Responses, Vote, Ack, Error, Response
  <2>3. y \in LeadRecords /\ y.req = x.req /\ y.pc = "done" /\ y.i = x.i /\ y.res = conn[t].res.body
    BY <1>1, <2>2 DEF LeadRecords
  <2>. HIDE DEF y
  <2>. QED
    BY <1>1, <1>2, <1>4, <2>1, <2>3
<1>5. CASE GetAnswered(t) /\ conn[t].res.type # "GETRESP"
  BY <1>3, <1>5 DEF GetAnswered
<1>. QED
  BY <1>3, <1>4, <1>5

-----------------------------------------------------------------------------
(* The steps of a thread, by what they make of its record *)

\* A request arrives.
Asks(t, y) ==
  /\ lead[t].pc = "idle" /\ y.pc \in {"phase1", "get"} /\ y.i = 1 /\ ~y.abort
  /\ crossed' = (crossed \/ (y.req.type # "GETREQ" /\ \E u \in Conns : Writing(u)))
  /\ UNCHANGED <<serverVars, agreed>>

\* The wait of phase 1 ends: it is for the transaction only with a vote.
Counts(t, y) ==
  /\ lead[t].pc = "phase1" /\ y.req = lead[t].req
  /\ ~y.abort => ~lead[t].abort /\ conn[t].st = "answered" /\ conn[t].res = Vote
  /\ lead[t].i # Redundancy => y.pc = "phase1" /\ y.i = lead[t].i + 1
  /\ lead[t].i = Redundancy => /\ y.pc = "phase2" /\ y.i = 1
                               /\ ~y.abort => lead[t].req \in agreed'

\* Phase 2 is acknowledged.
Acks(t, y) ==
  /\ lead[t].pc = "phase2" /\ conn[t].st = "answered"
  /\ y.req = lead[t].req /\ y.abort = lead[t].abort
  /\ lead[t].i # Redundancy => y.pc = "phase2" /\ y.i = lead[t].i + 1
  /\ lead[t].i = Redundancy =>
       y.pc = "done" /\ y.res = IF lead[t].abort THEN "ERROR" ELSE "SUCCESS"

\* A GET is answered with a value, or goes on or ends without one.
Reads(t, y) ==
  /\ lead[t].pc = "get" /\ y.req = lead[t].req
  /\ \/ /\ y.pc = "done" /\ conn[t].st = "answered"
        /\ conn[t].res.type = "GETRESP" /\ y.res = conn[t].res.body
     \/ /\ \/ conn[t].st = "answered" /\ conn[t].res.type # "GETRESP"
           \/ ~up[Target(t)]
        /\ \/ y.pc = "done" /\ lead[t].i = Redundancy /\ y.res = NULL
           \/ y.pc = "get" /\ lead[t].i # Redundancy /\ y.i = lead[t].i + 1

\* The client has its answer.
Ends(t, y) == lead[t].pc = "done" /\ y.pc = "idle"

\* The record of thread t becomes y, its connection being closed.
Moves(t, y) ==
  /\ Disconnect(t) \/ UNCHANGED serverVars
  /\ conn'[t].st = "closed"
  /\ lead' = [lead EXCEPT ![t] = y] /\ WalkInPlace(t, y)
  /\ agreed \subseteq agreed'
  /\ \/ Asks(t, y)
     \/ UNCHANGED crossed /\ (Counts(t, y) \/ Acks(t, y) \/ Reads(t, y) \/ Ends(t, y))

\* The thread sends to the follower it is at.
Sends(t) ==
  /\ lead[t].pc \in Working /\ Connect(t, Target(t), Sent(lead[t]))
  /\ UNCHANGED <<lead, crossed, agreed>>

\* The thread has got nowhere and will try again, or the leader is dead.
Retries(t) ==
  lead[t].pc \in {"phase2", "get"} /\ Disconnect(t) /\ UNCHANGED <<lead, crossed, agreed>>

\* A step of a leader thread sends, retries or only moves on.
LEMMA ThreadStepShape ==
  ASSUME SystemInv, NEW t \in Conns, ClientRequest(t) \/ ThreadStep(t)
  PROVE  /\ issued' \in 0..MaxRequests /\ timeouts' \in 0..MaxTimeouts
         /\ alive' \in BOOLEAN /\ crossed' \in BOOLEAN /\ agreed' \subseteq Writes
         /\ Sends(t) \/ Retries(t) \/ \E y \in LeadRecords : Moves(t, y)
<1>0. /\ SystemTypeOK /\ ServerInv /\ LeadInPlace(t) /\ WalkInPlace(t, lead[t])
      /\ lead[t] \in LeadRecords
  BY LeadFacts DEF SystemInv, LeadInPlace
<1>1. /\ issued \in 0..MaxRequests /\ timeouts \in 0..MaxTimeouts
      /\ agreed \subseteq Writes /\ MaxRequests \in Nat /\ MaxTimeouts \in Nat
  BY <1>0, SystemAssumption DEF SystemTypeOK, Writes
<1>2. alive \in BOOLEAN /\ crossed \in BOOLEAN
  BY <1>0 DEF SystemTypeOK
<1>3. ASSUME Disconnect(t) PROVE conn'[t].st = "closed"
  BY <1>0, <1>3, DisconnectFacts
<1>4. ASSUME Answered(t) \/ NoAnswer(t)
      PROVE  Disconnect(t) /\ timeouts' \in 0..MaxTimeouts
  BY <1>1, <1>4 DEF Answered, NoAnswer, CutOff, TimedOut
<1>5. ASSUME NoConnection(t)
      PROVE  UNCHANGED serverVars /\ conn'[t].st = "closed" /\ UNCHANGED timeouts /\ ~up[Target(t)]
  BY <1>5 DEF NoConnection, serverVars
<1>6. CASE ClientRequest(t)
  <2>1. PICK r \in PutRequests \cup DelRequests \cup GetRequests :
          /\ r.type \in Kinds[t]
          /\ crossed' = (crossed \/ (r.type # "GETREQ" /\ \E u \in Conns : Writing(u)))
          /\ lead' = [lead EXCEPT ![t] =
                        [pc |-> IF r.type = "GETREQ" THEN "get" ELSE "phase1",
                         req |-> r, i |-> 1, abort |-> FALSE, votes |-> 0, res |-> NULL]]
    BY <1>6 DEF ClientRequest
  <2>. DEFINE y == [pc |-> IF r.type = "GETREQ" THEN "get" ELSE "phase1",
                    req |-> r, i |-> 1, abort |-> FALSE, votes |-> 0, res |-> NULL]
  <2>2. /\ LeaderAt(t, "idle") /\ issued < MaxRequests /\ issued' = issued + 1
        /\ UNCHANGED <<serverVars, alive, timeouts, agreed>>
    BY <1>6 DEF ClientRequest
  <2>3. conn[t].st = "closed" /\ conn' = conn
    BY <1>0, <2>2 DEF LeadInPlace, Working, LeaderAt, serverVars
  <2>4. Redundancy \in Nat /\ 1 \in 1..Redundancy /\ 1 \in 0..Redundancy /\ 0 \in 0..Redundancy
    BY SystemAssumption
  <2>5. r \in Requests /\ (r.type = "GETREQ" => r \in GetRequests) /\ (r.type # "GETREQ" => r \in Writes)
    BY RequestFacts DEF Requests, PutRequests, DelRequests, GetRequests, Writes, Request
  <2>6. /\ y \in LeadRecords /\ y.pc = (IF r.type = "GETREQ" THEN "get" ELSE "phase1")
        /\ y.req = r /\ y.i = 1 /\ ~y.abort /\ y.votes = 0
    BY <2>4, <2>5 DEF LeadRecords
  <2>. HIDE DEF y
  <2>7. WalkInPlace(t, y)
    BY <2>1, <2>4, <2>5, <2>6 DEF WalkInPlace
  <2>8. Asks(t, y)
    BY <2>1, <2>2, <2>6 DEF Asks, LeaderAt
  <2>9. lead' = [lead EXCEPT ![t] = y]
    BY <2>1 DEF y
  <2>10. Moves(t, y)
    BY <2>2, <2>3, <2>7, <2>8, <2>9 DEF Moves
  <2>11. issued' \in 0..MaxRequests /\ timeouts' = timeouts /\ agreed' = agreed
    BY <1>1, <2>2
  <2>12. alive' \in BOOLEAN /\ crossed' \in BOOLEAN
    BY <1>2, <2>1, <2>2
  <2>. QED
    BY <1>1, <2>6, <2>10, <2>11, <2>12
<1>7. CASE Send(t)
  <2>1. Sends(t)
    BY <1>7 DEF Send, Sends, Sent, Decision, LeaderAt, Working, leader
  <2>2. UNCHANGED <<issued, timeouts, crossed, agreed, alive>>
    BY <1>7 DEF Send, leader
  <2>. QED
    BY <1>1, <1>2, <2>1, <2>2
<1>8. CASE Phase1(t)
  <2>1. lead[t].pc = "phase1" /\ UNCHANGED <<alive, issued, crossed>>
    BY <1>8 DEF Phase1, LeaderAt
  <2>2. PICK vote \in BOOLEAN :
          /\ Phase1Next(t, vote) /\ timeouts' \in 0..MaxTimeouts
          /\ Disconnect(t) \/ UNCHANGED serverVars
          /\ conn'[t].st = "closed"
          /\ vote => conn[t].st = "answered" /\ conn[t].res = Vote
    <3>1. CASE Answered(t) /\ Phase1Next(t, conn[t].res = Vote)
      <4>1. conn[t].st = "answered"
        BY <3>1 DEF Answered
      <4>2. (conn[t].res = Vote) \in BOOLEAN
        OBVIOUS
      <4>. QED
        BY <1>3, <1>4, <3>1, <4>1, <4>2
    <3>2. CASE NoAnswer(t) /\ Phase1Next(t, FALSE)
      BY <1>3, <1>4, <3>2
    <3>3. CASE NoConnection(t) /\ Phase1Next(t, FALSE)
      BY <1>1, <1>5, <3>3
    <3>. QED
      BY <1>8, <3>1, <3>2, <3>3 DEF Phase1
  <2>3. PICK y \in LeadRecords :
           /\ lead' = [lead EXCEPT ![t] = y] /\ WalkInPlace(t, y)
           /\ y.req = lead[t].req /\ (y.abort <=> lead[t].abort \/ ~vote)
           /\ lead[t].i # Redundancy => y.pc = "phase1" /\ y.i = lead[t].i + 1
           /\ lead[t].i = Redundancy => /\ y.pc = "phase2" /\ y.i = 1
                                        /\ ~y.abort => lead[t].req \in agreed'
           /\ agreed \subseteq agreed' /\ agreed' \subseteq Writes
    BY <1>0, <2>1, <2>2, Phase1Moves
  <2>4. Counts(t, y)
    BY <2>1, <2>2, <2>3 DEF Counts
  <2>5. Moves(t, y)
    BY <2>1, <2>2, <2>3, <2>4 DEF Moves
  <2>. QED
    BY <1>1, <1>2, <2>1, <2>2, <2>3, <2>5
<1>9. CASE Phase2(t)
  <2>1. lead[t].pc = "phase2" /\ UNCHANGED <<alive, issued, crossed, agreed>>
    BY <1>9 DEF Phase2, LeaderAt
  <2>2. Disconnect(t) /\ timeouts' \in 0..MaxTimeouts /\ conn'[t].st = "closed"
    BY <1>3, <1>4, <1>9 DEF Phase2
  <2>3. CASE UNCHANGED lead
    BY <1>1, <1>2, <2>1, <2>2, <2>3 DEF Retries
  <2>4. CASE Phase2Next(t) /\ conn[t].st = "answered"
    <3>1. PICK y \in LeadRecords :
           /\ lead' = [lead EXCEPT ![t] = y] /\ WalkInPlace(t, y)
           /\ y.req = lead[t].req /\ y.abort = lead[t].abort
           /\ lead[t].i # Redundancy => y.pc = "phase2" /\ y.i = lead[t].i + 1
           /\ lead[t].i = Redundancy =>
                y.pc = "done" /\ y.res = IF lead[t].abort THEN "ERROR" ELSE "SUCCESS"
      BY <1>0, <2>1, <2>4, Phase2Moves
    <3>2. Acks(t, y)
      BY <2>1, <2>4, <3>1 DEF Acks
    <3>3. Moves(t, y)
      BY <2>1, <2>2, <3>1, <3>2 DEF Moves
    <3>. QED
      BY <1>1, <1>2, <2>1, <2>2, <3>3
  <2>. QED
    BY <1>9, <2>3, <2>4 DEF Phase2, Answered
<1>10. CASE Get(t)
  <2>1. lead[t].pc = "get" /\ UNCHANGED <<issued, crossed, agreed>> /\ alive' \in BOOLEAN
    BY <1>2, <1>10 DEF Get, LeaderAt
  <2>2. CASE NoAnswer(t) /\ UNCHANGED lead
    BY <1>1, <1>2, <1>4, <2>1, <2>2 DEF Retries
  <2>3. ASSUME \/ Answered(t) /\ GetAnswered(t)
               \/ NoConnection(t) /\ GetNext(t)
        PROVE  (\E y \in LeadRecords : Moves(t, y)) /\ timeouts' \in 0..MaxTimeouts
    <3>1. /\ timeouts' \in 0..MaxTimeouts /\ conn'[t].st = "closed"
          /\ Disconnect(t) \/ UNCHANGED serverVars
      BY <1>1, <1>3, <1>4, <1>5, <2>3
    <3>2. /\ GetNext(t) \/ (conn[t].res \in Responses /\ GetAnswered(t))
          /\ conn[t].st = "answered" \/ ~up[Target(t)]
      <4>1. CASE Answered(t) /\ GetAnswered(t)
        BY <1>0, <4>1 DEF Answered, ServerInv, ConnsInPlace
      <4>2. CASE NoConnection(t) /\ GetNext(t)
        BY <1>5, <4>2
      <4>. QED
        BY <2>3, <4>1, <4>2
    <3>3. PICK y \in LeadRecords :
           /\ lead' = [lead EXCEPT ![t] = y] /\ WalkInPlace(t, y)
           /\ y.req = lead[t].req
           /\ \/ /\ y.pc = "done" /\ conn[t].res.type = "GETRESP" /\ y.res = conn[t].res.body
                 /\ GetAnswered(t)
              \/ y.pc = "done" /\ lead[t].i = Redundancy /\ y.res = NULL /\ GetNext(t)
              \/ y.pc = "get" /\ lead[t].i # Redundancy /\ y.i = lead[t].i + 1 /\ GetNext(t)
      BY <1>0, <2>1, <3>2, GetMoves
    <3>4. Reads(t, y)
      <4>1. CASE Answered(t) /\ GetAnswered(t)
        <5>1. conn[t].st = "answered"
          BY <4>1 DEF Answered
        <5>2. CASE conn[t].res.type = "GETRESP"
          <6>1. lead' = [lead EXCEPT ![t].pc = "done", ![t].res = conn[t].res.body]
            BY <4>1, <5>2 DEF GetAnswered
          <6>2. y.pc = "done" /\ y.res = conn[t].res.body
            BY <1>0, <3>3, <6>1 DEF SystemTypeOK, LeadRecords
          <6>. QED
            BY <2>1, <3>3, <5>1, <5>2, <6>2 DEF Reads
        <5>3. CASE conn[t].res.type # "GETRESP"
          BY <2>1, <3>3, <5>1, <5>3 DEF Reads
        <5>. QED
          BY <5>2, <5>3
      <4>2. CASE NoConnection(t) /\ GetNext(t)
        <5>1. ~up[Target(t)]
          BY <1>5, <4>2
        <5>2. lead[t].i = Redundancy => lead' = [lead EXCEPT ![t].pc = "done", ![t].res = NULL]
          BY <4>2 DEF GetNext
        <5>3. lead[t].i # Redundancy => lead' = [lead EXCEPT ![t].i = @ + 1]
          BY <4>2 DEF GetNext
        <5>4. lead'[t] = y
          BY <1>0, <3>3 DEF SystemTypeOK
        <5>5. lead[t].i = Redundancy => y.pc = "done" /\ y.res = NULL
          BY <1>0, <5>2, <5>4 DEF SystemTypeOK, LeadRecords
        <5>6. lead[t].i # Redundancy => y.pc = "get" /\ y.i = lead[t].i + 1
          BY <1>0, <2>1, <5>3, <5>4 DEF SystemTypeOK, LeadRecords
        <5>. QED
          BY <2>1, <3>3, <5>1, <5>5, <5>6 DEF Reads
      <4>. QED
        BY <2>3, <4>1, <4>2
    <3>5. Moves(t, y)
      BY <2>1, <3>1, <3>3, <3>4 DEF Moves
    <3>. QED
      BY <3>1, <3>5
  <2>. QED
    BY <1>1, <1>2, <1>10, <2>1, <2>2, <2>3 DEF Get
<1>11. CASE Done(t)
  <2>1. /\ lead[t].pc = "done" /\ lead' = [lead EXCEPT ![t] = LeaderIdle]
        /\ UNCHANGED <<serverVars, alive, issued, timeouts, crossed, agreed>>
    BY <1>11 DEF Done, LeaderAt
  <2>2. LeaderIdle \in LeadRecords /\ LeaderIdle.pc = "idle"
    BY SystemAssumption DEF LeaderIdle, LeadRecords
  <2>3. WalkInPlace(t, LeaderIdle) /\ Ends(t, LeaderIdle)
    BY <2>1, <2>2 DEF WalkInPlace, Ends
  <2>4. conn[t].st = "closed" /\ conn' = conn
    BY <1>0, <2>1 DEF LeadInPlace, Working, serverVars
  <2>5. Moves(t, LeaderIdle)
    BY <2>1, <2>3, <2>4 DEF Moves
  <2>. QED
    BY <1>1, <1>2, <2>1, <2>2, <2>5
<1>. QED
  BY <1>6, <1>7, <1>8, <1>9, <1>10, <1>11 DEF ThreadStep

\* A thread whose connection is closed may move: no message waits for it.
LEMMA ThreadMoves ==
  ASSUME SystemInv, ServerInv', NEW t \in Conns, Disconnect(t) \/ UNCHANGED serverVars,
         NEW y \in LeadRecords, lead' = [lead EXCEPT ![t] = y],
         WalkInPlace(t, y), conn'[t].st = "closed"
  PROVE  (\A u \in Conns : LeadInPlace(u)') /\ MessagesInPlace'
<1>0. ServerInv /\ lead \in [Conns -> LeadRecords] /\ NULL \notin Conns
  BY NullFacts DEF SystemInv, SystemTypeOK, LeadRecords
<1>1. lead'[t] = y /\ \A u \in Conns : u # t => lead'[u] = lead[u] /\ conn'[u] = conn[u]
  BY <1>0, EndOfWait
<1>2. ASSUME NEW u \in Conns PROVE LeadInPlace(u)'
  <2>1. CASE u = t
    BY <1>1, <2>1 DEF LeadInPlace
  <2>2. CASE u # t
    BY <1>1, <2>2 DEF SystemInv, LeadInPlace, Target
  <2>. QED
    BY <2>1, <2>2
<1>3. ASSUME NEW g \in Followers, NEW n \in DOMAIN wq'[g], wq'[g][n].from # NULL
      PROVE  wq'[g][n].req = Sent(lead'[wq'[g][n].from])
  <2>1. wq'[g] \in Seq(JobRecords)
    BY DEF ServerInv, TypeOK, JobRecords
  <2>2. wq'[g][n].from \in Conns
    <3>1. wq'[g][n] \in JobRecords
      BY <2>1
    <3>. QED
      BY <1>3, <3>1 DEF JobRecords
  <2>3. conn'[wq'[g][n].from].st = "open"
    BY <1>3 DEF ServerInv, ConnsInPlace
  <2>4. n \in DOMAIN wq[g] /\ wq'[g][n].req = wq[g][n].req /\ wq'[g][n].from = wq[g][n].from
    BY <1>0, <1>3, EndOfWait
  <2>5. wq[g][n].req = Sent(lead[wq[g][n].from])
    BY <1>3, <2>4 DEF SystemInv, MessagesInPlace
  <2>6. wq[g][n].from # t
    BY <2>3, <2>4
  <2>. QED
    BY <1>1, <2>2, <2>4, <2>5, <2>6
<1>4. ASSUME NEW g \in Followers, NEW w \in Workers, work'[g][w].from # NULL
      PROVE  work'[g][w].req = Sent(lead'[work'[g][w].from])
  <2>1. work'[g][w].from \in Conns
    BY <1>4 DEF ServerInv, TypeOK
  <2>2. conn'[work'[g][w].from].st = "open"
    BY <1>4 DEF ServerInv, ConnsInPlace
  <2>3. work'[g][w].req = work[g][w].req /\ work'[g][w].from = work[g][w].from
    BY <1>0, <1>4, EndOfWait
  <2>4. work[g][w].req = Sent(lead[work[g][w].from])
    BY <1>4, <2>3 DEF SystemInv, MessagesInPlace
  <2>5. work[g][w].from # t
    BY <2>2, <2>3
  <2>. QED
    BY <1>1, <2>1, <2>3, <2>4, <2>5
<1>. QED
  BY <1>2, <1>3, <1>4 DEF MessagesInPlace

\* A message that is sent is the one its thread waits for.
LEMMA SendKeepsWalks ==
  ASSUME SystemInv, NEW t \in Conns, Sends(t)
  PROVE  (\A u \in Conns : LeadInPlace(u)') /\ MessagesInPlace'
<1>0. /\ ServerInv /\ lead' = lead /\ lead[t].pc \in Working
      /\ Target(t) \in Followers /\ Sent(lead[t]) \in Requests
      /\ Connect(t, Target(t), Sent(lead[t]))
  BY LeadFacts DEF SystemInv, LeadInPlace, Sends
<1>1. ASSUME NEW u \in Conns PROVE LeadInPlace(u)'
  <2>1. WalkInPlace(u, lead[u]) /\ Target(u)' = Target(u)
    BY <1>0 DEF SystemInv, LeadInPlace, Target
  <2>2. CASE u = t
    BY <1>0, <2>1, <2>2, ConnectFacts DEF LeadInPlace
  <2>3. CASE u # t
    BY <1>0, <2>1, <2>3, ConnectFacts DEF LeadInPlace, SystemInv
  <2>. QED
    BY <2>2, <2>3
<1>2. ASSUME NEW g \in Followers, NEW n \in DOMAIN wq'[g], wq'[g][n].from # NULL
      PROVE  wq'[g][n].req = Sent(lead[wq'[g][n].from])
  <2>1. \/ n \in DOMAIN wq[g] /\ wq'[g][n] = wq[g][n]
        \/ wq'[g][n].from = t /\ wq'[g][n].req = Sent(lead[t])
    BY <1>0, ConnectFacts
  <2>. QED
    BY <1>2, <2>1 DEF SystemInv, MessagesInPlace
<1>3. \A g \in Followers, w \in Workers : work'[g][w].from # NULL =>
        work'[g][w].req = Sent(lead[work'[g][w].from])
  <2>1. work' = work
    BY <1>0, ConnectFacts
  <2>. QED
    BY <2>1 DEF SystemInv, MessagesInPlace
<1>. QED
  BY <1>0, <1>1, <1>2, <1>3 DEF MessagesInPlace

\* A thread that gives up, to try again.
LEMMA RetryKeepsWalks ==
  ASSUME SystemInv, NEW t \in Conns, Retries(t)
  PROVE  (\A u \in Conns : LeadInPlace(u)') /\ MessagesInPlace'
<1>0. ServerInv /\ lead' = lead /\ Disconnect(t) /\ conn'[t].st = "closed"
  BY DisconnectFacts DEF SystemInv, Retries
<1>1. ASSUME NEW u \in Conns PROVE LeadInPlace(u)'
  <2>1. WalkInPlace(u, lead[u]) /\ Target(u)' = Target(u)
    BY <1>0 DEF SystemInv, LeadInPlace, Target
  <2>2. CASE u = t
    BY <1>0, <2>1, <2>2 DEF LeadInPlace
  <2>3. CASE u # t
    BY <1>0, <2>1, <2>3, DisconnectFacts DEF LeadInPlace, SystemInv
  <2>. QED
    BY <2>2, <2>3
<1>2. \A g \in Followers : \A n \in DOMAIN wq'[g] : wq'[g][n].from # NULL =>
        wq'[g][n].req = Sent(lead[wq'[g][n].from])
  BY <1>0, EndOfWait DEF SystemInv, MessagesInPlace
<1>3. \A g \in Followers, w \in Workers : work'[g][w].from # NULL =>
        work'[g][w].req = Sent(lead[work'[g][w].from])
  BY <1>0, EndOfWait DEF SystemInv, MessagesInPlace
<1>. QED
  BY <1>0, <1>1, <1>2, <1>3 DEF MessagesInPlace

\* A follower takes and answers what was sent.
LEMMA FollowerKeepsWalks ==
  ASSUME SystemInv, NEW f \in Followers, FollowerStep(f), lead' = lead
  PROVE  (\A u \in Conns : LeadInPlace(u)') /\ MessagesInPlace'
<1>0. ServerInv /\ TypeOK
  BY DEF SystemInv, ServerInv
<1>1. ASSUME NEW u \in Conns PROVE LeadInPlace(u)'
  <2>1. WalkInPlace(u, lead[u]) /\ Target(u)' = Target(u)
    BY DEF SystemInv, LeadInPlace, Target
  <2>2. conn'[u].to = conn[u].to /\ (conn'[u].st # "closed" => conn[u].st # "closed")
    BY <1>0, ConnMoves
  <2>. QED
    BY <2>1, <2>2 DEF LeadInPlace, SystemInv
<1>2. ASSUME NEW g \in Followers, NEW n \in DOMAIN wq'[g], wq'[g][n].from # NULL
      PROVE  wq'[g][n].req = Sent(lead[wq'[g][n].from])
  <2>1. \E m \in DOMAIN wq[g] : wq'[g][n] = wq[g][m]
    <3>1. CASE g = f
      BY <1>0, <3>1, QueueMoves
    <3>2. CASE g # f
      BY <1>0, <3>2, StepElsewhere
    <3>. QED
      BY <3>1, <3>2
  <2>. QED
    BY <1>2, <2>1 DEF SystemInv, MessagesInPlace
<1>3. ASSUME NEW g \in Followers, NEW w \in Workers, work'[g][w].from # NULL
      PROVE  work'[g][w].req = Sent(lead[work'[g][w].from])
  <2>1. CASE g = f
    BY <1>0, <1>3, <2>1, WorkMoves DEF SystemInv, MessagesInPlace
  <2>2. CASE g # f
    BY <1>0, <1>3, <2>2, StepElsewhere DEF SystemInv, MessagesInPlace
  <2>. QED
    BY <2>1, <2>2
<1>. QED
  BY <1>1, <1>2, <1>3 DEF MessagesInPlace

\* A GET has only ever seen what a key can have.
LEMMA SeenType ==
  ASSUME SystemTypeOK, TypeOK', SeenNext, \A t \in Conns : WalkInPlace(t, lead[t])'
  PROVE  seen' \in [Conns -> SUBSET (Vals \cup {NULL, Wild})]
<1>1. (TypeOK => \A k \in Keys : view[k] \in Vals \cup {NULL, Wild})'
  BY ViewType, PTL
<1>2. ASSUME NEW t \in Conns, lead'[t].pc \in {"get", "done"}, lead'[t].req.type = "GETREQ"
      PROVE  lead'[t].req.key \in Keys
  <2>1. lead'[t].req \in Writes \cup GetRequests
    BY <1>2 DEF WalkInPlace
  <2>. QED
    BY <2>1 DEF Writes, PutRequests, DelRequests, GetRequests, Request
<1>. QED
  BY <1>1, <1>2 DEF SeenNext, SystemTypeOK

\* Leader threads start idle, followers without connections.
LEMMA SystemInitInv == Init => SystemInv
<1>. SUFFICES ASSUME Init PROVE SystemInv
  OBVIOUS
<1>1. ServerInv /\ SingleInv /\ TypeOK
  BY ServerInitInv, SingleInitInv DEF Init, ServerInv
<1>2. /\ lead = [t \in Conns |-> LeaderIdle] /\ issued = 0 /\ timeouts = 0 /\ agreed = {}
      /\ crossed = FALSE /\ alive = TRUE /\ seen = [t \in Conns |-> {}] /\ conn = [t \in Conns |-> Closed]
      /\ wq = [f \in Followers |-> << >>]
      /\ work = [f \in Followers |-> [w \in Workers |-> Idle]]
  BY DEF Init, ServerInit
<1>3. LeaderIdle \in LeadRecords /\ LeaderIdle.pc = "idle"
  BY SystemAssumption DEF LeadRecords, LeaderIdle
<1>4. SystemTypeOK
  <2>1. lead \in [Conns -> LeadRecords] /\ 0 \in 0..MaxRequests /\ 0 \in 0..MaxTimeouts
    BY <1>2, <1>3, SystemAssumption
  <2>. QED
    BY <1>1, <1>2, <2>1 DEF SystemTypeOK, LeadRecords
<1>5. \A t \in Conns : LeadInPlace(t)
  BY <1>2, <1>3 DEF LeadInPlace, WalkInPlace, Closed
<1>6. MessagesInPlace
  BY <1>2 DEF MessagesInPlace, Idle
<1>. QED
  BY <1>1, <1>4, <1>5, <1>6 DEF SystemInv

\* Every step of the system keeps the invariant.
LEMMA SystemNextInv ==
  ASSUME SystemInv, SystemNext
  PROVE  SystemInv'
<1>0. ServerInv /\ SingleInv /\ SystemTypeOK /\ SeenNext
  BY DEF SystemInv, SystemNext
<1>1. /\ ServerInv' /\ SingleInv' /\ (\A t \in Conns : LeadInPlace(t)') /\ MessagesInPlace'
      /\ lead' \in [Conns -> LeadRecords]
      /\ issued' \in 0..MaxRequests /\ timeouts' \in 0..MaxTimeouts
      /\ alive' \in BOOLEAN /\ crossed' \in BOOLEAN /\ agreed' \subseteq Writes
  <2>0. lead \in [Conns -> LeadRecords]
    BY <1>0 DEF SystemTypeOK, LeadRecords
  <2>1. ASSUME NEW t \in Conns, Disconnect(t) \/ UNCHANGED serverVars
        PROVE  ServerInv' /\ SingleInv'
    BY <1>0, <2>1, DisconnectKeepsInv, ServerStutters, SingleNextInv DEF Next, ClientStep
  <2>2. ASSUME NEW t \in Conns, ClientRequest(t) \/ ThreadStep(t)
        PROVE  /\ ServerInv' /\ SingleInv' /\ (\A u \in Conns : LeadInPlace(u)') /\ MessagesInPlace'
               /\ lead' \in [Conns -> LeadRecords]
    <3>1. CASE Sends(t)
      <4>1. /\ Target(t) \in Followers /\ Sent(lead[t]) \in Requests
            /\ Connect(t, Target(t), Sent(lead[t]))
        BY <3>1, LeadFacts DEF SystemInv, LeadInPlace, Sends
      <4>2. ServerInv' /\ SingleInv'
        BY <1>0, <4>1, ConnectKeepsInv, ClientKeepsSingle
      <4>3. (\A u \in Conns : LeadInPlace(u)') /\ MessagesInPlace'
        BY <3>1, SendKeepsWalks
      <4>. QED
        BY <2>0, <3>1, <4>2, <4>3 DEF Sends
    <3>2. CASE Retries(t)
      <4>1. (\A u \in Conns : LeadInPlace(u)') /\ MessagesInPlace'
        BY <3>2, RetryKeepsWalks
      <4>. QED
        BY <2>0, <2>1, <3>2, <4>1 DEF Retries
    <3>3. ASSUME NEW y \in LeadRecords, Moves(t, y)
          PROVE  /\ ServerInv' /\ SingleInv' /\ (\A u \in Conns : LeadInPlace(u)')
                 /\ MessagesInPlace' /\ lead' \in [Conns -> LeadRecords]
      <4>1. /\ Disconnect(t) \/ UNCHANGED serverVars
            /\ conn'[t].st = "closed"
            /\ lead' = [lead EXCEPT ![t] = y] /\ WalkInPlace(t, y)
        BY <3>3 DEF Moves
      <4>2. ServerInv' /\ SingleInv'
        BY <2>1, <4>1
      <4>3. (\A u \in Conns : LeadInPlace(u)') /\ MessagesInPlace'
        BY <4>1, <4>2, ThreadMoves
      <4>. QED
        BY <2>0, <4>1, <4>2, <4>3
    <3>. QED
      BY <2>2, <3>1, <3>2, <3>3, ThreadStepShape
  <2>3. ASSUME NEW f \in Followers, FollowerStep(f), UNCHANGED leader
        PROVE  /\ ServerInv' /\ SingleInv' /\ (\A t \in Conns : LeadInPlace(t)') /\ MessagesInPlace'
               /\ UNCHANGED <<alive, lead, issued, timeouts, crossed, agreed>>
    <3>1. UNCHANGED <<alive, lead, issued, timeouts, crossed, agreed>>
      BY <2>3 DEF leader
    <3>2. ServerInv'
      BY <1>0, <2>3, FollowerKeepsInv
    <3>3. SingleInv'
      BY <1>0, <2>3, <3>2, FollowerKeepsSingle
    <3>. QED
      BY <2>3, <3>1, <3>2, <3>3, FollowerKeepsWalks
  <2>4. CASE \E t \in Conns : ClientRequest(t) \/ ThreadStep(t)
    BY <2>2, <2>4, ThreadStepShape
  <2>5. CASE \E f \in Followers : FollowerStep(f) /\ UNCHANGED leader
    <3>1. /\ alive \in BOOLEAN /\ crossed \in BOOLEAN /\ issued \in 0..MaxRequests /\ timeouts \in 0..MaxTimeouts
          /\ agreed \subseteq Writes
      BY <1>0 DEF SystemTypeOK, Writes
    <3>. QED
      BY <2>0, <2>3, <2>5, <3>1
  <2>. QED
    BY <2>4, <2>5 DEF SystemNext
<1>2. SystemTypeOK'
  <2>1. TypeOK' /\ \A t \in Conns : WalkInPlace(t, lead[t])'
    BY <1>1 DEF ServerInv, LeadInPlace
  <2>2. seen' \in [Conns -> SUBSET (Vals \cup {NULL, Wild})]
    BY <1>0, <2>1, SeenType
  <2>. QED
    BY <1>1, <2>1, <2>2 DEF SystemTypeOK, LeadRecords, Writes
<1>. QED
  BY <1>1, <1>2 DEF SystemInv

\* So does a step that changes nothing.
LEMMA SystemStutters ==
  ASSUME SystemInv, UNCHANGED vars
  PROVE  SystemInv'
<1>0. UNCHANGED <<serverVars, alive, lead, issued, timeouts, crossed, agreed, seen>> /\ ServerInv /\ SingleInv
  BY DEF vars, leader, SystemInv
<1>1. ServerInv' /\ SingleInv' /\ TypeOK'
  BY <1>0, ServerStutters, SingleNextInv DEF ServerInv
<1>2. SystemTypeOK'
  BY <1>0, <1>1 DEF SystemTypeOK, SystemInv
<1>3. (\A t \in Conns : LeadInPlace(t)') /\ MessagesInPlace'
  BY <1>0 DEF SystemInv, LeadInPlace, MessagesInPlace, serverVars, Target
<1>. QED
  BY <1>1, <1>2, <1>3 DEF SystemInv

\* The inductive invariant of the leader's threads and the followers they talk to.
THEOREM SystemInvariant == SystemSpec => []SystemInv
<1>1. SystemInv /\ [SystemNext]_vars => SystemInv'
  BY SystemNextInv, SystemStutters
<1>. QED
  BY <1>1, SystemInitInv, PTL DEF SystemSpec

\* The types of the system: no walk over the replicas goes past the last one,
\* whatever is answered, lost or late (tpcleader.c:189-262).
THEOREM SystemTypes == SystemSpec => []SystemTypeOK
<1>1. SystemInv => SystemTypeOK
  BY DEF SystemInv
<1>. QED
  BY <1>1, SystemInvariant, PTL

\* In the system too, a COMMIT that finds an operation pending finds its operands,
\* until two messages of transactions are handled at once (kvserver.c:138-181).
THEOREM OperandsStayInPlace == SystemSpec => []CommitHasOperands
<1>1. SystemInv => CommitHasOperands
  BY OperandsInPlace DEF SystemInv, ServerInv
<1>. QED
  BY <1>1, SystemInvariant, PTL

-----------------------------------------------------------------------------
(* Transactions, as long as the system is orderly *)

\* The messages of transactions that f has still to deal with.
InFlight(f) ==
  {r \in LogEntries : \/ \E n \in DOMAIN wq[f] : wq[f][n].req = r
                      \/ \E w \in Workers : work[f][w].req = r}

\* f has voted for r and will find it pending, even after a crash.
Prepared(f, r) ==
  /\ InFlight(f) = {}
  /\ up[f] => pending[f] = PendingOf(r)
  /\ "unlogged" \notin strayed[f] => LastEntry(f) = r

Commit == Request("COMMIT", NULL, NULL)
Abort == Request("ABORT", NULL, NULL)

Clearing(f) == \E w \in Workers : work[f][w].pc \in {"clrval", "clrmsg"}

\* f is being told to commit r: it has r pending, or has done with it.
Deciding(f, r) ==
  /\ InFlight(f) \subseteq {Commit}
  /\ up[f] => pending[f] = PendingOf(r) \/ pending[f].msg = "EMPTY" \/ Clearing(f)
  /\ "unlogged" \notin strayed[f] => LastEntry(f) \in {r, Commit, Torn}

\* Behind a message that its sender waits for there is no other of a transaction:
\* its answer means that the follower has dealt with all of them.
AwaitedIsLast(f) ==
  /\ \A n \in DOMAIN wq[f] : wq[f][n].from # NULL /\ wq[f][n].req \in LogEntries =>
       \A m \in DOMAIN wq[f] : m > n => wq[f][m].req \notin LogEntries
  /\ \A w \in Workers : work[f][w].from # NULL /\ work[f][w].req \in LogEntries =>
       \A m \in DOMAIN wq[f] : wq[f][m].req \notin LogEntries

\* What the j-th replica f has been through in phase 1 and in phase 2, x being
\* the record of the writing thread and c its connection.
Phase1InPlace(x, c, j, f) ==
  /\ j > x.i => InFlight(f) = {}
  /\ j = x.i => InFlight(f) \subseteq (IF c.st = "open" THEN {x.req} ELSE {})
  /\ j = x.i /\ c.st = "answered" /\ c.res = Vote => Prepared(f, x.req)
  /\ j < x.i => IF x.abort THEN InFlight(f) \subseteq {x.req} ELSE Prepared(f, x.req)

Phase2InPlace(x, c, j, f) ==
  /\ j < x.i \/ (j = x.i /\ c.st = "answered") => InFlight(f) = {}
  /\ x.abort => InFlight(f) \subseteq {x.req, Abort}
  /\ ~x.abort /\ j = x.i => Deciding(f, x.req)
  /\ ~x.abort /\ j > x.i => Prepared(f, x.req)

InTransaction(t) == lead[t].pc \in {"phase1", "phase2"}

\* Each replica of the transaction of t is where the walk of t says.
ReplicasInPlace(t) ==
  \A j \in 1..Redundancy :
    /\ lead[t].pc = "phase1" =>
         Phase1InPlace(lead[t], conn[t], j, Replica(lead[t].req.key, j))
    /\ lead[t].pc = "phase2" =>
         Phase2InPlace(lead[t], conn[t], j, Replica(lead[t].req.key, j))

TransactionInv ==
  /\ \A t, u \in Conns : Writing(t) /\ Writing(u) => t = u
  /\ \A f \in Followers : AwaitedIsLast(f)
  /\ \A t \in Conns : InTransaction(t) =>
       /\ ReplicasInPlace(t)
       /\ lead[t].pc = "phase2" /\ ~lead[t].abort => lead[t].req \in agreed
  /\ \A f \in Followers :
       (\A t \in Conns : InTransaction(t) => f \notin Replicas(lead[t].req.key)) =>
         InFlight(f) = {}
  /\ crashes = 0 => \A f \in Followers : up[f]

WriterInv == Orderly => TransactionInv

\* Order is not restored: a step that ends orderly began so.
LEMMA OrderlyBack ==
  ASSUME SystemInv, SystemNext, Orderly'
  PROVE  /\ Orderly
         /\ \A f \in Followers : strayed[f] \subseteq strayed'[f]
<1>0. TypeOK /\ crossed \in BOOLEAN
  BY DEF SystemInv, SystemTypeOK
<1>1. ASSUME NEW t \in Conns, ClientRequest(t) \/ ThreadStep(t)
      PROVE  strayed' = strayed /\ (crossed => crossed')
  <2>1. CASE Sends(t)
    BY <2>1 DEF Sends, Connect, server
  <2>2. CASE Retries(t)
    BY <2>2 DEF Retries, Disconnect, server
  <2>3. ASSUME NEW y \in LeadRecords, Moves(t, y)
        PROVE  strayed' = strayed /\ (crossed => crossed')
    <3>1. UNCHANGED server
      BY <2>3 DEF Moves, Disconnect, serverVars
    <3>2. crossed => crossed'
      BY <2>3 DEF Moves, Asks
    <3>. QED
      BY <3>1, <3>2 DEF server
  <2>. QED
    BY <1>1, <2>1, <2>2, <2>3, ThreadStepShape
<1>2. ASSUME NEW f \in Followers, FollowerStep(f), UNCHANGED leader
      PROVE  crossed' = crossed /\ \A g \in Followers : strayed[g] \subseteq strayed'[g]
  <2>1. \A g \in Followers : "forgot" \notin strayed'[g]
    BY DEF Orderly
  <2>. QED
    BY <1>0, <1>2, <2>1, StrayedFacts DEF leader
<1>3. (crossed => crossed') /\ \A f \in Followers : strayed[f] \subseteq strayed'[f]
  BY <1>1, <1>2 DEF SystemNext
<1>. QED
  BY <1>3 DEF Orderly

-----------------------------------------------------------------------------
(* Messages in flight *)

\* Followers make no messages.
LEMMA StepKeepsInFlight ==
  ASSUME ServerInv, NEW f \in Followers, FollowerStep(f), NEW g \in Followers
  PROVE  InFlight(g)' \subseteq InFlight(g)
<1>. SUFFICES ASSUME NEW r \in LogEntries, r \in InFlight(g)' PROVE r \in InFlight(g)
  BY DEF InFlight
<1>0. TypeOK /\ NULL \notin LogEntries
  BY NullFacts DEF ServerInv
<1>1. CASE g # f
  BY <1>0, <1>1, StepElsewhere DEF InFlight
<1>2. CASE g = f
  <2>1. CASE \E n \in DOMAIN wq'[f] : wq'[f][n].req = r
    BY <1>2, <2>1, QueueMoves DEF InFlight
  <2>2. CASE \E w \in Workers : work'[f][w].req = r
    BY <1>0, <1>2, <2>2, WorkMoves DEF InFlight
  <2>. QED
    BY <1>2, <2>1, <2>2 DEF InFlight
<1>. QED
  BY <1>1, <1>2

\* A client that stops waiting leaves its message in flight.
LEMMA WaitKeepsInFlight ==
  ASSUME ServerInv, NEW c \in Conns, Disconnect(c) \/ UNCHANGED serverVars, NEW g \in Followers
  PROVE  InFlight(g)' = InFlight(g)
BY EndOfWait DEF InFlight

\* Sending adds the one message, where it is sent.
LEMMA SendAddsInFlight ==
  ASSUME ServerInv, NEW c \in Conns, NEW f \in Followers, NEW r \in Requests, Connect(c, f, r),
         NEW g \in Followers
  PROVE  /\ InFlight(g)' \subseteq InFlight(g) \cup {r}
         /\ g # f \/ r \notin LogEntries => InFlight(g)' = InFlight(g)
<1>1. /\ work' = work /\ (g # f => wq'[g] = wq[g])
      /\ \A n \in DOMAIN wq[f] : n \in DOMAIN wq'[f] /\ wq'[f][n] = wq[f][n]
      /\ \A n \in DOMAIN wq'[f] : n \in DOMAIN wq[f] \/ wq'[f][n].req = r
  BY ConnectFacts
<1>2. CASE g # f
  BY <1>1, <1>2 DEF InFlight
<1>3. CASE g = f
  BY <1>1, <1>3 DEF InFlight
<1>. QED
  BY <1>2, <1>3

\* A process that ends forgets what it was sent.
LEMMA DieClearsInFlight ==
  ASSUME ServerInv, NEW f \in Followers, Die(f)
  PROVE  InFlight(f)' = {}
<1>1. wq'[f] = << >> /\ \A w \in Workers : work'[f][w] = Idle
  BY DEF Die, ServerInv, TypeOK
<1>. QED
  BY <1>1, NullFacts DEF InFlight, Idle

\* The answer that the leader waits for is to the last message in flight.
LEMMA ReplyClearsInFlight ==
  ASSUME ServerInv, NEW f \in Followers, Serial(f), AwaitedIsLast(f), NEW w \in Workers, Reply(f, w),
         work[f][w].from # NULL, work[f][w].req \in LogEntries
  PROVE  InFlight(f)' = {}
<1>1. /\ wq' = wq /\ work'[f][w] = Idle
      /\ \A v \in Workers : v # w => work'[f][v] = work[f][v]
  BY DEF Reply, ServerInv, TypeOK
<1>3. \A v \in Workers : v # w => work[f][v].req \notin LogEntries
  BY BusyFacts DEF Serial, Alone
<1>2. \A m \in DOMAIN wq[f] : wq[f][m].req \notin LogEntries
  BY DEF AwaitedIsLast
<1>. QED
  BY <1>1, <1>2, <1>3, NullFacts DEF InFlight, Idle

\* In a follower that has not strayed a worker that is busy is the only one.
LEMMA SerialFacts ==
  ASSUME ServerInv, SingleInv, NEW f \in Followers, "mixed" \notin strayed[f],
         NEW w \in Workers, Busy(f, w)
  PROVE  /\ HandlingInPlace(f, w) /\ Serial(f)
         /\ \A v \in Workers : v # w => /\ work[f][v].pc \in {"idle", "act", "reply"}
                                       /\ work[f][v].req \notin LogEntries
BY BusyFacts DEF SingleInv, Serial, Alone

\* A worker that touches the log, the pending fields or the store is at a message
\* of a transaction.
LEMMA WorkerIsAt ==
  ASSUME ServerInv, NEW f \in Followers, NEW w \in Workers, WorkerStep(f, w)
  PROVE  \/ Take(f, w) \/ ActGet(f, w) \/ Reply(f, w)
         \/ work[f][w].req \in InFlight(f)
<1>0. WorkerInPlace(f, w)
  BY DEF ServerInv, WorkersInPlace
<1>1. ASSUME work[f][w].req \in LogEntries PROVE work[f][w].req \in InFlight(f)
  BY <1>1 DEF InFlight
<1>2. CASE LogOpen(f, w) \/ LogWrite(f, w)
  BY <1>0, <1>1, <1>2 DEF LogOpen, LogWrite, At, WorkerInPlace
<1>3. ASSUME NEW type, Handles(f, w, type), type # "GETREQ" PROVE work[f][w].req \in InFlight(f)
  <2>1. work[f][w].req \in Requests /\ work[f][w].req.type # "GETREQ"
    BY <1>0, <1>3 DEF Handles, At, WorkerInPlace
  <2>. QED
    BY <1>1, <2>1, RequestFacts
<1>4. CASE ActPut(f, w) \/ ActDel(f, w) \/ ActCommit(f, w) \/ ActAbort(f, w)
  BY <1>3, <1>4 DEF ActPut, ActDel, ActCommit, ActAbort
<1>5. CASE SetKey(f, w) \/ SetVal(f, w) \/ Apply(f, w) \/ ApplyFaults(f, w)
  BY <1>0, <1>1, <1>5, NullFacts DEF SetKey, SetVal, Apply, ApplyFaults, At, WorkerInPlace
<1>6. CASE ClrKey(f, w) \/ ClrVal(f, w) \/ ClrMsg(f, w)
  BY <1>0, <1>1, <1>6, NullFacts DEF ClrKey, ClrVal, ClrMsg, At, WorkerInPlace
<1>. QED
  BY <1>2, <1>4, <1>5, <1>6 DEF WorkerStep

\* The steps that are at no message of a transaction leave all of that alone.
LEMMA IdleStep ==
  ASSUME ServerInv, NEW f \in Followers, NEW w \in Workers, Take(f, w) \/ ActGet(f, w) \/ Reply(f, w)
  PROVE  /\ UNCHANGED <<up, pending, log, nextid, store>>
         /\ \A v \in Workers : v # w => work'[f][v] = work[f][v]
         /\ \A v \in Workers : work'[f][v] = work[f][v] \/ work'[f][v].pc \notin {"clrval", "clrmsg"}
         /\ work[f][w].pc \in {"idle", "act", "reply"}
<1>0. TypeOK
  BY DEF ServerInv
<1>1. UNCHANGED <<up, pending, log, nextid, store>>
  BY DEF Take, ActGet, Reply, server
<1>2. work[f][w].pc \in {"idle", "act", "reply"}
  BY DEF Take, ActGet, Reply, Handles, At
<1>3. ASSUME NEW v \in Workers
      PROVE  /\ v # w => work'[f][v] = work[f][v]
             /\ work'[f][v] = work[f][v] \/ work'[f][v].pc \notin {"clrval", "clrmsg"}
  <2>1. CASE Take(f, w)
    BY <1>0, <2>1 DEF Take, TypeOK
  <2>2. CASE ActGet(f, w)
    BY <1>0, <2>2 DEF ActGet, Answer, TypeOK
  <2>3. CASE Reply(f, w)
    BY <1>0, <2>3 DEF Reply, TypeOK, Idle
  <2>. QED
    BY <2>1, <2>2, <2>3
<1>. QED
  BY <1>1, <1>2, <1>3

-----------------------------------------------------------------------------
(* A follower between its vote and its acknowledgement *)

\* The two decisions.
LEMMA CommitFacts ==
  /\ Commit \in Decisions /\ Abort \in Decisions /\ Commit \in Requests /\ Abort \in Requests
  /\ Commit.type = "COMMIT" /\ Abort.type = "ABORT"
  /\ Commit \in LogEntries /\ Abort \in LogEntries /\ Commit \notin Writes /\ Abort \notin Writes
  /\ Commit # Abort
<1>1. Commit \in Decisions /\ Abort \in Decisions /\ Commit.type = "COMMIT" /\ Abort.type = "ABORT"
  BY DEF Commit, Abort, Decisions, Request
<1>2. Commit \in Requests /\ Abort \in Requests /\ Commit \in LogEntries /\ Abort \in LogEntries
  BY <1>1, NullFacts
<1>. QED
  BY <1>1, <1>2, RequestFacts

\* A crash or a restart changes neither the files nor what they hold.
LEMMA SameLastEntry ==
  ASSUME NEW f \in Followers, log'[f] = log[f]
  PROVE  LastEntry(f)' = LastEntry(f)
BY DEF LastEntry

\* What the last entry of the log becomes when the file is opened.
LEMMA LogOpenFacts ==
  ASSUME ServerInv, NEW f \in Followers, NEW w \in Workers, LogOpen(f, w)
  PROVE  LastEntry(f)' \in {LastEntry(f), Torn}
<1>1. log[f] \in Seq(LogEntries \cup {Torn})
  BY DEF ServerInv, TypeOK
<1>2. log'[f] = log[f] \/ log'[f] = Append(log[f], Torn)
  BY DEF LogOpen, ServerInv, TypeOK
<1>3. CASE log'[f] = Append(log[f], Torn)
  <2>1. /\ Append(log[f], Torn) # << >>
        /\ Append(log[f], Torn)[Len(Append(log[f], Torn))] = Torn
    BY <1>1, AppendFacts
  <2>. QED
    BY <1>3, <2>1 DEF LastEntry
<1>. QED
  BY <1>2, <1>3, SameLastEntry

\* A restart finds pending what the last log entry says.
LEMMA RestartFacts ==
  ASSUME ServerInv, NEW f \in Followers, Restart(f)
  PROVE  /\ log' = log /\ store' = store /\ work' = work /\ ~up[f]
         /\ LastEntry(f) # Torn
         /\ LastEntry(f) \in Writes => pending'[f] = PendingOf(LastEntry(f))
         /\ LastEntry(f) \in Decisions => pending'[f].msg = "EMPTY"
         /\ "forgot" \notin strayed'[f] => "unlogged" \notin strayed[f]
<1>0. TypeOK
  BY DEF ServerInv
<1>1. PICK p \in Rebuilt(LastEntry(f)) : pending' = [pending EXCEPT ![f] = p]
  BY DEF Restart
<1>2. pending'[f] = p
  BY <1>0, <1>1 DEF TypeOK
<1>3. "forgot" \notin strayed'[f] => "unlogged" \notin strayed[f]
  BY <1>0 DEF Restart, TypeOK
<1>. QED
  BY <1>0, <1>1, <1>2, <1>3, RebuiltFacts, LastEntryType DEF Restart

\* A crash keeps the files.
LEMMA CrashFacts ==
  ASSUME ServerInv, NEW f \in Followers, Die(f)
  PROVE  /\ log' = log /\ store' = store /\ ~up'[f]
BY DEF Die, ServerInv, TypeOK

\* A follower that voted stays prepared, across crashes too.
LEMMA PreparedStays ==
  ASSUME ServerInv, NEW f \in Followers, FollowerStep(f), NEW r \in Writes, Prepared(f, r),
         "forgot" \notin strayed'[f]
  PROVE  Prepared(f, r)'
<1>0. TypeOK
  BY DEF ServerInv
<1>1. InFlight(f)' = {} /\ ("unlogged" \notin strayed'[f] => "unlogged" \notin strayed[f])
  BY <1>0, StepKeepsInFlight, StrayedFacts DEF Prepared
<1>2. CASE Crash(f)
  BY <1>1, <1>2, CrashFacts, SameLastEntry DEF Crash, Prepared
<1>3. CASE Restart(f)
  <2>1. LastEntry(f) = r
    BY <1>3, RestartFacts DEF Prepared
  <2>. QED
    BY <1>1, <1>3, <2>1, RestartFacts, SameLastEntry DEF Prepared
<1>4. ASSUME NEW w \in Workers, WorkerStep(f, w) PROVE Prepared(f, r)'
  <2>1. Take(f, w) \/ ActGet(f, w) \/ Reply(f, w)
    BY <1>4, WorkerIsAt DEF Prepared
  <2>2. UNCHANGED <<up, pending, log>>
    BY <2>1, IdleStep
  <2>. QED
    BY <1>1, <2>2, SameLastEntry DEF Prepared
<1>. QED
  BY <1>2, <1>3, <1>4 DEF FollowerStep

\* A worker that is about to change the store finds pending what was voted for.
LEMMA ApplyFinds ==
  ASSUME ServerInv, SingleInv, NEW f \in Followers, "mixed" \notin strayed[f], NEW w \in Workers,
         At(f, w, "put") \/ At(f, w, "del"), NEW r, Deciding(f, r)
  PROVE  /\ pending[f] = PendingOf(r)
         /\ At(f, w, "put") => pending[f].msg = "PUTREQ"
         /\ At(f, w, "del") => pending[f].msg = "DELREQ"
<1>0. up[f] /\ work[f][w].pc \in {"put", "del"}
  BY DEF At
<1>1. HandlingInPlace(f, w) /\ \A v \in Workers : v # w => work[f][v].pc \in {"idle", "act", "reply"}
  BY <1>0, SerialFacts, BusyFacts
<1>2. pending[f].msg # "EMPTY"
  BY <1>0, <1>1 DEF HandlingInPlace
<1>3. ~Clearing(f)
  BY <1>0, <1>1 DEF Clearing
<1>. QED
  BY <1>0, <1>1, <1>2, <1>3 DEF Deciding, HandlingInPlace, At

\* A follower that was told the decision goes on with it, and no other message.
LEMMA DecidingStays ==
  ASSUME ServerInv, SingleInv, NEW f \in Followers, FollowerStep(f), NEW r \in Writes,
         Deciding(f, r), strayed'[f] \cap {"mixed", "forgot"} = {}
  PROVE  Deciding(f, r)'
<1>0. TypeOK
  BY DEF ServerInv
<1>1. /\ InFlight(f)' \subseteq {Commit} /\ "mixed" \notin strayed[f]
      /\ "unlogged" \notin strayed'[f] => "unlogged" \notin strayed[f]
  BY <1>0, StepKeepsInFlight, StrayedFacts DEF Deciding
<1>2. CASE Die(f)
  BY <1>1, <1>2, CrashFacts, SameLastEntry DEF Deciding
<1>3. CASE Restart(f)
  <2>1. LastEntry(f) \in {r, Commit, Torn} /\ LastEntry(f) # Torn
    BY <1>3, RestartFacts DEF Deciding
  <2>2. pending'[f] = PendingOf(r) \/ pending'[f].msg = "EMPTY"
    BY <1>3, <2>1, RestartFacts, CommitFacts
  <2>. QED
    BY <1>1, <1>3, <2>1, <2>2, RestartFacts, SameLastEntry DEF Deciding
<1>4. ASSUME NEW w \in Workers, WorkerStep(f, w), ~Die(f) PROVE Deciding(f, r)'
  <2>1. CASE Take(f, w) \/ ActGet(f, w) \/ Reply(f, w)
    <3>1. /\ UNCHANGED <<up, pending, log>> /\ work[f][w].pc \in {"idle", "act", "reply"}
      BY <2>1, IdleStep
    <3>2. Clearing(f) => Clearing(f)'
      BY <2>1, <3>1, IdleStep DEF Clearing
    <3>. QED
      BY <1>1, <3>1, <3>2, SameLastEntry DEF Deciding
  <2>2. CASE work[f][w].req \in InFlight(f)
    <3>0. work[f][w].req = Commit /\ work[f][w].req.type = "COMMIT"
      BY <2>2, CommitFacts DEF Deciding
    <3>1. work[f][w].pc \notin {"clrval", "clrmsg"} => ~Clearing(f)
      BY <1>1, <3>0, BusyFacts, SerialFacts, CommitFacts DEF Clearing
    <3>2. WorkerInPlace(f, w)
      BY DEF ServerInv, WorkersInPlace
    <3>3. ASSUME UNCHANGED <<up, pending>>, work[f][w].pc \notin {"clrval", "clrmsg"},
                 LastEntry(f)' \in {LastEntry(f), Torn, Commit}
          PROVE  Deciding(f, r)'
      BY <1>1, <3>1, <3>3 DEF Deciding
    <3>4. CASE LogOpen(f, w)
      <4>1. UNCHANGED <<up, pending>> /\ work[f][w].pc = "log"
        BY <3>4 DEF LogOpen, At
      <4>. QED
        BY <3>3, <3>4, <4>1, LogOpenFacts
    <3>5. CASE LogWrite(f, w)
      <4>1. UNCHANGED <<up, pending>> /\ work[f][w].pc = "write"
        BY <3>5 DEF LogWrite, At
      <4>. QED
        BY <3>0, <3>3, <3>5, <4>1, LogWriteFacts
    <3>6. CASE ActPut(f, w) \/ ActDel(f, w) \/ ActAbort(f, w)
      BY <3>0, <3>6 DEF ActPut, ActDel, ActAbort, Handles
    <3>7. CASE SetKey(f, w) \/ SetVal(f, w)
      BY <3>0, <3>2, <3>7, CommitFacts DEF SetKey, SetVal, At, WorkerInPlace
    <3>8. CASE ActCommit(f, w) \/ Apply(f, w)
      <4>1. UNCHANGED <<up, pending, log>> /\ work[f][w].pc \in {"act", "put", "del"}
        BY <3>8 DEF ActCommit, Apply, Handles, At, server
      <4>. QED
        BY <3>3, <4>1, SameLastEntry
    <3>9. CASE ApplyFaults(f, w)
      BY <1>4, <3>9 DEF ApplyFaults
    <3>10. CASE ClrKey(f, w) \/ ClrVal(f, w)
      <4>1. UNCHANGED <<up, log>> /\ work'[f][w].pc \in {"clrval", "clrmsg"}
        BY <1>0, <3>10, GotoFields DEF ClrKey, ClrVal
      <4>2. Clearing(f)'
        BY <4>1 DEF Clearing
      <4>. QED
        BY <1>1, <4>1, <4>2, SameLastEntry DEF Deciding
    <3>11. CASE ClrMsg(f, w)
      <4>1. UNCHANGED <<up, log>> /\ up[f] /\ pending' = [pending EXCEPT ![f].msg = "EMPTY"]
        BY <3>11 DEF ClrMsg, At
      <4>2. pending[f] \in PendingRecords
        BY <1>0, <4>1, NullFacts DEF TypeOK
      <4>3. pending'[f].msg = "EMPTY"
        BY <1>0, <4>1, <4>2 DEF TypeOK, PendingRecords
      <4>. QED
        BY <1>1, <4>1, <4>3, SameLastEntry DEF Deciding
    <3>. QED
      BY <1>4, <2>1, <3>4, <3>5, <3>6, <3>7, <3>8, <3>9, <3>10, <3>11 DEF WorkerStep
  <2>. QED
    BY <1>4, <2>1, <2>2, WorkerIsAt
<1>. QED
  BY <1>2, <1>3, <1>4 DEF FollowerStep, Crash

\* A follower that has answered with its vote is prepared.
LEMMA VoteIsPrepared ==
  ASSUME ServerInv, SingleInv, NEW f \in Followers, AwaitedIsLast(f), "mixed" \notin strayed[f],
         NEW w \in Workers, Reply(f, w), work[f][w].from # NULL, work[f][w].res = Vote,
         NEW r, r = work[f][w].req
  PROVE  Prepared(f, r)'
<1>0. /\ up[f] /\ work[f][w].pc = "reply" /\ UNCHANGED <<up, pending, log, strayed>>
      /\ WorkerInPlace(f, w)
  BY DEF Reply, At, server, ServerInv, WorkersInPlace
<1>1. HandlingInPlace(f, w) /\ Serial(f)
  BY <1>0, BusyFacts, SerialFacts
<1>2. /\ work[f][w].req \in Writes /\ pending[f] = PendingOf(work[f][w].req)
      /\ "unlogged" \notin strayed[f] => LastEntry(f) = work[f][w].req
  BY <1>0, <1>1, NullFacts DEF HandlingInPlace, WorkerInPlace
<1>3. InFlight(f)' = {}
  BY <1>1, <1>2, ReplyClearsInFlight, NullFacts
<1>. QED
  BY <1>0, <1>2, <1>3, SameLastEntry DEF Prepared

-----------------------------------------------------------------------------
(* The transaction in progress *)

\* What a thread in a transaction has in hand.
LEMMA TransactionFacts ==
  ASSUME SystemInv, NEW t \in Conns, InTransaction(t)
  PROVE  /\ lead[t].req \in Writes /\ lead[t].req.key \in Keys
         /\ lead[t].i \in 1..Redundancy /\ Target(t) = Replica(lead[t].req.key, lead[t].i)
         /\ Target(t) \in Followers /\ Writing(t) /\ Sent(lead[t]) \in LogEntries
<1>1. SystemTypeOK /\ WalkInPlace(t, lead[t]) /\ lead[t].pc \in Working
  BY DEF SystemInv, LeadInPlace, InTransaction, Working
<1>2. lead[t].req \in Writes /\ lead[t].req.type \in Kinds[t]
  BY <1>1 DEF WalkInPlace, InTransaction
<1>3. lead[t].req.type \in {"PUTREQ", "DELREQ"}
  BY <1>2, RequestFacts, NullFacts
<1>4. Writing(t)
  BY <1>3 DEF Writing, InTransaction
<1>. QED
  BY <1>1, <1>2, <1>4, LeadFacts DEF Target, InTransaction

\* There is one transaction at a time.
LEMMA OneTransaction ==
  ASSUME SystemInv, TransactionInv, NEW t \in Conns, InTransaction(t), NEW u \in Conns, InTransaction(u)
  PROVE  t = u
BY TransactionFacts DEF TransactionInv

\* A message of a transaction is awaited by the thread of a transaction.
LEMMA AwaitedSender ==
  ASSUME SystemInv, NEW c \in Conns, conn[c].st = "open", Sent(lead[c]) \in LogEntries
  PROVE  InTransaction(c)
<1>1. SystemTypeOK /\ WalkInPlace(c, lead[c]) /\ lead[c].pc \in Working
  BY DEF SystemInv, LeadInPlace
<1>2. lead[c].pc # "get"
  BY <1>1, LeadFacts, NullFacts
<1>. QED
  BY <1>1, <1>2 DEF Working, InTransaction

\* Where a COMMIT is, the transaction it commits is pending or done with.
LEMMA CommitAt ==
  ASSUME SystemInv, Orderly, TransactionInv, NEW f \in Followers, Commit \in InFlight(f)
  PROVE  \E t \in Conns : /\ lead[t].pc = "phase2" /\ ~lead[t].abort /\ f = Target(t)
                          /\ Deciding(f, lead[t].req) /\ lead[t].req \in agreed
<1>1. PICK t \in Conns : InTransaction(t) /\ f \in Replicas(lead[t].req.key)
  BY DEF TransactionInv
<1>2. PICK j \in 1..Redundancy : f = Replica(lead[t].req.key, j)
  BY <1>1 DEF Replicas
<1>3. /\ lead[t].req \in Writes /\ lead[t].i \in 1..Redundancy
      /\ Target(t) = Replica(lead[t].req.key, lead[t].i) /\ Redundancy \in Nat
      /\ lead[t].req # Commit
  BY <1>1, TransactionFacts, CommitFacts, SystemAssumption
<1>4. ReplicasInPlace(t) /\ (lead[t].pc = "phase2" /\ ~lead[t].abort => lead[t].req \in agreed)
  BY <1>1 DEF TransactionInv
<1>5. j < lead[t].i \/ j = lead[t].i \/ j > lead[t].i
  BY <1>3
<1>6. CASE lead[t].pc = "phase1"
  <2>1. Phase1InPlace(lead[t], conn[t], j, f)
    BY <1>2, <1>4, <1>6 DEF ReplicasInPlace
  <2>2. InFlight(f) \subseteq {lead[t].req}
    BY <1>5, <2>1 DEF Phase1InPlace, Prepared
  <2>. QED
    BY <1>3, <2>2
<1>7. CASE lead[t].pc = "phase2"
  <2>1. Phase2InPlace(lead[t], conn[t], j, f)
    BY <1>2, <1>4, <1>7 DEF ReplicasInPlace
  <2>2. ~lead[t].abort
    BY <1>3, <2>1, CommitFacts DEF Phase2InPlace
  <2>3. j = lead[t].i
    BY <1>5, <2>1, <2>2 DEF Phase2InPlace, Prepared
  <2>. QED
    BY <1>2, <1>3, <1>4, <1>7, <2>1, <2>2, <2>3 DEF Phase2InPlace
<1>. QED
  BY <1>1, <1>6, <1>7 DEF InTransaction

\* So a worker that applies a COMMIT applies the transaction in progress.
LEMMA AppliesAgreed ==
  ASSUME SystemInv, Orderly, TransactionInv, NEW f \in Followers, NEW w \in Workers,
         At(f, w, "put") \/ At(f, w, "del")
  PROVE  \E t \in Conns :
           /\ lead[t].pc = "phase2" /\ ~lead[t].abort /\ f = Target(t)
           /\ lead[t].req \in agreed /\ lead[t].req \in Writes
           /\ pending[f] = PendingOf(lead[t].req) /\ lead[t].req.key \in Keys
           /\ IF work[f][w].pc = "put" THEN lead[t].req.type = "PUTREQ" /\ lead[t].req.val \in Vals
              ELSE lead[t].req.type = "DELREQ" /\ lead[t].req.val = NULL
<1>1. ServerInv /\ SingleInv /\ "mixed" \notin strayed[f]
  BY DEF SystemInv, Orderly
<1>2. work[f][w].pc \in {"put", "del"} /\ WorkerInPlace(f, w)
  BY <1>1 DEF At, ServerInv, WorkersInPlace
<1>3. work[f][w].req = Commit
  BY <1>2 DEF WorkerInPlace, Decisions, Commit, Request
<1>4. Commit \in InFlight(f)
  BY <1>3, CommitFacts DEF InFlight
<1>5. PICK t \in Conns : /\ lead[t].pc = "phase2" /\ ~lead[t].abort /\ f = Target(t)
                         /\ Deciding(f, lead[t].req) /\ lead[t].req \in agreed
  BY <1>4, CommitAt
<1>6. lead[t].req \in Writes /\ lead[t].req.key \in Keys
  BY <1>5, TransactionFacts DEF InTransaction
<1>7. /\ pending[f] = PendingOf(lead[t].req)
      /\ work[f][w].pc = "put" => pending[f].msg = "PUTREQ"
      /\ work[f][w].pc = "del" => pending[f].msg = "DELREQ"
  BY <1>1, <1>5, ApplyFinds DEF At
<1>8. pending[f].msg = lead[t].req.type
  BY <1>7 DEF PendingOf, Pending
<1>9. IF work[f][w].pc = "put" THEN lead[t].req.type = "PUTREQ" /\ lead[t].req.val \in Vals
      ELSE lead[t].req.type = "DELREQ" /\ lead[t].req.val = NULL
  BY <1>2, <1>6, <1>7, <1>8, RequestFacts, NullFacts
<1>. QED
  BY <1>5, <1>6, <1>7, <1>9

\* It never dies of what it finds.
LEMMA NoFaults ==
  ASSUME SystemInv, Orderly, TransactionInv, NEW f \in Followers, NEW w \in Workers
  PROVE  ~ApplyFaults(f, w)
<1>. SUFFICES ASSUME ApplyFaults(f, w) PROVE FALSE
  OBVIOUS
<1>1. At(f, w, "put") \/ At(f, w, "del")
  BY DEF ApplyFaults
<1>2. PICK t \in Conns :
        /\ pending[f] = PendingOf(lead[t].req) /\ lead[t].req.key \in Keys
        /\ IF work[f][w].pc = "put" THEN lead[t].req.type = "PUTREQ" /\ lead[t].req.val \in Vals
           ELSE lead[t].req.type = "DELREQ" /\ lead[t].req.val = NULL
  BY <1>1, AppliesAgreed
<1>3. pending[f].key \in Keys /\ (work[f][w].pc = "put" => pending[f].val \in Vals)
  BY <1>2 DEF PendingOf, Pending
<1>. QED
  BY <1>3, NullFacts DEF ApplyFaults, At

\* Only the application of a COMMIT changes a store.
LEMMA OnlyApplyStores ==
  ASSUME ServerInv, NEW f \in Followers, FollowerStep(f)
  PROVE  store' = store \/ \E w \in Workers : Apply(f, w)
<1>1. CASE Crash(f) \/ Restart(f)
  BY <1>1 DEF Crash, Restart, Die
<1>2. ASSUME NEW w \in Workers, WorkerStep(f, w), ~Apply(f, w) PROVE store' = store
  <2>1. CASE Take(f, w) \/ LogOpen(f, w) \/ LogWrite(f, w)
    BY <2>1 DEF Take, LogOpen, LogWrite, server
  <2>2. CASE ActPut(f, w) \/ ActDel(f, w) \/ SetKey(f, w) \/ SetVal(f, w)
    BY <2>2 DEF ActPut, ActDel, SetKey, SetVal
  <2>3. CASE ActCommit(f, w) \/ ActAbort(f, w) \/ ActGet(f, w) \/ Reply(f, w)
    BY <2>3 DEF ActCommit, ActAbort, ActGet, Reply, server
  <2>4. CASE ApplyFaults(f, w)
    BY <2>4 DEF ApplyFaults, Die
  <2>5. CASE ClrKey(f, w) \/ ClrVal(f, w) \/ ClrMsg(f, w)
    BY <2>5 DEF ClrKey, ClrVal, ClrMsg
  <2>. QED
    BY <1>2, <2>1, <2>2, <2>3, <2>4, <2>5 DEF WorkerStep
<1>. QED
  BY <1>1, <1>2 DEF FollowerStep

\* What a COMMIT does to the store.
LEMMA ApplyStores ==
  ASSUME SystemInv, Orderly, TransactionInv, NEW f \in Followers, NEW w \in Workers, Apply(f, w)
  PROVE  \E t \in Conns :
           /\ lead[t].pc = "phase2" /\ ~lead[t].abort /\ f = Target(t)
           /\ lead[t].req \in agreed /\ lead[t].req \in Writes /\ lead[t].req.key \in Keys
           /\ pending[f] = PendingOf(lead[t].req)
           /\ store' = [store EXCEPT ![f] =
                IF lead[t].req.key \in BadKeys THEN store[f]
                ELSE [store[f] EXCEPT ![lead[t].req.key] = lead[t].req.val]]
<1>1. At(f, w, "put") \/ At(f, w, "del")
  BY DEF Apply
<1>2. PICK t \in Conns :
           /\ lead[t].pc = "phase2" /\ ~lead[t].abort /\ f = Target(t)
           /\ lead[t].req \in agreed /\ lead[t].req \in Writes
           /\ pending[f] = PendingOf(lead[t].req) /\ lead[t].req.key \in Keys
           /\ IF work[f][w].pc = "put" THEN lead[t].req.type = "PUTREQ" /\ lead[t].req.val \in Vals
              ELSE lead[t].req.type = "DELREQ" /\ lead[t].req.val = NULL
  BY <1>1, AppliesAgreed
<1>3. pending[f].key = lead[t].req.key /\ pending[f].val = lead[t].req.val
  BY <1>2 DEF PendingOf, Pending
<1>4. Applied(f, w) = IF lead[t].req.key \in BadKeys THEN store[f]
                      ELSE [store[f] EXCEPT ![lead[t].req.key] = lead[t].req.val]
  BY <1>2, <1>3 DEF Applied
<1>5. store' = [store EXCEPT ![f] = Applied(f, w)]
  BY DEF Apply
<1>. QED
  BY <1>2, <1>4, <1>5

\* Only a crash counts as one.
LEMMA CrashesCounted ==
  ASSUME TypeOK, NEW f \in Followers, FollowerStep(f)
  PROVE  crashes' = 0 => crashes = 0 /\ ~Crash(f)
<1>0. crashes \in Nat
  BY ServerAssumption DEF TypeOK
<1>1. CASE Crash(f)
  BY <1>0, <1>1 DEF Crash
<1>2. CASE Restart(f)
  BY <1>2 DEF Restart, Crash
<1>3. ASSUME NEW w \in Workers, WorkerStep(f, w) PROVE crashes' = crashes
  <2>1. CASE Take(f, w) \/ LogOpen(f, w) \/ LogWrite(f, w) \/ ActPut(f, w) \/ ActDel(f, w)
    BY <2>1 DEF Take, LogOpen, LogWrite, ActPut, ActDel
  <2>2. CASE SetKey(f, w) \/ SetVal(f, w) \/ Apply(f, w) \/ ApplyFaults(f, w)
    BY <2>2 DEF SetKey, SetVal, Apply, ApplyFaults
  <2>3. CASE ActCommit(f, w) \/ ActAbort(f, w) \/ ActGet(f, w) \/ Reply(f, w)
    BY <2>3 DEF ActCommit, ActAbort, ActGet, Reply, server
  <2>4. CASE ClrKey(f, w) \/ ClrVal(f, w) \/ ClrMsg(f, w)
    BY <2>4 DEF ClrKey, ClrVal, ClrMsg
  <2>. QED
    BY <1>3, <2>1, <2>2, <2>3, <2>4 DEF WorkerStep
<1>. QED
  BY <1>1, <1>2, <1>3 DEF FollowerStep

\* Nobody goes down if nobody crashes.
LEMMA UpStays ==
  ASSUME SystemInv, Orderly, TransactionInv, crashes' = 0, NEW f \in Followers, FollowerStep(f)
  PROVE  \A g \in Followers : up'[g]
<1>00. TypeOK
  BY DEF SystemInv, ServerInv
<1>0. \A g \in Followers : up[g]
  BY <1>00, CrashesCounted DEF TransactionInv
<1>1. ~Crash(f)
  BY <1>00, CrashesCounted
<1>2. ~Restart(f)
  BY <1>0 DEF Restart
<1>3. ASSUME NEW w \in Workers, WorkerStep(f, w) PROVE up' = up
  <2>0. ~ApplyFaults(f, w)
    BY NoFaults
  <2>1. CASE Take(f, w) \/ LogOpen(f, w) \/ LogWrite(f, w)
    BY <2>1 DEF Take, LogOpen, LogWrite, server
  <2>2. CASE ActPut(f, w) \/ ActDel(f, w) \/ SetKey(f, w) \/ SetVal(f, w)
    BY <2>2 DEF ActPut, ActDel, SetKey, SetVal
  <2>3. CASE ActCommit(f, w) \/ ActAbort(f, w) \/ ActGet(f, w) \/ Reply(f, w)
    BY <2>3 DEF ActCommit, ActAbort, ActGet, Reply, server
  <2>4. CASE ClrKey(f, w) \/ ClrVal(f, w) \/ ClrMsg(f, w) \/ Apply(f, w)
    BY <2>4 DEF ClrKey, ClrVal, ClrMsg, Apply
  <2>. QED
    BY <1>3, <2>0, <2>1, <2>2, <2>3, <2>4 DEF WorkerStep
<1>. QED
  BY <1>0, <1>1, <1>2, <1>3 DEF FollowerStep

-----------------------------------------------------------------------------
(* The message that is awaited is the last *)

\* The message that is waited for stays the last in its queue.
LEMMA StepKeepsLast ==
  ASSUME ServerInv, NEW f \in Followers, FollowerStep(f), NEW g \in Followers, AwaitedIsLast(g)
  PROVE  AwaitedIsLast(g)'
<1>0. TypeOK
  BY DEF ServerInv
<1>1. CASE g # f
  BY <1>0, <1>1, StepElsewhere DEF AwaitedIsLast
<1>2. CASE g = f
  <2>1. PICK d \in {0, 1} :
          /\ \A n \in DOMAIN wq'[f] : n + d \in DOMAIN wq[f] /\ wq'[f][n] = wq[f][n + d]
          /\ (\E w \in Workers : Take(f, w)) => d = 1
    BY QueueMoves
  <2>2. DOMAIN wq'[f] \subseteq Nat /\ \A n \in DOMAIN wq'[f] : n >= 1
    <3>1. wq'[f] \in Seq(JobRecords)
      BY FollowerKeepsInv DEF ServerInv, TypeOK, JobRecords
    <3>. QED
      BY <3>1
  <2>3. ASSUME NEW n \in DOMAIN wq'[f], wq'[f][n].from # NULL, wq'[f][n].req \in LogEntries,
               NEW m \in DOMAIN wq'[f], m > n
        PROVE  wq'[f][m].req \notin LogEntries
    <3>1. /\ n + d \in DOMAIN wq[f] /\ wq'[f][n] = wq[f][n + d]
          /\ m + d \in DOMAIN wq[f] /\ wq'[f][m] = wq[f][m + d] /\ m + d > n + d
      BY <2>1, <2>2, <2>3
    <3>. QED
      BY <1>2, <2>3, <3>1 DEF AwaitedIsLast
  <2>4. ASSUME NEW w \in Workers, work'[f][w].from # NULL, work'[f][w].req \in LogEntries,
               NEW m \in DOMAIN wq'[f]
        PROVE  wq'[f][m].req \notin LogEntries
    <3>1. m + d \in DOMAIN wq[f] /\ wq'[f][m] = wq[f][m + d]
      BY <2>1
    <3>2. CASE work'[f][w].req = work[f][w].req /\ work'[f][w].from = work[f][w].from
      BY <1>2, <2>4, <3>1, <3>2 DEF AwaitedIsLast
    <3>3. CASE /\ Take(f, w) /\ 1 \in DOMAIN wq[f]
               /\ work'[f][w].req = wq[f][1].req /\ work'[f][w].from = wq[f][1].from
      <4>1. d = 1 /\ m + d > 1
        BY <2>1, <2>2, <3>3
      <4>. QED
        BY <1>2, <2>4, <3>1, <3>3, <4>1 DEF AwaitedIsLast
    <3>. QED
      BY <2>4, <3>2, <3>3, WorkMoves
  <2>. QED
    BY <1>2, <2>3, <2>4 DEF AwaitedIsLast
<1>. QED
  BY <1>1, <1>2

\* The message a thread sends is the last, and nobody awaits another.
LEMMA SendKeepsLast ==
  ASSUME SystemInv, TransactionInv, NEW t \in Conns, Sends(t), NEW g \in Followers, AwaitedIsLast(g)
  PROVE  AwaitedIsLast(g)'
<1>. DEFINE f == Target(t)
            r == Sent(lead[t])
<1>0. /\ ServerInv /\ TypeOK /\ f \in Followers /\ r \in Requests /\ Connect(t, f, r)
      /\ lead[t].pc \in Working /\ NULL \notin Conns /\ conn[t].st = "closed"
  BY LeadFacts, NullFacts DEF SystemInv, LeadInPlace, Sends, ServerInv, Connect
<1>1. work' = work /\ (g # f => wq'[g] = wq[g])
      /\ (\A n \in DOMAIN wq[f] : n \in DOMAIN wq'[f] /\ wq'[f][n] = wq[f][n])
      /\ (\A n \in DOMAIN wq'[f] : \/ n \in DOMAIN wq[f]
                                   \/ /\ wq'[f][n].from = t /\ wq'[f][n].req = r
                                      /\ \A m \in DOMAIN wq'[f] : ~(m > n))
  BY <1>0, ConnectFacts
<1>. HIDE DEF f, r
<1>2. CASE g # f
  BY <1>1, <1>2 DEF AwaitedIsLast
<1>3. CASE g = f
  <2>1. ASSUME r \in LogEntries, NEW c \in Conns, c # t, conn[c].st = "open",
               Sent(lead[c]) \in LogEntries
        PROVE  FALSE
    <3>1. InTransaction(c)
      BY <2>1, AwaitedSender
    <3>2. InTransaction(t)
      <4>1. lead[t].pc # "get"
        BY <2>1, LeadFacts, NullFacts DEF r, SystemInv, LeadInPlace
      <4>. QED
        BY <1>0, <4>1 DEF Working, InTransaction
    <3>. QED
      BY <2>1, <3>1, <3>2, OneTransaction
  <2>2. ASSUME NEW n \in DOMAIN wq[f], wq[f][n].from # NULL, wq[f][n].req \in LogEntries
        PROVE  r \notin LogEntries
    <3>1. wq[f][n].from \in Conns
      <4>1. wq[f] \in Seq(JobRecords)
        BY <1>0 DEF TypeOK, JobRecords
      <4>2. wq[f][n] \in JobRecords
        BY <4>1
      <4>. QED
        BY <2>2, <4>2 DEF JobRecords
    <3>2. wq[f][n].req = Sent(lead[wq[f][n].from]) /\ conn[wq[f][n].from].st = "open"
      BY <1>0, <2>2 DEF SystemInv, MessagesInPlace, ServerInv, ConnsInPlace
    <3>. QED
      BY <1>0, <2>1, <2>2, <3>1, <3>2
  <2>3. ASSUME NEW w \in Workers, work[f][w].from # NULL, work[f][w].req \in LogEntries
        PROVE  r \notin LogEntries
    <3>1. work[f][w].from \in Conns
      BY <1>0, <2>3 DEF TypeOK
    <3>2. work[f][w].req = Sent(lead[work[f][w].from]) /\ conn[work[f][w].from].st = "open"
      BY <1>0, <2>3 DEF SystemInv, MessagesInPlace, ServerInv, ConnsInPlace
    <3>. QED
      BY <1>0, <2>1, <2>3, <3>1, <3>2
  <2>4. ASSUME NEW n \in DOMAIN wq'[f], wq'[f][n].from # NULL, wq'[f][n].req \in LogEntries,
               NEW m \in DOMAIN wq'[f], m > n
        PROVE  wq'[f][m].req \notin LogEntries
    <3>1. n \in DOMAIN wq[f] /\ wq'[f][n] = wq[f][n]
      BY <1>1, <2>4
    <3>2. CASE m \in DOMAIN wq[f]
      BY <1>1, <1>3, <2>4, <3>1, <3>2 DEF AwaitedIsLast
    <3>3. CASE wq'[f][m].req = r
      BY <2>2, <2>4, <3>1, <3>3
    <3>. QED
      BY <1>1, <3>2, <3>3
  <2>5. ASSUME NEW w \in Workers, work'[f][w].from # NULL, work'[f][w].req \in LogEntries,
               NEW m \in DOMAIN wq'[f]
        PROVE  wq'[f][m].req \notin LogEntries
    <3>1. work'[f][w] = work[f][w]
      BY <1>1
    <3>2. CASE m \in DOMAIN wq[f]
      BY <1>1, <1>3, <2>5, <3>1, <3>2 DEF AwaitedIsLast
    <3>3. CASE wq'[f][m].req = r
      BY <2>3, <2>5, <3>1, <3>3
    <3>. QED
      BY <1>1, <3>2, <3>3
  <2>. QED
    BY <1>3, <2>4, <2>5 DEF AwaitedIsLast
<1>. QED
  BY <1>2, <1>3

\* The end of a wait changes nothing that a transaction depends on.
LEMMA WaitKeepsPlaces ==
  ASSUME ServerInv, NEW c \in Conns, Disconnect(c) \/ UNCHANGED serverVars, NEW g \in Followers
  PROVE  /\ InFlight(g)' = InFlight(g) /\ up' = up
         /\ AwaitedIsLast(g) => AwaitedIsLast(g)'
         /\ \A r : Prepared(g, r) => Prepared(g, r)'
         /\ \A r : Deciding(g, r) => Deciding(g, r)'
<1>1. InFlight(g)' = InFlight(g)
  BY WaitKeepsInFlight
<1>2. UNCHANGED <<up, pending, log, strayed>> /\ \A w \in Workers : work'[g][w].pc = work[g][w].pc
  BY EndOfWait DEF server
<1>3. AwaitedIsLast(g) => AwaitedIsLast(g)'
  BY EndOfWait DEF AwaitedIsLast
<1>4. LastEntry(g)' = LastEntry(g) /\ (Clearing(g)' <=> Clearing(g))
  BY <1>2, SameLastEntry DEF Clearing
<1>. QED
  BY <1>1, <1>2, <1>3, <1>4 DEF Prepared, Deciding

-----------------------------------------------------------------------------
(* The steps of a transaction *)

\* At the start there is no transaction.
LEMMA TransactionInit == Init => TransactionInv
<1>. SUFFICES ASSUME Init PROVE TransactionInv
  OBVIOUS
<1>1. /\ wq = [f \in Followers |-> << >>] /\ up = [f \in Followers |-> TRUE]
      /\ work = [f \in Followers |-> [w \in Workers |-> Idle]]
      /\ \A t \in Conns : lead[t].pc = "idle"
  BY DEF Init, ServerInit, LeaderIdle
<1>2. \A f \in Followers : InFlight(f) = {} /\ AwaitedIsLast(f)
  BY <1>1, NullFacts DEF InFlight, AwaitedIsLast, Idle
<1>. QED
  BY <1>1, <1>2 DEF TransactionInv, InTransaction, Writing

\* A step of a follower, as the transaction sees it.
LEMMA FollowerKeepsPlaces ==
  ASSUME SystemInv, Orderly, Orderly', TransactionInv, NEW f \in Followers, FollowerStep(f),
         lead' = lead, NEW t \in Conns, InTransaction(t)
  PROVE  ReplicasInPlace(t)'
<1>0. /\ ServerInv /\ SingleInv /\ TypeOK /\ AwaitedIsLast(f)
      /\ "mixed" \notin strayed[f] /\ Serial(f)
      /\ strayed'[f] \cap {"mixed", "forgot"} = {} /\ "forgot" \notin strayed'[f]
  BY DEF SystemInv, Orderly, TransactionInv, ServerInv, SingleInv
<1>1. /\ lead[t].req \in Writes /\ lead[t].req.key \in Keys /\ lead[t].i \in 1..Redundancy
      /\ Target(t) = Replica(lead[t].req.key, lead[t].i) /\ Redundancy \in Nat
      /\ Sent(lead[t]) \in LogEntries
  BY TransactionFacts, SystemAssumption
<1>2. ReplicasInPlace(t) /\ (conn[t].st # "closed" => conn[t].to = Target(t))
  BY DEF TransactionInv, SystemInv, LeadInPlace
<1>. SUFFICES ASSUME NEW j \in 1..Redundancy, NEW g, g = Replica(lead[t].req.key, j)
              PROVE  /\ lead[t].pc = "phase1" => Phase1InPlace(lead[t], conn[t], j, g)'
                     /\ lead[t].pc = "phase2" => Phase2InPlace(lead[t], conn[t], j, g)'
  BY DEF ReplicasInPlace, Replica
<1>3. /\ lead[t].pc = "phase1" => Phase1InPlace(lead[t], conn[t], j, g)
      /\ lead[t].pc = "phase2" => Phase2InPlace(lead[t], conn[t], j, g)
  BY <1>2 DEF ReplicasInPlace
<1>4. g \in Followers
  BY <1>1, ReplicaFacts
<1>5. InFlight(g)' \subseteq InFlight(g)
  BY <1>0, <1>4, StepKeepsInFlight
<1>6. Prepared(g, lead[t].req) => Prepared(g, lead[t].req)'
  <2>1. CASE g = f
    <3>1. \A r \in Writes : Prepared(f, r) => Prepared(f, r)'
      BY <1>0, PreparedStays
    <3>. QED
      BY <1>1, <2>1, <3>1
  <2>2. CASE g # f
    BY <1>0, <1>4, <1>5, <2>2, StepElsewhere DEF Prepared, LastEntry
  <2>. QED
    BY <2>1, <2>2
<1>7. Deciding(g, lead[t].req) => Deciding(g, lead[t].req)'
  <2>1. CASE g = f
    <3>1. \A r \in Writes : Deciding(f, r) => Deciding(f, r)'
      BY <1>0, DecidingStays
    <3>. QED
      BY <1>1, <2>1, <3>1
  <2>2. CASE g # f
    BY <1>0, <1>4, <1>5, <2>2, StepElsewhere DEF Deciding, LastEntry, Clearing
  <2>. QED
    BY <2>1, <2>2
<1>8. CASE j # lead[t].i
  <2>1. lead[t].pc = "phase1" => Phase1InPlace(lead[t], conn[t], j, g)'
    BY <1>3, <1>5, <1>6, <1>8 DEF Phase1InPlace
  <2>2. lead[t].pc = "phase2" => Phase2InPlace(lead[t], conn[t], j, g)'
    BY <1>3, <1>5, <1>6, <1>8 DEF Phase2InPlace
  <2>. QED
    BY <2>1, <2>2
<1>9. CASE j = lead[t].i
  <2>0. ~(j < lead[t].i) /\ ~(j > lead[t].i) /\ Target(t) = g
    BY <1>1, <1>9
  <2>1. CASE conn'[t] = conn[t]
    <3>1. lead[t].pc = "phase1" => Phase1InPlace(lead[t], conn[t], j, g)'
      BY <1>3, <1>5, <1>6, <2>0, <2>1 DEF Phase1InPlace
    <3>2. lead[t].pc = "phase2" => Phase2InPlace(lead[t], conn[t], j, g)'
      BY <1>3, <1>5, <1>7, <2>0, <2>1 DEF Phase2InPlace
    <3>. QED
      BY <3>1, <3>2
  <2>2. CASE /\ Die(f) /\ conn[t].to = f /\ conn[t].st = "open" /\ conn'[t].st = "reset"
    <3>1. g = f /\ InFlight(g)' = {}
      BY <1>0, <1>2, <2>0, <2>2, DieClearsInFlight
    <3>2. lead[t].pc = "phase1" => Phase1InPlace(lead[t], conn[t], j, g)'
      BY <2>0, <2>2, <3>1 DEF Phase1InPlace
    <3>3. lead[t].pc = "phase2" => Phase2InPlace(lead[t], conn[t], j, g)'
      BY <1>3, <1>7, <1>9, <2>0, <2>2, <3>1 DEF Phase2InPlace
    <3>. QED
      BY <3>2, <3>3
  <2>3. ASSUME NEW w \in Workers, Reply(f, w), work[f][w].from = t,
               conn[t].to = f, conn[t].st = "open",
               conn'[t].st = "answered", conn'[t].res = work[f][w].res
        PROVE  /\ lead[t].pc = "phase1" => Phase1InPlace(lead[t], conn[t], j, g)'
               /\ lead[t].pc = "phase2" => Phase2InPlace(lead[t], conn[t], j, g)'
    <3>0. g = f /\ t # NULL
      BY <1>2, <2>0, <2>3, NullFacts
    <3>1. work[f][w].req = Sent(lead[t])
      BY <2>3, <3>0 DEF SystemInv, MessagesInPlace
    <3>2. InFlight(g)' = {}
      BY <1>0, <1>1, <2>3, <3>0, <3>1, ReplyClearsInFlight
    <3>3. CASE lead[t].pc = "phase1"
      <4>1. work[f][w].req = lead[t].req
        BY <3>1, <3>3 DEF Sent
      <4>2. work[f][w].res = Vote => \A r : r = work[f][w].req => Prepared(f, r)'
        BY <1>0, <2>3, <3>0, VoteIsPrepared
      <4>3. conn'[t].res = Vote => Prepared(g, lead[t].req)'
        BY <2>3, <3>0, <4>1, <4>2
      <4>. QED
        BY <2>0, <3>2, <3>3, <4>3 DEF Phase1InPlace
    <3>4. CASE lead[t].pc = "phase2"
      BY <1>3, <1>7, <1>9, <2>0, <3>2, <3>4 DEF Phase2InPlace
    <3>. QED
      BY <3>3, <3>4
  <2>. QED
    BY <1>0, <2>1, <2>2, <2>3, ConnMoves
<1>. QED
  BY <1>8, <1>9

\* Every step of a follower keeps the replicas in their place.
LEMMA FollowerKeepsTransaction ==
  ASSUME SystemInv, Orderly, Orderly', TransactionInv, NEW f \in Followers, FollowerStep(f),
         UNCHANGED <<lead, agreed>>
  PROVE  TransactionInv'
<1>0. ServerInv
  BY DEF SystemInv
<1>1. \A g \in Followers : AwaitedIsLast(g)' /\ InFlight(g)' \subseteq InFlight(g)
  BY <1>0, StepKeepsLast, StepKeepsInFlight DEF TransactionInv
<1>2. ASSUME NEW t \in Conns, InTransaction(t)'
      PROVE  /\ ReplicasInPlace(t)'
             /\ lead'[t].pc = "phase2" /\ ~lead'[t].abort => lead'[t].req \in agreed'
  <2>1. InTransaction(t)
    BY <1>2 DEF InTransaction
  <2>. QED
    BY <2>1, FollowerKeepsPlaces DEF TransactionInv
<1>3. crashes' = 0 => \A g \in Followers : up'[g]
  BY UpStays
<1>4. ASSUME NEW g \in Followers,
             \A t \in Conns : InTransaction(t)' => g \notin Replicas(lead'[t].req.key)
      PROVE  InFlight(g)' = {}
  <2>1. InFlight(g) = {}
    BY <1>4 DEF TransactionInv, InTransaction
  <2>. QED
    BY <1>1, <2>1
<1>5. \A t, u \in Conns : Writing(t)' /\ Writing(u)' => t = u
  BY DEF TransactionInv, Writing
<1>. QED
  BY <1>1, <1>2, <1>3, <1>4, <1>5 DEF TransactionInv, Replicas, Replica

\* A thread sends to the replica its walk is at.
LEMMA SendKeepsTransaction ==
  ASSUME SystemInv, TransactionInv, NEW t \in Conns, Sends(t)
  PROVE  TransactionInv'
<1>. DEFINE f == Target(t)
            r == Sent(lead[t])
<1>0. /\ ServerInv /\ f \in Followers /\ r \in Requests /\ Connect(t, f, r)
      /\ lead[t].pc \in Working /\ lead' = lead /\ agreed' = agreed /\ WalkInPlace(t, lead[t])
      /\ SystemTypeOK
  BY LeadFacts DEF SystemInv, LeadInPlace, Sends
<1>1. /\ conn[t].st = "closed" /\ conn'[t].st = "open" /\ UNCHANGED <<up, pending, log, work>>
      /\ strayed' = strayed /\ crashes' = crashes
      /\ \A u \in Conns : u # t => conn'[u] = conn[u]
  BY <1>0, ConnectFacts DEF server
<1>2. \A g \in Followers : AwaitedIsLast(g)'
  BY SendKeepsLast DEF TransactionInv
<1>3. ASSUME NEW g \in Followers
      PROVE  /\ InFlight(g)' \subseteq InFlight(g) \cup {r}
             /\ g # f \/ r \notin LogEntries => InFlight(g)' = InFlight(g)
  BY <1>0, SendAddsInFlight
<1>. HIDE DEF r
<1>4. ASSUME NEW g \in Followers, g # f \/ r \notin LogEntries, NEW x
      PROVE  (Prepared(g, x) => Prepared(g, x)') /\ (Deciding(g, x) => Deciding(g, x)')
  BY <1>1, <1>3, <1>4 DEF Prepared, Deciding, LastEntry, Clearing
<1>5. r \in LogEntries => InTransaction(t)
  <2>1. lead[t].pc = "get" => r \notin LogEntries
    BY <1>0, LeadFacts, NullFacts DEF r
  <2>. QED
    BY <1>0, <2>1 DEF Working, InTransaction
<1>6. ASSUME NEW u \in Conns, InTransaction(u)
      PROVE  ReplicasInPlace(u)'
  <2>1. lead[u].req.key \in Keys /\ lead[u].req \in Writes /\ lead[u].i \in 1..Redundancy /\ ReplicasInPlace(u)
    BY <1>6, TransactionFacts DEF TransactionInv
  <2>. SUFFICES ASSUME NEW j \in 1..Redundancy, NEW g, g = Replica(lead[u].req.key, j)
                PROVE  /\ lead[u].pc = "phase1" => Phase1InPlace(lead[u], conn[u], j, g)'
                       /\ lead[u].pc = "phase2" => Phase2InPlace(lead[u], conn[u], j, g)'
    BY <1>0 DEF ReplicasInPlace, Replica
  <2>2. /\ lead[u].pc = "phase1" => Phase1InPlace(lead[u], conn[u], j, g)
        /\ lead[u].pc = "phase2" => Phase2InPlace(lead[u], conn[u], j, g)
    BY <2>1 DEF ReplicasInPlace
  <2>3. g \in Followers
    BY <2>1, ReplicaFacts
  <2>4. CASE g # f \/ r \notin LogEntries
    <3>1. /\ InFlight(g)' = InFlight(g)
          /\ Prepared(g, lead[u].req) => Prepared(g, lead[u].req)'
          /\ Deciding(g, lead[u].req) => Deciding(g, lead[u].req)'
      <4>1. \A x : (Prepared(g, x) => Prepared(g, x)') /\ (Deciding(g, x) => Deciding(g, x)')
        BY <1>4, <2>3, <2>4
      <4>. QED
        BY <1>0, <1>3, <2>3, <2>4, <4>1
    <3>2. CASE u = t
      <4>1. conn'[u].st = "open" /\ conn[u].st = "closed"
        BY <1>1, <3>2
      <4>2. lead[u].pc = "phase1" => Phase1InPlace(lead[u], conn[u], j, g)'
        BY <1>0, <2>2, <3>1, <4>1 DEF Phase1InPlace
      <4>3. lead[u].pc = "phase2" => Phase2InPlace(lead[u], conn[u], j, g)'
        BY <1>0, <2>2, <3>1, <4>1 DEF Phase2InPlace
      <4>. QED
        BY <4>2, <4>3
    <3>3. CASE u # t
      <4>1. conn'[u] = conn[u]
        BY <1>1, <3>3
      <4>2. lead[u].pc = "phase1" => Phase1InPlace(lead[u], conn[u], j, g)'
        BY <1>0, <2>2, <3>1, <4>1 DEF Phase1InPlace
      <4>3. lead[u].pc = "phase2" => Phase2InPlace(lead[u], conn[u], j, g)'
        BY <1>0, <2>2, <3>1, <4>1 DEF Phase2InPlace
      <4>. QED
        BY <4>2, <4>3
    <3>. QED
      BY <3>2, <3>3
  <2>5. CASE g = f /\ r \in LogEntries
    <3>1. u = t
      BY <1>5, <1>6, <2>5, OneTransaction
    <3>2. j = lead[t].i
      BY <2>1, <2>5, <3>1, ReplicaFacts DEF f, Target
    <3>3. ~(j < lead[t].i) /\ ~(j > lead[t].i)
      BY <2>1, <3>1, <3>2, SystemAssumption
    <3>4. CASE lead[t].pc = "phase1"
      <4>1. r = lead[t].req /\ InFlight(g) = {}
        BY <1>1, <2>2, <3>1, <3>2, <3>4 DEF r, Sent, Phase1InPlace
      <4>2. InFlight(g)' \subseteq {lead[t].req}
        BY <1>3, <2>3, <4>1
      <4>. QED
        BY <1>0, <1>1, <3>1, <3>3, <3>4, <4>2 DEF Phase1InPlace
    <3>5. CASE lead[t].pc = "phase2"
      <4>1. Phase2InPlace(lead[t], conn[t], j, g) /\ r = Decision(lead[t])
        BY <2>2, <3>1, <3>5 DEF r, Sent
      <4>2. lead[t].abort => InFlight(g)' \subseteq {lead[t].req, Abort}
        BY <1>3, <2>3, <4>1 DEF Phase2InPlace, Decision, Abort
      <4>3. ~lead[t].abort => Deciding(g, lead[t].req)'
        <5>1. SUFFICES ASSUME ~lead[t].abort PROVE Deciding(g, lead[t].req)'
          OBVIOUS
        <5>2. Deciding(g, lead[t].req) /\ r = Commit
          BY <3>2, <4>1, <5>1 DEF Phase2InPlace, Decision, Commit
        <5>3. InFlight(g)' \subseteq {Commit}
          BY <1>3, <2>3, <5>2 DEF Deciding
        <5>. QED
          BY <1>0, <1>1, <5>2, <5>3 DEF Deciding, LastEntry, Clearing
      <4>. QED
        BY <1>0, <1>1, <3>1, <3>3, <3>5, <4>2, <4>3 DEF Phase2InPlace
    <3>. QED
      BY <1>6, <3>1, <3>4, <3>5 DEF InTransaction
  <2>. QED
    BY <2>4, <2>5
<1>7. ASSUME NEW g \in Followers,
             \A u \in Conns : InTransaction(u) => g \notin Replicas(lead[u].req.key)
      PROVE  InFlight(g)' = {}
  <2>1. g # f \/ r \notin LogEntries
    BY <1>5, <1>7, TransactionFacts DEF Replicas, f
  <2>. QED
    BY <1>3, <1>7, <2>1 DEF TransactionInv
<1>. QED
  BY <1>0, <1>1, <1>2, <1>6, <1>7 DEF TransactionInv, InTransaction, Writing

\* A thread that moves, or gives up, leaves the places of another's transaction.
LEMMA WaitKeepsOthers ==
  ASSUME SystemInv, TransactionInv, NEW t \in Conns, Disconnect(t) \/ UNCHANGED serverVars,
         NEW u \in Conns, u # t, InTransaction(u), lead'[u] = lead[u]
  PROVE  ReplicasInPlace(u)'
<1>0. ServerInv /\ ReplicasInPlace(u) /\ lead[u].req.key \in Keys
  BY TransactionFacts DEF SystemInv, TransactionInv
<1>1. conn'[u] = conn[u]
  BY <1>0, EndOfWait
<1>2. ASSUME NEW j \in 1..Redundancy, NEW g, g = Replica(lead[u].req.key, j)
      PROVE  /\ lead[u].pc = "phase1" => Phase1InPlace(lead[u], conn[u], j, g)'
             /\ lead[u].pc = "phase2" => Phase2InPlace(lead[u], conn[u], j, g)'
  <2>1. /\ lead[u].pc = "phase1" => Phase1InPlace(lead[u], conn[u], j, g)
        /\ lead[u].pc = "phase2" => Phase2InPlace(lead[u], conn[u], j, g)
    BY <1>0, <1>2 DEF ReplicasInPlace
  <2>2. g \in Followers
    BY <1>0, <1>2, ReplicaFacts
  <2>3. /\ InFlight(g)' = InFlight(g)
        /\ Prepared(g, lead[u].req) => Prepared(g, lead[u].req)'
        /\ Deciding(g, lead[u].req) => Deciding(g, lead[u].req)'
    <3>1. /\ \A r : Prepared(g, r) => Prepared(g, r)'
          /\ \A r : Deciding(g, r) => Deciding(g, r)'
      BY <1>0, <2>2, WaitKeepsPlaces
    <3>. QED
      BY <1>0, <2>2, <3>1, WaitKeepsPlaces
  <2>4. lead[u].pc = "phase1" => Phase1InPlace(lead[u], conn[u], j, g)'
    BY <1>1, <2>1, <2>3 DEF Phase1InPlace
  <2>5. lead[u].pc = "phase2" => Phase2InPlace(lead[u], conn[u], j, g)'
    BY <1>1, <2>1, <2>3 DEF Phase2InPlace
  <2>. QED
    BY <2>4, <2>5
<1>. QED
  BY <1>2 DEF ReplicasInPlace, Replica

\* So does a decision that is sent again (tpcleader.c:236-262).
LEMMA RetryKeepsTransaction ==
  ASSUME SystemInv, TransactionInv, NEW t \in Conns, Retries(t)
  PROVE  TransactionInv'
<1>0. /\ ServerInv /\ lead' = lead /\ agreed' = agreed /\ lead[t].pc # "phase1"
      /\ Disconnect(t) /\ conn'[t].st = "closed" /\ crashes' = crashes
  BY DisconnectFacts DEF SystemInv, Retries, Disconnect, server
<1>1. \A g \in Followers : /\ InFlight(g)' = InFlight(g) /\ up' = up /\ AwaitedIsLast(g)'
                           /\ \A r : Prepared(g, r) => Prepared(g, r)'
                           /\ \A r : Deciding(g, r) => Deciding(g, r)'
  BY <1>0, WaitKeepsPlaces DEF TransactionInv
<1>2. ASSUME NEW u \in Conns, InTransaction(u) PROVE ReplicasInPlace(u)'
  <2>1. CASE u # t
    BY <1>0, <1>2, <2>1, WaitKeepsOthers
  <2>2. CASE u = t
    <3>1. ReplicasInPlace(t) /\ lead[t].req.key \in Keys /\ lead[t].pc = "phase2"
      BY <1>0, <1>2, <2>2, TransactionFacts DEF TransactionInv, InTransaction
    <3>2. ASSUME NEW j \in 1..Redundancy, NEW g, g = Replica(lead[t].req.key, j)
          PROVE  Phase2InPlace(lead[t], conn[t], j, g)'
      <4>1. Phase2InPlace(lead[t], conn[t], j, g) /\ g \in Followers
        BY <3>1, <3>2, ReplicaFacts DEF ReplicasInPlace
      <4>2. /\ InFlight(g)' = InFlight(g)
            /\ Prepared(g, lead[t].req) => Prepared(g, lead[t].req)'
            /\ Deciding(g, lead[t].req) => Deciding(g, lead[t].req)'
        BY <1>0, <1>1, <4>1
      <4>. QED
        BY <1>0, <4>1, <4>2 DEF Phase2InPlace
    <3>. QED
      BY <1>0, <2>2, <3>1, <3>2 DEF ReplicasInPlace, Replica
  <2>. QED
    BY <2>1, <2>2
<1>3. ASSUME NEW g \in Followers,
             \A u \in Conns : InTransaction(u) => g \notin Replicas(lead[u].req.key)
      PROVE  InFlight(g)' = {}
  BY <1>1, <1>3 DEF TransactionInv
<1>4. crashes' = 0 => \A g \in Followers : up'[g]
  BY <1>0, <1>1 DEF TransactionInv
<1>. QED
  BY <1>0, <1>1, <1>2, <1>3, <1>4 DEF TransactionInv, InTransaction, Writing

\* A transaction begins when no message of another is left anywhere.
LEMMA AskKeepsPlaces ==
  ASSUME SystemInv, Orderly', TransactionInv, NEW t \in Conns, NEW y \in LeadRecords,
         Moves(t, y), Asks(t, y), y.pc = "phase1"
  PROVE  ReplicasInPlace(t)' /\ \A u \in Conns : ~InTransaction(u)
<1>0. /\ ServerInv /\ lead' = [lead EXCEPT ![t] = y] /\ WalkInPlace(t, y)
      /\ conn'[t].st = "closed" /\ y.i = 1 /\ UNCHANGED serverVars /\ lead[t].pc = "idle"
      /\ lead \in [Conns -> LeadRecords]
  BY DEF SystemInv, Moves, Asks, SystemTypeOK, LeadRecords
<1>1. y.req \in Writes /\ y.req.key \in Keys /\ y.req.type \in Kinds[t]
  BY <1>0, RequestFacts, NullFacts DEF WalkInPlace
<1>2. y.req.type # "GETREQ" /\ \A u \in Conns : ~Writing(u)
  <2>1. y.req.type # "GETREQ"
    BY <1>1, RequestFacts, NullFacts
  <2>. QED
    BY <2>1 DEF Asks, Orderly
<1>3. \A u \in Conns : ~InTransaction(u)
  BY <1>2, TransactionFacts
<1>4. \A g \in Followers : InFlight(g) = {}
  BY <1>3 DEF TransactionInv
<1>5. \A g \in Followers : InFlight(g)' = {}
  BY <1>0, <1>4, WaitKeepsInFlight
<1>6. lead'[t] = y
  BY <1>0
<1>7. ASSUME NEW j \in 1..Redundancy, NEW g, g = Replica(y.req.key, j)
      PROVE  Phase1InPlace(lead[t], conn[t], j, g)'
  <2>1. InFlight(g)' = {} /\ ~(j < 1) /\ conn'[t].st # "answered"
    BY <1>0, <1>1, <1>5, <1>7, ReplicaFacts, SystemAssumption
  <2>. QED
    BY <1>0, <1>6, <2>1 DEF Phase1InPlace
<1>. QED
  BY <1>3, <1>6, <1>7 DEF ReplicasInPlace, Replica

\* The end of a wait of phase 1.
LEMMA CountKeepsPlaces ==
  ASSUME SystemInv, TransactionInv, NEW t \in Conns, NEW y \in LeadRecords,
         Moves(t, y), Counts(t, y)
  PROVE  ReplicasInPlace(t)' /\ (y.pc = "phase2" /\ ~y.abort => y.req \in agreed')
<1>. DEFINE x == lead[t]
<1>0. /\ ServerInv /\ lead' = [lead EXCEPT ![t] = y] /\ WalkInPlace(t, y)
      /\ conn'[t].st = "closed" /\ (Disconnect(t) \/ UNCHANGED serverVars)
      /\ lead \in [Conns -> LeadRecords] /\ x.pc = "phase1" /\ InTransaction(t)
  BY DEF SystemInv, Moves, Counts, SystemTypeOK, LeadRecords, InTransaction
<1>1. /\ y.req = x.req
      /\ ~y.abort => ~x.abort /\ conn[t].st = "answered" /\ conn[t].res = Vote
      /\ x.i # Redundancy => y.pc = "phase1" /\ y.i = x.i + 1
      /\ x.i = Redundancy => /\ y.pc = "phase2" /\ y.i = 1
                             /\ ~y.abort => x.req \in agreed'
  BY DEF Counts
<1>2. x.req.key \in Keys /\ x.i \in 1..Redundancy /\ ReplicasInPlace(t) /\ Redundancy \in Nat
  BY <1>0, TransactionFacts, SystemAssumption DEF TransactionInv
<1>3. lead'[t] = y
  BY <1>0
<1>4. ASSUME NEW j \in 1..Redundancy, NEW g, g = Replica(x.req.key, j)
      PROVE  /\ y.pc = "phase1" => Phase1InPlace(lead[t], conn[t], j, g)'
             /\ y.pc = "phase2" => Phase2InPlace(lead[t], conn[t], j, g)'
  <2>1. Phase1InPlace(x, conn[t], j, g) /\ g \in Followers
    BY <1>0, <1>2, <1>4, ReplicaFacts DEF ReplicasInPlace
  <2>2. /\ InFlight(g)' = InFlight(g)
        /\ Prepared(g, x.req) => Prepared(g, x.req)'
    <3>1. \A r : Prepared(g, r) => Prepared(g, r)'
      BY <1>0, <2>1, WaitKeepsPlaces
    <3>2. lead'[t].req = x.req
      BY <1>1, <1>3
    <3>. QED
      BY <1>0, <2>1, <3>1, <3>2, WaitKeepsPlaces
  <2>3. j < x.i \/ j = x.i \/ j > x.i
    BY <1>2
  <2>4. InFlight(g) \subseteq {x.req} /\ (j > x.i => InFlight(g) = {})
    BY <2>1, <2>3 DEF Phase1InPlace, Prepared
  <2>5. j <= x.i /\ ~y.abort => Prepared(g, x.req)
    BY <1>1, <1>2, <2>1 DEF Phase1InPlace
  <2>6. CASE y.pc = "phase1"
    <3>1. y.i = x.i + 1 /\ (j < y.i => j <= x.i) /\ (j >= y.i => j > x.i) /\ (j > y.i => j > x.i)
      BY <1>1, <1>2, <2>6
    <3>2. j < y.i /\ ~y.abort => Prepared(g, y.req)'
      BY <1>1, <1>3, <2>2, <2>5, <3>1
    <3>3. (j > y.i => InFlight(g)' = {}) /\ (j = y.i => InFlight(g)' = {})
      BY <2>2, <2>4, <3>1
    <3>. QED
      BY <1>0, <1>1, <1>3, <2>2, <2>4, <2>6, <3>2, <3>3 DEF Phase1InPlace
  <2>7. CASE y.pc = "phase2"
    <3>1. x.i = Redundancy /\ y.i = 1 /\ j <= x.i /\ ~(j < y.i)
      BY <1>1, <1>2, <2>7
    <3>2. ~y.abort => Prepared(g, y.req)'
      BY <1>1, <1>3, <2>2, <2>5, <3>1
    <3>3. Prepared(g, y.req)' => Deciding(g, y.req)'
      BY DEF Prepared, Deciding
    <3>. QED
      BY <1>0, <1>1, <1>3, <2>2, <2>4, <2>7, <3>1, <3>2, <3>3 DEF Phase2InPlace
  <2>. QED
    BY <2>6, <2>7
<1>. QED
  BY <1>1, <1>3, <1>4 DEF ReplicasInPlace, Replica

\* An acknowledgement of phase 2: the replica has dealt with everything it was sent.
LEMMA AckKeepsPlaces ==
  ASSUME SystemInv, TransactionInv, NEW t \in Conns, NEW y \in LeadRecords,
         Moves(t, y), Acks(t, y)
  PROVE  /\ ReplicasInPlace(t)'
         /\ y.pc = "done" => \A g \in Replicas(lead[t].req.key) : InFlight(g)' = {}
         /\ y.pc = "phase2" /\ ~y.abort => y.req \in agreed'
<1>. DEFINE x == lead[t]
<1>0. /\ ServerInv /\ lead' = [lead EXCEPT ![t] = y] /\ WalkInPlace(t, y)
      /\ conn'[t].st = "closed" /\ (Disconnect(t) \/ UNCHANGED serverVars)
      /\ lead \in [Conns -> LeadRecords] /\ x.pc = "phase2" /\ InTransaction(t)
      /\ agreed \subseteq agreed'
  BY DEF SystemInv, Moves, Acks, SystemTypeOK, LeadRecords, InTransaction
<1>1. /\ y.req = x.req /\ y.abort = x.abort /\ conn[t].st = "answered"
      /\ x.i # Redundancy => y.pc = "phase2" /\ y.i = x.i + 1
      /\ x.i = Redundancy => y.pc = "done"
  BY DEF Acks
<1>2. x.req.key \in Keys /\ x.i \in 1..Redundancy /\ ReplicasInPlace(t) /\ Redundancy \in Nat
  BY <1>0, TransactionFacts, SystemAssumption DEF TransactionInv
<1>3. lead'[t] = y
  BY <1>0
<1>4. ASSUME NEW j \in 1..Redundancy, NEW g, g = Replica(x.req.key, j)
      PROVE  /\ j <= x.i => InFlight(g)' = {}
             /\ y.pc = "phase2" => Phase2InPlace(lead[t], conn[t], j, g)'
  <2>1. Phase2InPlace(x, conn[t], j, g) /\ g \in Followers
    BY <1>0, <1>2, <1>4, ReplicaFacts DEF ReplicasInPlace
  <2>2. /\ InFlight(g)' = InFlight(g)
        /\ Prepared(g, x.req) => Prepared(g, x.req)'
    <3>1. \A r : Prepared(g, r) => Prepared(g, r)'
      BY <1>0, <2>1, WaitKeepsPlaces
    <3>2. lead'[t].req = x.req
      BY <1>1, <1>3
    <3>. QED
      BY <1>0, <2>1, <3>1, <3>2, WaitKeepsPlaces
  <2>3. j <= x.i => InFlight(g) = {}
    BY <1>1, <1>2, <2>1 DEF Phase2InPlace
  <2>4. CASE y.pc = "phase2"
    <3>1. /\ y.i = x.i + 1 /\ (j < y.i => j <= x.i) /\ (j = y.i => j > x.i) /\ (j > y.i => j > x.i)
      BY <1>1, <1>2, <2>4
    <3>2. j > x.i /\ ~y.abort => Prepared(g, y.req)'
      BY <1>1, <1>3, <2>1, <2>2 DEF Phase2InPlace
    <3>3. Prepared(g, y.req)' => Deciding(g, y.req)'
      BY DEF Prepared, Deciding
    <3>4. y.abort => InFlight(g) \subseteq {y.req, Abort}
      BY <1>1, <2>1 DEF Phase2InPlace
    <3>. QED
      BY <1>0, <1>1, <1>3, <2>2, <2>3, <2>4, <3>1, <3>2, <3>3, <3>4 DEF Phase2InPlace
  <2>. QED
    BY <2>2, <2>3, <2>4
<1>5. y.pc = "done" => \A g \in Replicas(x.req.key) : InFlight(g)' = {}
  BY <1>1, <1>2, <1>4 DEF Replicas
<1>6. y.pc = "phase2" /\ ~y.abort => y.req \in agreed'
  BY <1>0, <1>1 DEF TransactionInv
<1>7. y.pc # "phase1"
  BY <1>1
<1>. QED
  BY <1>1, <1>3, <1>4, <1>5, <1>6, <1>7 DEF ReplicasInPlace, Replica

\* The step of a thread that is not at the end of a message's way.
LEMMA MoveKeepsTransaction ==
  ASSUME SystemInv, Orderly', TransactionInv, NEW t \in Conns, NEW y \in LeadRecords, Moves(t, y)
  PROVE  TransactionInv'
<1>0. /\ ServerInv /\ lead' = [lead EXCEPT ![t] = y] /\ WalkInPlace(t, y)
      /\ conn'[t].st = "closed" /\ (Disconnect(t) \/ UNCHANGED serverVars)
      /\ lead \in [Conns -> LeadRecords] /\ agreed \subseteq agreed'
      /\ Asks(t, y) \/ Counts(t, y) \/ Acks(t, y) \/ Reads(t, y) \/ Ends(t, y)
  BY DEF SystemInv, Moves, SystemTypeOK, LeadRecords
<1>1. lead'[t] = y /\ \A u \in Conns : u # t => lead'[u] = lead[u]
  BY <1>0
<1>2. \A g \in Followers : InFlight(g)' = InFlight(g) /\ up' = up /\ AwaitedIsLast(g)'
  BY <1>0, WaitKeepsPlaces DEF TransactionInv
<1>3. ASSUME NEW u \in Conns, u # t, InTransaction(u)'
      PROVE  /\ InTransaction(u) /\ ReplicasInPlace(u)'
             /\ lead'[u].pc = "phase2" /\ ~lead'[u].abort => lead'[u].req \in agreed'
  <2>1. InTransaction(u)
    BY <1>1, <1>3 DEF InTransaction
  <2>2. ReplicasInPlace(u)'
    BY <1>0, <1>1, <1>3, <2>1, WaitKeepsOthers
  <2>. QED
    BY <1>0, <1>1, <1>3, <2>1, <2>2 DEF TransactionInv
<1>4. /\ y.pc \in {"phase1", "phase2"} => /\ ReplicasInPlace(t)'
                                          /\ y.pc = "phase2" /\ ~y.abort => y.req \in agreed'
      /\ \A g \in Followers :
           (\A u \in Conns : InTransaction(u)' => g \notin Replicas(lead'[u].req.key)) =>
             InFlight(g)' = {}
  <2>1. ASSUME InTransaction(t) => y.pc \in {"phase1", "phase2"} /\ y.req = lead[t].req,
               NEW g \in Followers,
               \A u \in Conns : InTransaction(u)' => g \notin Replicas(lead'[u].req.key)
        PROVE  InFlight(g)' = {}
    <3>1. ASSUME NEW u \in Conns, InTransaction(u) PROVE g \notin Replicas(lead[u].req.key)
      <4>1. CASE u = t
        BY <1>1, <2>1, <3>1, <4>1 DEF InTransaction
      <4>2. CASE u # t
        BY <1>1, <2>1, <3>1, <4>2 DEF InTransaction
      <4>. QED
        BY <4>1, <4>2
    <3>. QED
      BY <1>2, <3>1 DEF TransactionInv
  <2>2. CASE Asks(t, y)
    <3>1. ~InTransaction(t) /\ y.pc # "phase2"
      BY <2>2 DEF Asks, InTransaction
    <3>2. y.pc = "phase1" => ReplicasInPlace(t)'
      BY <2>2, AskKeepsPlaces
    <3>. QED
      BY <2>1, <3>1, <3>2
  <2>3. CASE Counts(t, y)
    <3>1. y.pc \in {"phase1", "phase2"} /\ y.req = lead[t].req
      BY <2>3 DEF Counts
    <3>2. ReplicasInPlace(t)' /\ (y.pc = "phase2" /\ ~y.abort => y.req \in agreed')
      BY <2>3, CountKeepsPlaces
    <3>. QED
      BY <2>1, <3>1, <3>2
  <2>4. CASE Acks(t, y)
    <3>1. y.pc \in {"phase2", "done"} /\ y.req = lead[t].req /\ InTransaction(t)
      BY <2>4 DEF Acks, InTransaction
    <3>2. /\ ReplicasInPlace(t)' /\ (y.pc = "phase2" /\ ~y.abort => y.req \in agreed')
          /\ y.pc = "done" => \A g \in Replicas(lead[t].req.key) : InFlight(g)' = {}
      BY <2>4, AckKeepsPlaces
    <3>3. ASSUME y.pc = "done", NEW g \in Followers PROVE InFlight(g)' = {}
      <4>1. CASE g \in Replicas(lead[t].req.key)
        BY <3>2, <3>3, <4>1
      <4>2. CASE g \notin Replicas(lead[t].req.key)
        BY <1>2, <3>1, <4>2, OneTransaction DEF TransactionInv
      <4>. QED
        BY <4>1, <4>2
    <3>. QED
      BY <2>1, <3>1, <3>2, <3>3
  <2>5. CASE Reads(t, y) \/ Ends(t, y)
    <3>1. ~InTransaction(t) /\ y.pc \notin {"phase1", "phase2"}
      BY <2>5 DEF Reads, Ends, InTransaction
    <3>. QED
      BY <2>1, <3>1
  <2>. QED
    BY <1>0, <2>2, <2>3, <2>4, <2>5
<1>5. crashes' = 0 => \A g \in Followers : up'[g]
  <2>1. crashes' = crashes
    BY <1>0 DEF Disconnect, server, serverVars
  <2>. QED
    BY <1>2, <2>1 DEF TransactionInv
<1>7. ASSUME NEW u \in Conns, NEW v \in Conns, Writing(u)', Writing(v)' PROVE u = v
  <2>1. \A x \in Conns : x # t => (Writing(x)' <=> Writing(x))
    BY <1>1 DEF Writing
  <2>2. CASE Asks(t, y)
    <3>1. Writing(t)' => \A x \in Conns : ~Writing(x)
      BY <1>1, <2>2 DEF Asks, Orderly, Writing
    <3>. QED
      BY <1>7, <2>1, <3>1 DEF TransactionInv
  <2>3. CASE Counts(t, y) \/ Acks(t, y) \/ Reads(t, y) \/ Ends(t, y)
    <3>1. Writing(t)' => Writing(t)
      BY <1>1, <2>3 DEF Counts, Acks, Reads, Ends, Writing
    <3>. QED
      BY <1>7, <2>1, <3>1 DEF TransactionInv
  <2>. QED
    BY <1>0, <2>2, <2>3
<1>6. ASSUME NEW u \in Conns, InTransaction(u)'
      PROVE  /\ ReplicasInPlace(u)'
             /\ lead'[u].pc = "phase2" /\ ~lead'[u].abort => lead'[u].req \in agreed'
  <2>1. CASE u = t
    BY <1>1, <1>4, <1>6, <2>1 DEF InTransaction
  <2>2. CASE u # t
    BY <1>3, <1>6, <2>2
  <2>. QED
    BY <2>1, <2>2
<1>. QED
  BY <1>2, <1>4, <1>5, <1>6, <1>7 DEF TransactionInv, Replicas, Replica

\* Together: the place of the replicas is inductive.
LEMMA WriterNextInv ==
  ASSUME SystemInv, WriterInv, SystemNext
  PROVE  WriterInv'
<1>. SUFFICES ASSUME Orderly' PROVE TransactionInv'
  BY DEF WriterInv
<1>0. Orderly /\ TransactionInv
  BY OrderlyBack DEF WriterInv
<1>1. ASSUME NEW t \in Conns, ClientRequest(t) \/ ThreadStep(t) PROVE TransactionInv'
  <2>1. CASE Sends(t)
    BY <1>0, <2>1, SendKeepsTransaction
  <2>2. CASE Retries(t)
    BY <1>0, <2>2, RetryKeepsTransaction
  <2>3. ASSUME NEW y \in LeadRecords, Moves(t, y) PROVE TransactionInv'
    BY <1>0, <2>3, MoveKeepsTransaction
  <2>. QED
    BY <1>1, <2>1, <2>2, <2>3, ThreadStepShape
<1>2. ASSUME NEW f \in Followers, FollowerStep(f), UNCHANGED leader PROVE TransactionInv'
  BY <1>0, <1>2, FollowerKeepsTransaction DEF leader
<1>. QED
  BY <1>1, <1>2 DEF SystemNext

\* It survives a step that changes nothing.
LEMMA WriterStutters ==
  ASSUME WriterInv, UNCHANGED vars
  PROVE  WriterInv'
<1>0. /\ UNCHANGED <<lead, agreed, conn, wq, work, up, pending, log, crossed, strayed, crashes>>
      /\ Orderly' <=> Orderly
  BY DEF vars, serverVars, server, leader, Orderly
<1>1. \A f \in Followers : InFlight(f)' = InFlight(f) /\ (AwaitedIsLast(f)' <=> AwaitedIsLast(f))
  BY <1>0 DEF InFlight, AwaitedIsLast
<1>2. ASSUME NEW t \in Conns, ReplicasInPlace(t) PROVE ReplicasInPlace(t)'
  <2>1. ASSUME NEW j \in 1..Redundancy, NEW g, g = Replica(lead[t].req.key, j)
        PROVE  /\ lead[t].pc = "phase1" => Phase1InPlace(lead[t], conn[t], j, g)'
               /\ lead[t].pc = "phase2" => Phase2InPlace(lead[t], conn[t], j, g)'
    <3>1. /\ lead[t].pc = "phase1" => Phase1InPlace(lead[t], conn[t], j, g)
          /\ lead[t].pc = "phase2" => Phase2InPlace(lead[t], conn[t], j, g)
      BY <1>2, <2>1 DEF ReplicasInPlace
    <3>2. InFlight(g)' = InFlight(g)
      BY <1>0 DEF InFlight
    <3>3. Prepared(g, lead[t].req) => Prepared(g, lead[t].req)'
      BY <1>0, <3>2 DEF Prepared, LastEntry
    <3>4. Deciding(g, lead[t].req) => Deciding(g, lead[t].req)'
      BY <1>0, <3>2 DEF Deciding, Clearing, LastEntry
    <3>5. lead[t].pc = "phase1" => Phase1InPlace(lead[t], conn[t], j, g)'
      BY <1>0, <3>1, <3>2, <3>3 DEF Phase1InPlace
    <3>6. lead[t].pc = "phase2" => Phase2InPlace(lead[t], conn[t], j, g)'
      BY <1>0, <3>1, <3>2, <3>3, <3>4 DEF Phase2InPlace
    <3>. QED
      BY <3>5, <3>6
  <2>. QED
    BY <1>0, <2>1 DEF ReplicasInPlace, Replica
<1>3. (\A f \in Followers :
        (\A t \in Conns : InTransaction(t) => f \notin Replicas(lead[t].req.key)) =>
          InFlight(f) = {}) =>
      (\A f \in Followers :
        (\A t \in Conns : InTransaction(t) => f \notin Replicas(lead[t].req.key)) =>
          InFlight(f) = {})'
  BY <1>0, <1>1 DEF InTransaction, Replicas, Replica
<1>. QED
  BY <1>0, <1>1, <1>2, <1>3 DEF WriterInv, TransactionInv, InTransaction, Writing

\* As long as the system is orderly, the place of every replica in the transaction:
\* an inductive invariant.
THEOREM WriterInvariant == SystemSpec => []WriterInv
<1>1. Init => WriterInv
  BY TransactionInit DEF WriterInv
<1>2. SystemInv /\ WriterInv /\ [SystemNext]_vars => WriterInv'
  BY WriterNextInv, WriterStutters
<1>. QED
  BY <1>1, <1>2, SystemInvariant, PTL DEF SystemSpec

\* As long as the system is orderly, a follower's store only ever changes to what a
\* request put there that every replica of its key voted for, whatever is lost, late
\* or repeated and whoever crashes (tpcleader.c:195-258, kvserver.c:160-181).
THEOREM WritesAreCommitted == SystemSpec => OnlyCommittedWrites
<1>1. SystemInv /\ WriterInv /\ SystemNext =>
        \A f \in Followers, k \in Keys :
          Orderly' /\ store'[f][k] # store[f][k] =>
            Request(IF store'[f][k] = NULL THEN "DELREQ" ELSE "PUTREQ", k, store'[f][k]) \in agreed
  <2>. SUFFICES ASSUME SystemInv, WriterInv, SystemNext, NEW g \in Followers, NEW k \in Keys,
                       Orderly', store'[g][k] # store[g][k]
                PROVE  Request(IF store'[g][k] = NULL THEN "DELREQ" ELSE "PUTREQ", k, store'[g][k])
                         \in agreed
    OBVIOUS
  <2>0. /\ TransactionInv /\ ServerInv /\ Orderly
        /\ store \in [Followers -> [Keys -> Vals \cup {NULL, Wild}]]
    BY OrderlyBack DEF WriterInv, SystemInv, ServerInv, TypeOK
  <2>1. ASSUME NEW t \in Conns, ClientRequest(t) \/ ThreadStep(t) PROVE store' = store
    <3>1. CASE Sends(t)
      BY <3>1 DEF Sends, Connect, server
    <3>2. CASE Retries(t)
      BY <3>2 DEF Retries, Disconnect, server
    <3>3. ASSUME NEW y \in LeadRecords, Moves(t, y) PROVE store' = store
      BY <3>3 DEF Moves, Disconnect, server, serverVars
    <3>. QED
      BY <2>1, <3>1, <3>2, <3>3, ThreadStepShape
  <2>2. PICK f \in Followers, w \in Workers : Apply(f, w)
    BY <2>0, <2>1, OnlyApplyStores DEF SystemNext
  <2>3. PICK t \in Conns :
           /\ lead[t].req \in agreed /\ lead[t].req \in Writes /\ lead[t].req.key \in Keys
           /\ store' = [store EXCEPT ![f] =
                IF lead[t].req.key \in BadKeys THEN store[f]
                ELSE [store[f] EXCEPT ![lead[t].req.key] = lead[t].req.val]]
    BY <2>0, <2>2, ApplyStores
  <2>4. g = f /\ lead[t].req.key \notin BadKeys /\ k = lead[t].req.key /\ store'[g][k] = lead[t].req.val
    BY <2>0, <2>3
  <2>5. lead[t].req = Request(lead[t].req.type, k, store'[g][k])
    BY <2>3, <2>4, RequestFacts, NullFacts
  <2>6. lead[t].req.type = IF store'[g][k] = NULL THEN "DELREQ" ELSE "PUTREQ"
    BY <2>3, <2>4, RequestFacts, NullFacts
  <2>. QED
    BY <2>3, <2>5, <2>6
<1>2. SystemInv /\ WriterInv /\ [SystemNext]_vars =>
        [\A f \in Followers, k \in Keys :
          Orderly' /\ store'[f][k] # store[f][k] =>
            Request(IF store'[f][k] = NULL THEN "DELREQ" ELSE "PUTREQ", k, store'[f][k]) \in agreed]_vars
  BY <1>1
<1>. QED
  BY <1>2, SystemInvariant, WriterInvariant, PTL DEF OnlyCommittedWrites, SystemSpec

-----------------------------------------------------------------------------
(* As long as the system is orderly: what a restart finds *)

\* If p is a PUT whose operands were set, e is the log entry of that PUT.
LoggedAs(p, e) == p.msg = "PUTREQ" /\ p.key # Wild => e \in PutRequests /\ p = PendingOf(e)

\* f has no PUT to wait for the decision on, and would rebuild none.
NoPut(f) ==
  /\ "unlogged" \notin strayed[f] => LastEntry(f) \notin PutRequests
  /\ up[f] => ~(pending[f].msg = "PUTREQ" /\ pending[f].key \in Keys)

\* A worker that is about to answer has done what its message asks for.
AnswerInPlace(f, w) ==
  LET x == work[f][w]
  IN  up[f] /\ x.pc = "reply" =>
        /\ x.req \in Decisions => pending[f].msg = "EMPTY"
        /\ x.req \in PutRequests => x.res = Vote

\* Between messages, and after a crash between messages, the log says what is
\* pending, if every message was logged.
PendingLogged(f) ==
  "unlogged" \notin strayed[f] /\ up[f] /\ (\A w \in Workers : work[f][w].req \notin LogEntries) =>
    LoggedAs(pending[f], LastEntry(f))
SavedLogged(f) ==
  "unlogged" \notin strayed[f] /\ ~up[f] /\ saved[f] # NULL => LoggedAs(saved[f], LastEntry(f))

\* The replicas without a PUT: all of a DELETE, which the follower may refuse and
\* still log, and in phase 2 those that have acknowledged.
NoPutInPlace(x, c, j, f) ==
  /\ x.req \in DelRequests => NoPut(f)
  /\ x.pc = "phase2" /\ (j < x.i \/ (j = x.i /\ c.st = "answered")) => NoPut(f)

RestoreInv ==
  /\ \A f \in Followers :
       PendingLogged(f) /\ SavedLogged(f) /\ \A w \in Workers : AnswerInPlace(f, w)
  /\ \A t \in Conns : InTransaction(t) =>
       \A j \in 1..Redundancy : NoPutInPlace(lead[t], conn[t], j, Replica(lead[t].req.key, j))
  /\ \A f \in Followers :
       (\A t \in Conns : InTransaction(t) => f \notin Replicas(lead[t].req.key)) => NoPut(f)

CrashInv == Orderly => RestoreInv

\* A restart finds a PUT pending only if the log ends with it.
LEMMA RestartLogged ==
  ASSUME ServerInv, NEW f \in Followers, Restart(f)
  PROVE  LoggedAs(pending'[f], LastEntry(f))
<1>0. TypeOK
  BY DEF ServerInv
<1>1. PICK p \in Rebuilt(LastEntry(f)) : pending' = [pending EXCEPT ![f] = p]
  BY DEF Restart
<1>2. pending'[f] = p
  BY <1>0, <1>1 DEF TypeOK
<1>3. LastEntry(f) \in LogEntries \cup {Torn, NULL}
  BY <1>0, LastEntryType
<1>4. CASE LastEntry(f) = NULL
  BY <1>1, <1>2, <1>4 DEF Rebuilt, Garbage, Pending, LoggedAs
<1>5. CASE LastEntry(f) # NULL
  <2>1. /\ LastEntry(f) \in LogEntries
        /\ LastEntry(f) \in Writes => p = PendingOf(LastEntry(f))
        /\ LastEntry(f) \in Decisions => p.msg = "EMPTY"
    BY <1>1, <1>3, <1>5, RebuiltFacts
  <2>2. CASE LastEntry(f) \in PutRequests
    BY <1>2, <2>1, <2>2 DEF LoggedAs, Writes
  <2>3. CASE LastEntry(f) \in DelRequests
    <3>1. p.msg = "DELREQ"
      BY <2>1, <2>3 DEF Writes, PendingOf, Pending, DelRequests, Request
    <3>. QED
      BY <1>2, <3>1 DEF LoggedAs
  <2>4. CASE LastEntry(f) \in Decisions
    BY <1>2, <2>1, <2>4 DEF LoggedAs
  <2>. QED
    BY <2>1, <2>2, <2>3, <2>4 DEF LogEntries
<1>. QED
  BY <1>4, <1>5

\* A follower without a PUT gets none unless it is sent one.
LEMMA NoPutStays ==
  ASSUME ServerInv, SingleInv, NEW f \in Followers, FollowerStep(f),
         strayed'[f] \cap {"mixed", "forgot"} = {},
         InFlight(f) \cap PutRequests = {}, NoPut(f)
  PROVE  NoPut(f)'
<1>0. TypeOK
  BY DEF ServerInv
<1>4. /\ "mixed" \notin strayed[f]
      /\ "unlogged" \notin strayed'[f] => "unlogged" \notin strayed[f]
  BY <1>0, StrayedFacts
<1>1. CASE Die(f)
  BY <1>1, <1>4, CrashFacts, SameLastEntry DEF NoPut
<1>2. CASE Restart(f)
  <2>1. LoggedAs(pending'[f], LastEntry(f)) /\ LastEntry(f)' = LastEntry(f)
    BY <1>2, RestartLogged, RestartFacts, SameLastEntry
  <2>2. "unlogged" \notin strayed[f]
    BY <1>2, RestartFacts
  <2>. QED
    BY <2>1, <2>2, NullFacts DEF NoPut, LoggedAs
<1>3. ASSUME NEW w \in Workers, WorkerStep(f, w), ~Die(f) PROVE NoPut(f)'
  <2>1. CASE Take(f, w) \/ ActGet(f, w) \/ Reply(f, w)
    <3>1. UNCHANGED <<up, pending, log>>
      BY <2>1, IdleStep
    <3>. QED
      BY <1>4, <3>1, SameLastEntry DEF NoPut
  <2>2. CASE work[f][w].req \in InFlight(f)
    <3>0. /\ work[f][w].req \notin PutRequests /\ work[f][w].req \in LogEntries
          /\ work[f][w].req \in Requests /\ work[f][w].req.type # "PUTREQ"
      BY <2>2, RequestFacts, NullFacts DEF InFlight
    <3>1. HandlingInPlace(f, w)
      BY <1>4, <3>0, BusyFacts, SerialFacts
    <3>2. up[f] => pending[f] \in PendingRecords
      BY <1>0, NullFacts DEF TypeOK
    <3>3. ASSUME UNCHANGED <<up, pending>>, LastEntry(f)' = LastEntry(f) \/ LastEntry(f)' \notin PutRequests
          PROVE  NoPut(f)'
      BY <1>4, <3>3 DEF NoPut
    <3>4. CASE LogOpen(f, w)
      <4>1. UNCHANGED <<up, pending>>
        BY <3>4 DEF LogOpen
      <4>. QED
        BY <3>3, <3>4, <4>1, LogOpenFacts, NullFacts DEF Writes
    <3>5. CASE LogWrite(f, w)
      <4>1. UNCHANGED <<up, pending>>
        BY <3>5 DEF LogWrite
      <4>. QED
        BY <3>0, <3>3, <3>5, <4>1, LogWriteFacts
    <3>6. CASE ActCommit(f, w) \/ Apply(f, w) \/ ActAbort(f, w)
      <4>1. UNCHANGED <<up, pending, log>>
        BY <3>6 DEF ActCommit, Apply, ActAbort, server
      <4>. QED
        BY <3>3, <4>1, SameLastEntry
    <3>7. CASE ActPut(f, w)
      BY <3>0, <3>7 DEF ActPut, Handles
    <3>8. ASSUME up[f], log' = log, up' = up, pending'[f].msg # "PUTREQ" \/ pending'[f].key \notin Keys
          PROVE  NoPut(f)'
      BY <1>4, <3>8, SameLastEntry DEF NoPut
    <3>9. CASE ActDel(f, w)
      <4>1. up[f] /\ log' = log /\ up' = up
        BY <3>9 DEF ActDel, Handles, At
      <4>2. pending' = pending \/ pending' = [pending EXCEPT ![f].msg = "DELREQ"]
        BY <3>9 DEF ActDel
      <4>3. CASE pending' = [pending EXCEPT ![f].msg = "DELREQ"]
        <5>1. pending'[f].msg = "DELREQ"
          BY <1>0, <3>2, <4>1, <4>3 DEF TypeOK, PendingRecords
        <5>. QED
          BY <3>8, <4>1, <5>1
      <4>. QED
        BY <3>3, <4>1, <4>2, <4>3, SameLastEntry
    <3>10. CASE SetKey(f, w) \/ SetVal(f, w)
      <4>1. /\ up[f] /\ log' = log /\ up' = up /\ work[f][w].pc \in {"setkey", "setval"}
            /\ \/ pending' = [pending EXCEPT ![f].key = work[f][w].req.key]
               \/ pending' = [pending EXCEPT ![f].val = work[f][w].req.val]
        BY <3>10 DEF SetKey, SetVal, At
      <4>2. pending'[f].msg = pending[f].msg
        BY <1>0, <3>2, <4>1 DEF TypeOK, PendingRecords
      <4>3. pending[f].msg # "PUTREQ"
        BY <3>0, <3>1, <4>1 DEF HandlingInPlace
      <4>. QED
        BY <3>8, <4>1, <4>2, <4>3
    <3>11. CASE ApplyFaults(f, w)
      BY <1>3, <3>11 DEF ApplyFaults
    <3>12. CASE ClrKey(f, w) \/ ClrVal(f, w) \/ ClrMsg(f, w)
      <4>1. /\ up[f] /\ log' = log /\ up' = up
            /\ \/ pending' = [pending EXCEPT ![f].key = NULL]
               \/ pending' = [pending EXCEPT ![f].val = NULL]
               \/ pending' = [pending EXCEPT ![f].msg = "EMPTY"]
        BY <3>12 DEF ClrKey, ClrVal, ClrMsg, At
      <4>2. \/ pending'[f].key = NULL \/ pending'[f].msg = "EMPTY"
            \/ pending'[f].msg = pending[f].msg /\ pending'[f].key = pending[f].key
        BY <1>0, <3>2, <4>1 DEF TypeOK, PendingRecords
      <4>. QED
        BY <3>8, <4>1, <4>2, NullFacts DEF NoPut
    <3>. QED
      BY <1>3, <2>1, <3>4, <3>5, <3>6, <3>7, <3>9, <3>10, <3>11, <3>12 DEF WorkerStep
  <2>. QED
    BY <1>3, <2>1, <2>2, WorkerIsAt
<1>. QED
  BY <1>1, <1>2, <1>3 DEF FollowerStep, Crash

\* A worker has done what it answers.
LEMMA AnswerStays ==
  ASSUME ServerInv, ServerInv', SingleInv, NEW f \in Followers, FollowerStep(f),
         "mixed" \notin strayed[f], NEW w \in Workers, AnswerInPlace(f, w)
  PROVE  AnswerInPlace(f, w)'
<1>0. TypeOK /\ WorkerInPlace(f, w)
  BY DEF ServerInv, WorkersInPlace
<1>1. CASE Die(f)
  BY <1>1, CrashFacts DEF AnswerInPlace
<1>2. CASE Restart(f)
  <2>1. work'[f][w].pc # "reply"
    BY <1>0, <1>2, RestartFacts DEF WorkerInPlace
  <2>. QED
    BY <2>1 DEF AnswerInPlace
<1>3. CASE WorkerStep(f, w) /\ ~Die(f)
  <2>. SUFFICES ASSUME up'[f], work'[f][w].pc = "reply"
                PROVE  /\ work'[f][w].req \in Decisions => pending'[f].msg = "EMPTY"
                       /\ work'[f][w].req \in PutRequests => work'[f][w].res = Vote
    BY DEF AnswerInPlace
  <2>0. \A label : label # "reply" => ~Goto(f, w, label)
    BY <1>0, GotoFields
  <2>1. work[f][w].pc # "idle" => work[f][w].req \in Requests
    BY <1>0 DEF WorkerInPlace
  <2>2. /\ \A r \in Decisions : r.type \in {"COMMIT", "ABORT"}
        /\ \A r \in PutRequests : r.type = "PUTREQ"
        /\ \A r \in Writes : r.type \in {"PUTREQ", "DELREQ"}
    BY DEF Decisions, PutRequests, DelRequests, Writes, Request
  <2>3. CASE Take(f, w)
    BY <1>0, <2>3 DEF Take, TypeOK
  <2>4. CASE LogOpen(f, w) \/ LogWrite(f, w) \/ ActPut(f, w) \/ SetKey(f, w)
    BY <2>0, <2>4 DEF LogOpen, LogWrite, ActPut, SetKey
  <2>5. CASE Apply(f, w) \/ ActAbort(f, w) \/ ClrKey(f, w) \/ ClrVal(f, w)
    BY <2>0, <2>5 DEF Apply, ActAbort, ClrKey, ClrVal
  <2>6. CASE ActDel(f, w)
    <3>1. work[f][w].req.type = "DELREQ" /\ Answer(f, w, Error)
      BY <2>0, <2>6 DEF ActDel, Handles
    <3>. QED
      BY <1>0, <2>2, <3>1, AnswerFields
  <2>7. CASE SetVal(f, w)
    <3>1. work[f][w].req \in Writes /\ Answer(f, w, Vote)
      BY <1>0, <2>7 DEF SetVal, At, WorkerInPlace
    <3>2. work'[f][w].req \in Writes /\ work'[f][w].res = Vote
      BY <1>0, <3>1, AnswerFields
    <3>. QED
      BY <2>2, <3>2
  <2>8. CASE ActCommit(f, w)
    <3>1. /\ work[f][w].req.type = "COMMIT" /\ Answer(f, w, Ack) /\ pending' = pending
          /\ pending[f].msg = "EMPTY"
      BY <2>0, <2>8 DEF ActCommit, Handles, server
    <3>2. work'[f][w].req.type = "COMMIT"
      BY <1>0, <3>1, AnswerFields
    <3>. QED
      BY <2>2, <3>1, <3>2
  <2>9. CASE ApplyFaults(f, w)
    BY <1>3, <2>9 DEF ApplyFaults
  <2>10. CASE ClrMsg(f, w)
    <3>1. /\ work[f][w].req \in Decisions /\ Answer(f, w, Ack) /\ up[f]
          /\ pending' = [pending EXCEPT ![f].msg = "EMPTY"]
      BY <1>0, <2>10 DEF ClrMsg, At, WorkerInPlace
    <3>2. pending[f] \in PendingRecords
      BY <1>0, <3>1, NullFacts DEF TypeOK
    <3>3. pending'[f].msg = "EMPTY"
      BY <1>0, <3>1, <3>2 DEF TypeOK, PendingRecords
    <3>4. work'[f][w].req \in Decisions
      BY <1>0, <3>1, AnswerFields
    <3>. QED
      BY <2>2, <3>3, <3>4
  <2>11. CASE ActGet(f, w)
    <3>1. work'[f][w].req = work[f][w].req /\ work[f][w].req.type = "GETREQ"
      BY <1>0, <2>11, AnswerFields DEF ActGet, Handles
    <3>. QED
      BY <2>2, <3>1
  <2>12. CASE Reply(f, w)
    BY <1>0, <2>12 DEF Reply, TypeOK, Idle
  <2>. QED
    BY <1>3, <2>3, <2>4, <2>5, <2>6, <2>7, <2>8, <2>9, <2>10, <2>11, <2>12 DEF WorkerStep
<1>4. ASSUME NEW v \in Workers, v # w, WorkerStep(f, v), ~Die(f) PROVE AnswerInPlace(f, w)'
  <2>1. work'[f][w] = work[f][w] \/ ~up'[f]
    BY <1>4, BusyMoves
  <2>2. CASE Busy(f, w)
    <3>1. ~Busy(f, v)
      BY <1>4, <2>2, SerialFacts, BusyFacts
    <3>2. UNCHANGED <<up, pending>>
      BY <1>4, <3>1, IdlerSteps, IdleStep
    <3>. QED
      BY <2>1, <3>2 DEF AnswerInPlace
  <2>3. CASE ~Busy(f, w)
    <3>1. work[f][w].req \notin LogEntries
      BY <2>3, BusyFacts
    <3>. QED
      BY <2>1, <3>1 DEF AnswerInPlace, LogEntries
  <2>. QED
    BY <2>2, <2>3
<1>. QED
  BY <1>1, <1>2, <1>3, <1>4 DEF FollowerStep, Crash

\* A step of a follower that does not end the process leaves it running.
LEMMA StillUp ==
  ASSUME ServerInv, NEW f \in Followers, FollowerStep(f)
  PROVE  (up[f] /\ Die(f)) \/ up'[f]
<1>0. TypeOK
  BY DEF ServerInv
<1>1. CASE Crash(f)
  BY <1>1 DEF Crash
<1>2. CASE Restart(f)
  BY <1>0, <1>2 DEF Restart, TypeOK
<1>3. ASSUME NEW w \in Workers, WorkerStep(f, w) PROVE (up[f] /\ Die(f)) \/ up'[f]
  <2>1. CASE Take(f, w) \/ LogOpen(f, w) \/ LogWrite(f, w)
    BY <2>1 DEF Take, LogOpen, LogWrite, At, server
  <2>2. CASE ActPut(f, w) \/ ActDel(f, w) \/ SetKey(f, w) \/ SetVal(f, w)
    BY <2>2 DEF ActPut, ActDel, SetKey, SetVal, Handles, At
  <2>3. CASE ActCommit(f, w) \/ ActAbort(f, w) \/ ActGet(f, w) \/ Reply(f, w)
    BY <2>3 DEF ActCommit, ActAbort, ActGet, Reply, Handles, At, server
  <2>4. CASE ClrKey(f, w) \/ ClrVal(f, w) \/ ClrMsg(f, w) \/ Apply(f, w) \/ ApplyFaults(f, w)
    BY <2>4 DEF ClrKey, ClrVal, ClrMsg, Apply, ApplyFaults, At
  <2>. QED
    BY <1>3, <2>1, <2>2, <2>3, <2>4 DEF WorkerStep
<1>. QED
  BY <1>1, <1>2, <1>3 DEF FollowerStep

\* Between messages the log says what is pending.
LEMMA PendingLoggedStays ==
  ASSUME ServerInv, ServerInv', SingleInv, NEW f \in Followers, FollowerStep(f),
         strayed'[f] \cap {"mixed", "forgot"} = {},
         PendingLogged(f), \A w \in Workers : AnswerInPlace(f, w),
         \A w \in Workers : work[f][w].req \in DelRequests => NoPut(f)
  PROVE  PendingLogged(f)'
<1>0. TypeOK
  BY DEF ServerInv
<1>. SUFFICES ASSUME "unlogged" \notin strayed'[f],
                     up'[f], \A w \in Workers : work'[f][w].req \notin LogEntries
              PROVE  LoggedAs(pending'[f], LastEntry(f)')
  BY DEF PendingLogged
<1>4. "mixed" \notin strayed[f] /\ "unlogged" \notin strayed[f]
  BY <1>0, StrayedFacts
<1>1. CASE Die(f)
  BY <1>1, CrashFacts
<1>2. CASE Restart(f)
  BY <1>2, RestartLogged, RestartFacts, SameLastEntry
<1>3. ASSUME NEW w \in Workers, WorkerStep(f, w), ~Die(f)
      PROVE  LoggedAs(pending'[f], LastEntry(f)')
  <2>0. \A v \in Workers : v # w => work[f][v].req \notin LogEntries
    BY <1>3, BusyMoves
  <2>1. WorkerInPlace(f, w) /\ AnswerInPlace(f, w)
    BY DEF ServerInv, WorkersInPlace
  <2>2. CASE UNCHANGED <<up, pending, log>> /\ work[f][w].req \notin LogEntries
    BY <1>4, <2>0, <2>2, SameLastEntry DEF PendingLogged
  <2>3. CASE Take(f, w)
    <3>1. work[f][w].req = NULL
      BY <2>1, <2>3 DEF Take, At, WorkerInPlace
    <3>. QED
      BY <2>2, <2>3, <3>1, IdleStep, NullFacts
  <2>4. CASE ActGet(f, w)
    <3>1. work[f][w].req.type = "GETREQ" /\ work[f][w].req \in Requests
      BY <2>1, <2>4 DEF ActGet, Handles, At, WorkerInPlace
    <3>. QED
      BY <2>2, <2>4, <3>1, IdleStep, RequestFacts
  <2>5. CASE Reply(f, w)
    <3>1. /\ UNCHANGED <<up, pending, log>> /\ up[f] /\ work[f][w].pc = "reply"
          /\ LastEntry(f)' = LastEntry(f)
      <4>1. UNCHANGED <<up, pending, log>>
        BY <2>5, IdleStep
      <4>2. up[f] /\ work[f][w].pc = "reply"
        BY <2>5 DEF Reply, At
      <4>. QED
        BY <4>1, <4>2, SameLastEntry
    <3>. DEFINE r == work[f][w].req
                p == pending[f]
    <3>2. CASE r \notin LogEntries
      BY <2>2, <3>1, <3>2
    <3>6. r \in LogEntries => HandlingInPlace(f, w)
      BY <1>4, BusyFacts, SerialFacts
    <3>3. CASE r \in PutRequests
      <4>1. r \in LogEntries /\ LastEntry(f) = r
        BY <1>4, <3>1, <3>3, <3>6, NullFacts DEF HandlingInPlace, Writes
      <4>2. p = PendingOf(r)
        BY <2>1, <3>1, <3>3, <3>6, <4>1 DEF HandlingInPlace, AnswerInPlace
      <4>. QED
        BY <3>1, <3>3, <4>1, <4>2 DEF LoggedAs
    <3>4. CASE r \in DelRequests
      <4>1. Coherent(p) /\ p \in PendingRecords
        BY <1>0, <3>1, <3>4, <3>6, NullFacts DEF HandlingInPlace, TypeOK, LogEntries
      <4>2. NoPut(f)
        BY <3>4
      <4>3. ~(p.msg = "PUTREQ" /\ p.key # Wild)
        BY <3>1, <4>1, <4>2 DEF NoPut, Coherent, PendingRecords
      <4>. QED
        BY <3>1, <4>3 DEF LoggedAs
    <3>5. CASE r \in Decisions
      BY <2>1, <3>1, <3>5 DEF AnswerInPlace, LoggedAs
    <3>. QED
      BY <3>2, <3>3, <3>4, <3>5 DEF LogEntries
  <2>6. CASE ~(Take(f, w) \/ ActGet(f, w) \/ Reply(f, w))
    <3>1. work[f][w].req \in LogEntries
      BY <1>3, <2>6, WorkerIsAt DEF InFlight
    <3>2. Busy(f, w)'
      BY <1>3, <2>6, <3>1, BusyFacts, BusyMoves
    <3>3. work'[f][w].req \in Requests /\ work'[f][w].req.type # "GETREQ"
      BY <3>2 DEF ServerInv, WorkersInPlace, WorkerInPlace, Busy
    <3>. QED
      BY <3>3, RequestFacts
  <2>. QED
    BY <2>3, <2>4, <2>5, <2>6
<1>. QED
  BY <1>1, <1>2, <1>3 DEF FollowerStep, Crash

\* A crash between messages saves what the log says.
LEMMA SavedLoggedStays ==
  ASSUME ServerInv, NEW f \in Followers, FollowerStep(f), PendingLogged(f)
  PROVE  SavedLogged(f)'
<1>1. CASE up'[f]
  BY <1>1 DEF SavedLogged
<1>2. CASE up[f] /\ Die(f)
  <2>0. TypeOK
    BY DEF ServerInv
  <2>1. LastEntry(f)' = LastEntry(f) /\ strayed' = strayed
    BY <1>2, CrashFacts, SameLastEntry DEF Die
  <2>2. CASE \A w \in Workers : work[f][w].pc = "idle"
    <3>1. saved'[f] = pending[f]
      BY <1>2, <2>0, <2>2 DEF Die, TypeOK
    <3>2. \A w \in Workers : work[f][w].req = NULL
      BY <2>2 DEF ServerInv, WorkersInPlace, WorkerInPlace
    <3>. QED
      BY <1>2, <2>1, <3>1, <3>2, NullFacts DEF PendingLogged, SavedLogged
  <2>3. CASE ~(\A w \in Workers : work[f][w].pc = "idle")
    <3>1. saved'[f] = NULL
      BY <1>2, <2>0, <2>3 DEF Die, TypeOK
    <3>. QED
      BY <3>1 DEF SavedLogged
  <2>. QED
    BY <2>2, <2>3
<1>. QED
  BY <1>1, <1>2, StillUp

-----------------------------------------------------------------------------
(* The followers' logs over a transaction *)

\* What a replica may have in flight.
LEMMA InFlightOf ==
  ASSUME SystemInv, TransactionInv, NEW t \in Conns, InTransaction(t), NEW j \in 1..Redundancy,
         NEW f, f = Replica(lead[t].req.key, j)
  PROVE  /\ InFlight(f) \subseteq {lead[t].req} \cup Decisions
         /\ lead[t].pc = "phase2" /\ (j < lead[t].i \/ (j = lead[t].i /\ conn[t].st = "answered")) =>
              InFlight(f) = {}
<1>1. ReplicasInPlace(t) /\ lead[t].i \in 1..Redundancy /\ Redundancy \in Nat
  BY TransactionFacts, SystemAssumption DEF TransactionInv
<1>2. j < lead[t].i \/ j = lead[t].i \/ j > lead[t].i
  BY <1>1
<1>3. CASE lead[t].pc = "phase1"
  <2>1. Phase1InPlace(lead[t], conn[t], j, f)
    BY <1>1, <1>3 DEF ReplicasInPlace
  <2>. QED
    BY <1>2, <1>3, <2>1 DEF Phase1InPlace, Prepared
<1>4. CASE lead[t].pc = "phase2"
  <2>1. Phase2InPlace(lead[t], conn[t], j, f)
    BY <1>1, <1>4 DEF ReplicasInPlace
  <2>. QED
    BY <1>2, <1>4, <2>1, CommitFacts DEF Phase2InPlace, Prepared, Deciding
<1>. QED
  BY <1>3, <1>4 DEF InTransaction

\* A DELETE is only ever at followers without a PUT.
LEMMA DelFindsNoPut ==
  ASSUME SystemInv, TransactionInv, RestoreInv, NEW f \in Followers, NEW w \in Workers,
         work[f][w].req \in DelRequests
  PROVE  NoPut(f)
<1>1. work[f][w].req \in InFlight(f) /\ work[f][w].req \notin Decisions
  <2>1. work[f][w].req \in LogEntries
    BY DEF LogEntries
  <2>2. \A r \in DelRequests : r \notin Decisions
    BY DEF DelRequests, Decisions, Request
  <2>. QED
    BY <2>1, <2>2 DEF InFlight
<1>2. PICK t \in Conns : InTransaction(t) /\ f \in Replicas(lead[t].req.key)
  BY <1>1 DEF TransactionInv
<1>3. PICK j \in 1..Redundancy : f = Replica(lead[t].req.key, j)
  BY <1>2 DEF Replicas
<1>4. lead[t].req = work[f][w].req
  BY <1>1, <1>2, <1>3, InFlightOf
<1>5. NoPutInPlace(lead[t], conn[t], j, f)
  BY <1>2, <1>3 DEF RestoreInv
<1>. QED
  BY <1>4, <1>5 DEF NoPutInPlace

\* A follower that has acknowledged a decision has no PUT.
LEMMA AckedHasNoPut ==
  ASSUME ServerInv, SingleInv, NEW f \in Followers, "mixed" \notin strayed[f], NEW w \in Workers,
         Reply(f, w), AnswerInPlace(f, w), work[f][w].req \in Decisions
  PROVE  NoPut(f)'
<1>1. /\ UNCHANGED <<up, pending, log, strayed>> /\ up[f] /\ work[f][w].pc = "reply"
      /\ LastEntry(f)' = LastEntry(f)
  <2>1. UNCHANGED <<up, pending, log, strayed>>
    BY DEF Reply, server
  <2>2. up[f] /\ work[f][w].pc = "reply"
    BY DEF Reply, At
  <2>. QED
    BY <2>1, <2>2, SameLastEntry
<1>2. "unlogged" \notin strayed[f] => LastEntry(f) = work[f][w].req
  <2>1. work[f][w].req \in LogEntries
    BY DEF LogEntries
  <2>2. HandlingInPlace(f, w)
    BY <2>1, BusyFacts, SerialFacts
  <2>. QED
    BY <1>1, <2>1, <2>2, NullFacts DEF HandlingInPlace
<1>3. \A r \in Decisions : r \notin PutRequests
  BY DEF Decisions, PutRequests, Request
<1>. QED
  BY <1>1, <1>2, <1>3 DEF NoPut, AnswerInPlace

\* Followers keep their logs in order.
LEMMA FollowerKeepsRestore ==
  ASSUME SystemInv, Orderly, Orderly', TransactionInv, RestoreInv, NEW f \in Followers,
         FollowerStep(f), lead' = lead
  PROVE  RestoreInv'
<1>0. /\ ServerInv /\ SingleInv /\ TypeOK /\ ServerInv'
      /\ "mixed" \notin strayed[f] /\ strayed'[f] \cap {"mixed", "forgot"} = {}
  BY FollowerKeepsInv DEF SystemInv, Orderly, ServerInv
<1>1. ASSUME NEW g \in Followers, g # f
      PROVE  /\ up'[g] = up[g] /\ pending'[g] = pending[g] /\ saved'[g] = saved[g]
             /\ work'[g] = work[g] /\ LastEntry(g)' = LastEntry(g)
             /\ strayed'[g] = strayed[g]
  BY <1>0, <1>1, StepElsewhere, SameLastEntry
<1>2. ASSUME NEW g \in Followers
      PROVE  PendingLogged(g)' /\ SavedLogged(g)' /\ \A w \in Workers : AnswerInPlace(g, w)'
  <2>0. PendingLogged(g) /\ SavedLogged(g) /\ \A w \in Workers : AnswerInPlace(g, w)
    BY DEF RestoreInv
  <2>1. CASE g = f
    <3>1. \A w \in Workers : AnswerInPlace(f, w)'
      BY <1>0, <2>0, <2>1, AnswerStays
    <3>2. \A w \in Workers : work[f][w].req \in DelRequests => NoPut(f)
      BY DelFindsNoPut
    <3>3. PendingLogged(f)'
      BY <1>0, <2>0, <2>1, <3>2, PendingLoggedStays
    <3>4. SavedLogged(f)'
      BY <1>0, <2>0, <2>1, SavedLoggedStays
    <3>. QED
      BY <2>1, <3>1, <3>3, <3>4
  <2>2. CASE g # f
    BY <1>1, <2>0, <2>2 DEF PendingLogged, SavedLogged, AnswerInPlace
  <2>. QED
    BY <2>1, <2>2
<1>3. ASSUME NEW g \in Followers, NoPut(g), InFlight(g) \cap PutRequests = {} PROVE NoPut(g)'
  <2>1. CASE g = f
    BY <1>0, <1>3, <2>1, NoPutStays
  <2>2. CASE g # f
    BY <1>1, <1>3, <2>2 DEF NoPut
  <2>. QED
    BY <2>1, <2>2
<1>4. ASSUME NEW t \in Conns, InTransaction(t), NEW j \in 1..Redundancy,
             NEW g, g = Replica(lead[t].req.key, j)
      PROVE  NoPutInPlace(lead[t], conn[t], j, g)'
  <2>0. /\ g \in Followers /\ NoPutInPlace(lead[t], conn[t], j, g)
        /\ Target(t) = Replica(lead[t].req.key, lead[t].i)
        /\ InFlight(g) \subseteq {lead[t].req} \cup Decisions
        /\ lead[t].pc = "phase2" /\ (j < lead[t].i \/ (j = lead[t].i /\ conn[t].st = "answered")) =>
             InFlight(g) = {}
    BY <1>4, TransactionFacts, ReplicaFacts, InFlightOf DEF RestoreInv
  <2>1. lead[t].req \in DelRequests => NoPut(g)'
    <3>1. lead[t].req \in DelRequests => InFlight(g) \cap PutRequests = {}
      <4>1. \A r \in PutRequests : r \notin Decisions /\ r \notin DelRequests
        BY DEF PutRequests, DelRequests, Decisions, Request
      <4>. QED
        BY <2>0, <4>1
    <3>. QED
      BY <1>3, <2>0, <3>1 DEF NoPutInPlace
  <2>2. lead[t].pc = "phase2" /\ (j < lead[t].i \/ (j = lead[t].i /\ conn[t].st = "answered")) => NoPut(g)'
    BY <1>3, <2>0 DEF NoPutInPlace
  <2>3. ASSUME lead[t].pc = "phase2", j = lead[t].i, conn'[t].st = "answered" PROVE NoPut(g)'
    <3>1. CASE conn'[t] = conn[t]
      BY <2>2, <2>3, <3>1
    <3>2. ASSUME NEW w \in Workers, Reply(f, w), work[f][w].from = t, conn[t].to = f, conn[t].st = "open"
          PROVE  NoPut(g)'
      <4>1. g = f
        BY <1>4, <2>0, <2>3, <3>2 DEF SystemInv, LeadInPlace
      <4>2. work[f][w].req = Sent(lead[t])
        BY <3>2, NullFacts DEF SystemInv, MessagesInPlace
      <4>3. work[f][w].req \in Decisions
        BY <2>3, <4>2 DEF Sent, Decision, Decisions
      <4>4. AnswerInPlace(f, w)
        BY DEF RestoreInv
      <4>. QED
        BY <1>0, <3>2, <4>1, <4>3, <4>4, AckedHasNoPut
    <3>. QED
      BY <1>0, <2>3, <3>1, <3>2, ConnMoves
  <2>. QED
    BY <2>1, <2>2, <2>3 DEF NoPutInPlace
<1>5. ASSUME NEW g \in Followers, \A t \in Conns : InTransaction(t) => g \notin Replicas(lead[t].req.key)
      PROVE  NoPut(g)'
  BY <1>3, <1>5 DEF RestoreInv, TransactionInv
<1>. QED
  BY <1>2, <1>4, <1>5 DEF RestoreInv, InTransaction, Replicas, Replica

\* The leader does not touch them.
LEMMA LeaderKeepsLogs ==
  ASSUME UNCHANGED server,
         \A g \in Followers, w \in Workers : /\ work'[g][w].pc = work[g][w].pc
                                             /\ work'[g][w].req = work[g][w].req
                                             /\ work'[g][w].res = work[g][w].res,
         RestoreInv
  PROVE  /\ \A f \in Followers :
              PendingLogged(f)' /\ SavedLogged(f)' /\ \A w \in Workers : AnswerInPlace(f, w)'
         /\ \A f \in Followers : NoPut(f)' <=> NoPut(f)
<1>1. UNCHANGED <<up, pending, log, saved, strayed>>
  BY DEF server
<1>2. \A f \in Followers : LastEntry(f)' = LastEntry(f)
  BY <1>1, SameLastEntry
<1>3. \A f \in Followers : PendingLogged(f)' /\ SavedLogged(f)'
  BY <1>1, <1>2 DEF RestoreInv, PendingLogged, SavedLogged
<1>4. \A f \in Followers, w \in Workers : AnswerInPlace(f, w)'
  BY <1>1 DEF RestoreInv, AnswerInPlace
<1>. QED
  BY <1>1, <1>2, <1>3, <1>4 DEF NoPut

\* What the end of a wait is to them.
LEMMA WaitKeepsLogs ==
  ASSUME ServerInv, NEW c \in Conns, Disconnect(c) \/ UNCHANGED serverVars, RestoreInv
  PROVE  /\ \A f \in Followers :
              PendingLogged(f)' /\ SavedLogged(f)' /\ \A w \in Workers : AnswerInPlace(f, w)'
         /\ \A f \in Followers : NoPut(f)' <=> NoPut(f)
<1>1. /\ UNCHANGED server
      /\ \A g \in Followers, w \in Workers : /\ work'[g][w].pc = work[g][w].pc
                                             /\ work'[g][w].req = work[g][w].req
                                             /\ work'[g][w].res = work[g][w].res
  BY EndOfWait
<1>. QED
  BY <1>1, LeaderKeepsLogs

\* The thread that waits, or sends, stays where it is in its transaction.
LEMMA StayKeepsRestore ==
  ASSUME SystemInv, RestoreInv, NEW t \in Conns, Sends(t) \/ Retries(t)
  PROVE  RestoreInv'
<1>0. ServerInv /\ TypeOK /\ lead' = lead
  BY DEF SystemInv, ServerInv, Sends, Retries
<1>1. /\ \A f \in Followers :
           PendingLogged(f)' /\ SavedLogged(f)' /\ \A w \in Workers : AnswerInPlace(f, w)'
      /\ \A f \in Followers : NoPut(f)' <=> NoPut(f)
      /\ \A u \in Conns : u # t => conn'[u] = conn[u]
      /\ conn'[t].st # "answered"
  <2>1. CASE Retries(t)
    <3>1. Disconnect(t)
      BY <2>1 DEF Retries
    <3>2. conn'[t].st # "answered"
      BY <1>0, <3>1 DEF Disconnect, TypeOK, Closed
    <3>. QED
      BY <1>0, <3>1, <3>2, WaitKeepsLogs, EndOfWait
  <2>2. CASE Sends(t)
    <3>1. /\ Connect(t, Target(t), Sent(lead[t]))
          /\ Target(t) \in Followers /\ Sent(lead[t]) \in Requests
      BY <2>2, LeadFacts DEF SystemInv, LeadInPlace, Sends
    <3>2. /\ UNCHANGED <<server, work>> /\ conn'[t].st = "open"
          /\ \A u \in Conns : u # t => conn'[u] = conn[u]
      BY <1>0, <3>1, ConnectFacts
    <3>. QED
      BY <3>2, LeaderKeepsLogs
  <2>. QED
    BY <2>1, <2>2
<1>2. ASSUME NEW u \in Conns, InTransaction(u), NEW j \in 1..Redundancy,
             NEW g, g = Replica(lead[u].req.key, j)
      PROVE  NoPutInPlace(lead[u], conn[u], j, g)'
  <2>1. NoPutInPlace(lead[u], conn[u], j, g) /\ g \in Followers
    BY <1>2, TransactionFacts, ReplicaFacts DEF RestoreInv
  <2>2. conn'[u].st = "answered" => conn[u].st = "answered"
    BY <1>1
  <2>. QED
    BY <1>0, <1>1, <2>1, <2>2 DEF NoPutInPlace
<1>3. ASSUME NEW g \in Followers, \A u \in Conns : InTransaction(u) => g \notin Replicas(lead[u].req.key)
      PROVE  NoPut(g)'
  BY <1>1, <1>3 DEF RestoreInv
<1>. QED
  BY <1>0, <1>1, <1>2, <1>3 DEF RestoreInv, InTransaction, Replicas, Replica

\* A thread moves on: a transaction begins where there is no PUT, and ends where
\* every replica has acknowledged.
LEMMA MoveKeepsRestore ==
  ASSUME SystemInv, Orderly', TransactionInv, RestoreInv, NEW t \in Conns, NEW y \in LeadRecords,
         Moves(t, y)
  PROVE  RestoreInv'
<1>0. /\ ServerInv /\ lead' = [lead EXCEPT ![t] = y] /\ WalkInPlace(t, y)
      /\ conn'[t].st = "closed" /\ (Disconnect(t) \/ UNCHANGED serverVars)
      /\ lead \in [Conns -> LeadRecords]
      /\ Asks(t, y) \/ Counts(t, y) \/ Acks(t, y) \/ Reads(t, y) \/ Ends(t, y)
  BY DEF SystemInv, Moves, SystemTypeOK, LeadRecords
<1>1. lead'[t] = y /\ \A u \in Conns : u # t => lead'[u] = lead[u] /\ conn'[u] = conn[u]
  BY <1>0, EndOfWait
<1>2. /\ \A f \in Followers :
           PendingLogged(f)' /\ SavedLogged(f)' /\ \A w \in Workers : AnswerInPlace(f, w)'
      /\ \A f \in Followers : NoPut(f)' <=> NoPut(f)
  BY <1>0, WaitKeepsLogs
<1>3. ASSUME NEW u \in Conns, u # t, InTransaction(u)', NEW j \in 1..Redundancy,
             NEW g, g = Replica(lead'[u].req.key, j)
      PROVE  NoPutInPlace(lead[u], conn[u], j, g)'
  <2>1. /\ InTransaction(u) /\ NoPutInPlace(lead[u], conn[u], j, g) /\ g \in Followers
    BY <1>1, <1>3, TransactionFacts, ReplicaFacts DEF RestoreInv, InTransaction
  <2>. QED
    BY <1>1, <1>2, <1>3, <2>1 DEF NoPutInPlace
<1>4. ASSUME NEW j \in 1..Redundancy, InTransaction(t), NEW g, g = Replica(lead[t].req.key, j)
      PROVE  /\ NoPutInPlace(lead[t], conn[t], j, g) /\ g \in Followers
             /\ lead[t].i \in 1..Redundancy /\ Redundancy \in Nat
  BY <1>4, TransactionFacts, ReplicaFacts, SystemAssumption DEF RestoreInv
<1>5. /\ \A j \in 1..Redundancy :
           y.pc \in {"phase1", "phase2"} => NoPutInPlace(y, conn'[t], j, Replica(y.req.key, j))
      /\ \A g \in Followers :
           (\A u \in Conns : InTransaction(u)' => g \notin Replicas(lead'[u].req.key)) => NoPut(g)
  <2>1. ASSUME InTransaction(t) => y.pc \in {"phase1", "phase2"} /\ y.req = lead[t].req,
               NEW g \in Followers,
               \A u \in Conns : InTransaction(u)' => g \notin Replicas(lead'[u].req.key)
        PROVE  NoPut(g)
    <3>1. ASSUME NEW u \in Conns, InTransaction(u) PROVE g \notin Replicas(lead[u].req.key)
      <4>1. CASE u = t
        BY <1>1, <2>1, <3>1, <4>1 DEF InTransaction
      <4>2. CASE u # t
        BY <1>1, <2>1, <3>1, <4>2 DEF InTransaction
      <4>. QED
        BY <4>1, <4>2
    <3>. QED
      BY <3>1 DEF RestoreInv
  <2>2. CASE Asks(t, y)
    <3>1. ~InTransaction(t) /\ y.pc # "phase2"
      BY <2>2 DEF Asks, InTransaction
    <3>2. ASSUME y.pc = "phase1", NEW j \in 1..Redundancy PROVE NoPut(Replica(y.req.key, j))
      <4>2. y.req.key \in Keys
        BY <1>0, <3>2, RequestFacts, NullFacts DEF WalkInPlace
      <4>3. \A u \in Conns : ~InTransaction(u)
        BY <2>2, <3>2, AskKeepsPlaces
      <4>. QED
        BY <4>2, <4>3, ReplicaFacts DEF RestoreInv
    <3>3. \A j \in 1..Redundancy :
            y.pc \in {"phase1", "phase2"} => NoPutInPlace(y, conn'[t], j, Replica(y.req.key, j))
      BY <3>1, <3>2 DEF NoPutInPlace
    <3>. QED
      BY <2>1, <3>1, <3>3
  <2>3. CASE Counts(t, y)
    <3>1. /\ InTransaction(t) /\ y.pc \in {"phase1", "phase2"} /\ y.req = lead[t].req
          /\ y.pc = "phase2" => y.i = 1
      BY <2>3 DEF Counts, InTransaction
    <3>2. ASSUME NEW j \in 1..Redundancy PROVE NoPutInPlace(y, conn'[t], j, Replica(y.req.key, j))
      <4>1. NoPutInPlace(lead[t], conn[t], j, Replica(y.req.key, j)) /\ ~(j < 1)
        BY <1>4, <3>1
      <4>. QED
        BY <1>0, <3>1, <4>1 DEF NoPutInPlace
    <3>. QED
      BY <2>1, <3>1, <3>2
  <2>4. CASE Acks(t, y)
    <3>1. /\ InTransaction(t) /\ y.pc \in {"phase2", "done"} /\ y.req = lead[t].req
          /\ lead[t].pc = "phase2" /\ conn[t].st = "answered"
          /\ y.pc = "phase2" => y.i = lead[t].i + 1
          /\ y.pc = "done" => lead[t].i = Redundancy
      BY <2>4 DEF Acks, InTransaction
    <3>2. ASSUME NEW j \in 1..Redundancy
          PROVE  /\ lead[t].req \in DelRequests => NoPut(Replica(lead[t].req.key, j))
                 /\ j <= lead[t].i => NoPut(Replica(lead[t].req.key, j))
                 /\ y.pc = "phase2" /\ j < y.i => j <= lead[t].i
                 /\ y.pc = "done" => j <= lead[t].i
      <4>1. /\ NoPutInPlace(lead[t], conn[t], j, Replica(lead[t].req.key, j))
            /\ lead[t].i \in 1..Redundancy /\ Redundancy \in Nat
        BY <1>4, <3>1
      <4>2. j <= lead[t].i => j < lead[t].i \/ j = lead[t].i
        BY <4>1
      <4>. QED
        BY <3>1, <4>1, <4>2 DEF NoPutInPlace
    <3>3. \A j \in 1..Redundancy :
            y.pc \in {"phase1", "phase2"} => NoPutInPlace(y, conn'[t], j, Replica(y.req.key, j))
      BY <1>0, <3>1, <3>2 DEF NoPutInPlace
    <3>4. ASSUME y.pc = "done", NEW g \in Followers PROVE NoPut(g)
      <4>1. CASE g \in Replicas(lead[t].req.key)
        BY <3>2, <3>4, <4>1 DEF Replicas
      <4>2. CASE g \notin Replicas(lead[t].req.key)
        BY <3>1, <4>2, OneTransaction DEF RestoreInv
      <4>. QED
        BY <4>1, <4>2
    <3>. QED
      BY <2>1, <3>1, <3>3, <3>4
  <2>5. CASE Reads(t, y) \/ Ends(t, y)
    <3>1. ~InTransaction(t) /\ y.pc \notin {"phase1", "phase2"}
      BY <2>5 DEF Reads, Ends, InTransaction
    <3>. QED
      BY <2>1, <3>1
  <2>. QED
    BY <1>0, <2>2, <2>3, <2>4, <2>5
<1>6. ASSUME NEW u \in Conns, InTransaction(u)', NEW j \in 1..Redundancy,
             NEW g, g = Replica(lead'[u].req.key, j)
      PROVE  NoPutInPlace(lead[u], conn[u], j, g)'
  <2>1. CASE u = t
    <3>1. y.pc \in {"phase1", "phase2"} /\ NoPutInPlace(y, conn'[t], j, g)
      BY <1>1, <1>5, <1>6, <2>1 DEF InTransaction
    <3>2. g \in Followers
      <4>1. y.req.key \in Keys
        BY <1>0, <3>1, RequestFacts, NullFacts DEF WalkInPlace
      <4>. QED
        BY <1>1, <1>6, <2>1, <4>1, ReplicaFacts
    <3>. QED
      BY <1>1, <1>2, <2>1, <3>1, <3>2 DEF NoPutInPlace
  <2>2. CASE u # t
    BY <1>3, <1>6, <2>2
  <2>. QED
    BY <2>1, <2>2
<1>. QED
  BY <1>2, <1>5, <1>6 DEF RestoreInv, Replicas, Replica

\* At the start nothing is logged and what is pending is wild.
LEMMA RestoreInit == Init => RestoreInv
<1>. SUFFICES ASSUME Init PROVE RestoreInv
  OBVIOUS
<1>1. /\ up = [f \in Followers |-> TRUE] /\ pending \in [Followers -> Garbage]
      /\ log = [f \in Followers |-> << >>]
      /\ work = [f \in Followers |-> [w \in Workers |-> Idle]]
      /\ \A t \in Conns : lead[t].pc = "idle"
  BY DEF Init, ServerInit, LeaderIdle
<1>2. \A f \in Followers : up[f] /\ pending[f].key = Wild /\ LastEntry(f) = NULL
  BY <1>1 DEF Garbage, Pending, LastEntry
<1>3. NULL \notin PutRequests
  BY NullFacts DEF Writes
<1>4. \A f \in Followers : NoPut(f) /\ PendingLogged(f) /\ SavedLogged(f)
  BY <1>2, <1>3, NullFacts DEF NoPut, PendingLogged, SavedLogged, LoggedAs
<1>5. \A f \in Followers, w \in Workers : AnswerInPlace(f, w)
  BY <1>1 DEF AnswerInPlace, Idle
<1>. QED
  BY <1>1, <1>4, <1>5 DEF RestoreInv, InTransaction

\* Together: what a restart will find is inductive.
LEMMA CrashNextInv ==
  ASSUME SystemInv, WriterInv, CrashInv, SystemNext
  PROVE  CrashInv'
<1>. SUFFICES ASSUME Orderly' PROVE RestoreInv'
  BY DEF CrashInv
<1>0. Orderly /\ TransactionInv /\ RestoreInv
  BY OrderlyBack DEF WriterInv, CrashInv
<1>1. ASSUME NEW t \in Conns, ClientRequest(t) \/ ThreadStep(t) PROVE RestoreInv'
  <2>1. CASE Sends(t) \/ Retries(t)
    BY <1>0, <2>1, StayKeepsRestore
  <2>2. ASSUME NEW y \in LeadRecords, Moves(t, y) PROVE RestoreInv'
    BY <1>0, <2>2, MoveKeepsRestore
  <2>. QED
    BY <1>1, <2>1, <2>2, ThreadStepShape
<1>2. ASSUME NEW f \in Followers, FollowerStep(f), UNCHANGED leader PROVE RestoreInv'
  BY <1>0, <1>2, FollowerKeepsRestore DEF leader
<1>. QED
  BY <1>1, <1>2 DEF SystemNext

\* It survives a step that changes nothing.
LEMMA CrashStutters ==
  ASSUME SystemInv, CrashInv, UNCHANGED vars
  PROVE  CrashInv'
<1>0. UNCHANGED <<lead, conn, server, work>> /\ (Orderly' <=> Orderly)
  BY DEF vars, serverVars, server, leader, Orderly
<1>. SUFFICES ASSUME RestoreInv PROVE RestoreInv'
  BY <1>0 DEF CrashInv
<1>1. /\ \A f \in Followers :
           PendingLogged(f)' /\ SavedLogged(f)' /\ \A w \in Workers : AnswerInPlace(f, w)'
      /\ \A f \in Followers : NoPut(f)' <=> NoPut(f)
  BY <1>0, LeaderKeepsLogs
<1>2. ASSUME NEW u \in Conns, InTransaction(u), NEW j \in 1..Redundancy,
             NEW g, g = Replica(lead[u].req.key, j)
      PROVE  NoPutInPlace(lead[u], conn[u], j, g)'
  <2>1. NoPutInPlace(lead[u], conn[u], j, g) /\ g \in Followers
    BY <1>2, TransactionFacts, ReplicaFacts DEF RestoreInv
  <2>. QED
    BY <1>0, <1>1, <2>1 DEF NoPutInPlace
<1>3. ASSUME NEW g \in Followers, \A u \in Conns : InTransaction(u) => g \notin Replicas(lead[u].req.key)
      PROVE  NoPut(g)'
  BY <1>1, <1>3 DEF RestoreInv
<1>. QED
  BY <1>0, <1>1, <1>2, <1>3 DEF RestoreInv, InTransaction, Replicas, Replica

\* As long as the system is orderly, the log of a follower that logged all its
\* messages says what it has pending whenever it is between messages: an inductive
\* invariant.
THEOREM CrashInvariant == SystemSpec => []CrashInv
<1>1. Init => CrashInv
  BY RestoreInit DEF CrashInv
<1>2. SystemInv /\ WriterInv /\ CrashInv /\ [SystemNext]_vars => CrashInv'
  BY CrashNextInv, CrashStutters
<1>. QED
  BY <1>1, <1>2, SystemInvariant, WriterInvariant, PTL DEF SystemSpec

\* A follower that crashed while it waited for the decision on a PUT is restarted
\* waiting for that decision, after any number of crashes and transactions and with
\* any number of workers, as long as the system is orderly and the follower could
\* log every message (the comment on kvserver_rebuild_state, kvserver.c:228-231).
THEOREM PreparedStaysRestored == SystemSpec => PreparedRestored
<1>1. SystemInv /\ WriterInv /\ CrashInv /\ SystemNext =>
        \A f \in Followers :
          /\ ~up[f] /\ up'[f] /\ Orderly' /\ strayed'[f] = {}
          /\ saved[f] # NULL /\ saved[f].msg = "PUTREQ" /\ saved[f].key # Wild
          => pending'[f] = saved[f]
  <2>. SUFFICES ASSUME SystemInv, WriterInv, CrashInv, SystemNext, NEW g \in Followers,
                       Orderly', strayed'[g] = {},
                       ~up[g], up'[g], saved[g] # NULL, saved[g].msg = "PUTREQ", saved[g].key # Wild
                PROVE  pending'[g] = saved[g]
    OBVIOUS
  <2>0. TransactionInv /\ ServerInv /\ TypeOK /\ Orderly /\ strayed[g] = {}
    BY OrderlyBack DEF WriterInv, SystemInv, ServerInv
  <2>1. RestoreInv
    BY <2>0 DEF CrashInv
  <2>2. ASSUME NEW t \in Conns, ClientRequest(t) \/ ThreadStep(t) PROVE up' = up
    <3>1. CASE Sends(t)
      BY <3>1 DEF Sends, Connect, server
    <3>2. CASE Retries(t)
      BY <3>2 DEF Retries, Disconnect, server
    <3>3. ASSUME NEW y \in LeadRecords, Moves(t, y) PROVE up' = up
      BY <3>3 DEF Moves, Disconnect, server, serverVars
    <3>. QED
      BY <2>2, <3>1, <3>2, <3>3, ThreadStepShape
  <2>3. PICK f \in Followers : FollowerStep(f)
    BY <2>2 DEF SystemNext
  <2>4. f = g
    BY <2>0, <2>3, StepElsewhere
  <2>5. Restart(g)
    <3>1. ~Crash(g)
      BY DEF Crash
    <3>2. ASSUME NEW w \in Workers, WorkerStep(g, w) PROVE FALSE
      <4>1. ~At(g, w, "put") /\ ~At(g, w, "del") /\ \A label : ~At(g, w, label)
        BY DEF At
      <4>2. \A type : ~Handles(g, w, type)
        BY <4>1 DEF Handles
      <4>3. ~Take(g, w) /\ ~LogOpen(g, w) /\ ~LogWrite(g, w) /\ ~SetKey(g, w) /\ ~SetVal(g, w)
        BY <4>1 DEF Take, LogOpen, LogWrite, SetKey, SetVal
      <4>4. ~ActPut(g, w) /\ ~ActDel(g, w) /\ ~ActCommit(g, w) /\ ~ActAbort(g, w) /\ ~ActGet(g, w)
        BY <4>2 DEF ActPut, ActDel, ActCommit, ActAbort, ActGet
      <4>5. ~Apply(g, w) /\ ~ApplyFaults(g, w) /\ ~ClrKey(g, w) /\ ~ClrVal(g, w)
            /\ ~ClrMsg(g, w) /\ ~Reply(g, w)
        BY <4>1 DEF Apply, ApplyFaults, ClrKey, ClrVal, ClrMsg, Reply
      <4>. QED
        BY <3>2, <4>3, <4>4, <4>5 DEF WorkerStep
    <3>. QED
      BY <2>3, <2>4, <3>1, <3>2 DEF FollowerStep
  <2>6. LastEntry(g) \in PutRequests /\ saved[g] = PendingOf(LastEntry(g))
    BY <2>0, <2>1 DEF RestoreInv, SavedLogged, LoggedAs
  <2>. QED
    BY <2>0, <2>5, <2>6, RestartFacts DEF Writes
<1>2. SystemInv /\ WriterInv /\ CrashInv /\ [SystemNext]_vars =>
        [\A f \in Followers :
          /\ ~up[f] /\ up'[f] /\ Orderly' /\ strayed'[f] = {}
          /\ saved[f] # NULL /\ saved[f].msg = "PUTREQ" /\ saved[f].key # Wild
          => pending'[f] = saved[f]]_vars
  BY <1>1
<1>. QED
  BY <1>2, SystemInvariant, WriterInvariant, CrashInvariant, PTL DEF PreparedRestored, SystemSpec

-----------------------------------------------------------------------------
(* As long as nothing disturbs the system: what the replicas hold *)

Held(k, j) == store[Replica(k, j)][k]
Agreeing(k) == \A j \in 1..Redundancy : Held(k, j) = Held(k, Redundancy)
Committing(t) == lead[t].pc = "phase2" /\ ~lead[t].abort

\* Follower f has the transaction r pending and has still to apply it.
Unapplied(f, r) ==
  /\ pending[f] = PendingOf(r)
  /\ \A w \in Workers : /\ work[f][w].pc \notin {"clrkey", "clrval", "clrmsg"}
                        /\ ~(work[f][w].pc = "reply" /\ work[f][w].req = Commit)

\* The replicas of the transaction being committed: those told hold the outcome,
\* those not told hold the same value as before, and the one being told is one
\* of these, having the transaction still pending, or one of those.
CommitInPlace(t) ==
  LET x == lead[t]
      k == x.req.key
  IN  /\ \A j \in 1..Redundancy : j < x.i => Held(k, j) = x.req.val
      /\ \A j \in 1..Redundancy : j > x.i => Held(k, j) = Held(k, Redundancy)
      /\ Held(k, x.i) \in {x.req.val, Held(k, Redundancy)}
      /\ \/ Held(k, x.i) = x.req.val
         \/ conn[t].st # "answered" /\ Unapplied(Target(t), x.req)

\* Only replicas hold a key, and none holds one that fails its check; they all
\* hold the same while it is not being written, and after a SUCCESS they hold
\* what was asked for.
StoreInv ==
  /\ \A k \in Keys, f \in Followers : f \notin Replicas(k) \/ k \in BadKeys => store[f][k] = NULL
  /\ \A k \in Keys : Agreeing(k) \/ \E t \in Conns : Committing(t) /\ lead[t].req.key = k
  /\ \A t \in Conns : Committing(t) /\ lead[t].req.key \notin BadKeys => CommitInPlace(t)
  /\ \A t \in Conns : lead[t].pc = "done" /\ lead[t].req \in Writes /\ lead[t].res = "SUCCESS"
                        /\ lead[t].req.key \notin BadKeys =>
       \A j \in 1..Redundancy : Held(lead[t].req.key, j) = lead[t].req.val

\* The answer a is there for thread t, or about to be.
Answers(t, a) ==
  \/ conn[t].st = "answered" /\ conn[t].res = a
  \/ \E f \in Followers, w \in Workers :
       work[f][w].from = t /\ work[f][w].pc = "reply" /\ work[f][w].res = a

\* Once a GET has found the first replica without a value, it has seen whatever
\* value a replica holds, and seen none if the last one holds none.
PastFirst(t, k) ==
  /\ \A j \in 1..Redundancy : Held(k, j) # NULL => Held(k, j) \in seen[t]
  /\ Held(k, Redundancy) = NULL => NULL \in seen[t]

GetInPlace(t) ==
  /\ view[lead[t].req.key] \in seen[t]
  /\ lead[t].i > 1 \/ Answers(t, Error) => PastFirst(t, lead[t].req.key)
  /\ \A a \in Responses : Answers(t, a) =>
       \/ a.type = "GETRESP" /\ a.body \in seen[t]
       \/ a = Error /\ (lead[t].i = Redundancy => NULL \in seen[t])

GetHolds(t) ==
  /\ lead[t].pc = "get" => GetInPlace(t)
  /\ lead[t].pc = "done" /\ lead[t].req.type = "GETREQ" => lead[t].res \in seen[t]

GetInv == \A t \in Conns : GetHolds(t)

SmoothInv == Undisturbed => StoreInv /\ GetInv

-----------------------------------------------------------------------------
(* The stores *)

\* Until the COMMIT is applied, the transaction stays pending where it is told.
LEMMA UnappliedStays ==
  ASSUME SystemInv, Undisturbed, Undisturbed', TransactionInv, NEW f \in Followers,
         FollowerStep(f), lead' = lead, ~\E w \in Workers : Apply(f, w),
         NEW t \in Conns, Committing(t), conn[t].st # "answered", Unapplied(Target(t), lead[t].req)
  PROVE  conn'[t].st # "answered" /\ Unapplied(Target(t), lead[t].req)'
<1>0. /\ ServerInv /\ Orderly /\ TypeOK /\ InTransaction(t) /\ ServerInv'
      /\ crashes = 0 /\ crashes' = 0
  BY FollowerKeepsInv DEF SystemInv, Undisturbed, ServerInv, Committing, InTransaction
<1>1. /\ Target(t) \in Followers /\ lead[t].req \in Writes /\ Target(t)' = Target(t)
      /\ conn[t].st # "closed" => conn[t].to = Target(t)
  BY <1>0, TransactionFacts DEF Target, SystemInv, LeadInPlace
<1>2. CASE f # Target(t)
  <2>1. conn'[t] = conn[t]
    BY <1>0, <1>1, <1>2, ConnMoves
  <2>2. pending'[Target(t)] = pending[Target(t)] /\ work'[Target(t)] = work[Target(t)]
    BY <1>0, <1>1, <1>2, StepElsewhere
  <2>. QED
    BY <1>1, <2>1, <2>2 DEF Unapplied
<1>3. CASE f = Target(t)
  <2>1. /\ pending[f] = PendingOf(lead[t].req) /\ up[f]
        /\ \A v \in Workers : /\ work[f][v].pc \notin {"clrkey", "clrval", "clrmsg"}
                              /\ ~(work[f][v].pc = "reply" /\ work[f][v].req = Commit)
    BY <1>0, <1>3 DEF Unapplied, TransactionInv
  <2>2. ~Crash(f) /\ ~Restart(f)
    BY <1>0, <2>1, CrashesCounted DEF Restart
  <2>3. PICK w \in Workers : WorkerStep(f, w)
    BY <2>2 DEF FollowerStep
  <2>4. WorkerInPlace(f, w) /\ ~ApplyFaults(f, w) /\ ~Apply(f, w)
    BY <1>0, NoFaults DEF ServerInv, WorkersInPlace
  <2>5. work[f][w].req \in InFlight(f) => work[f][w].req = Commit
    <3>1. Phase2InPlace(lead[t], conn[t], lead[t].i, f) /\ lead[t].i \in 1..Redundancy
      BY <1>0, <1>3, TransactionFacts DEF TransactionInv, ReplicasInPlace, Committing
    <3>. QED
      BY <3>1 DEF Phase2InPlace, Deciding, Committing
  <2>6. ASSUME pending' = pending, conn'[t] = conn[t],
               work'[f][w].pc \notin {"clrkey", "clrval", "clrmsg"},
               ~(work'[f][w].pc = "reply" /\ work'[f][w].req = Commit)
        PROVE  conn'[t].st # "answered" /\ Unapplied(Target(t), lead[t].req)'
    <3>1. \A v \in Workers : v # w => work'[f][v] = work[f][v]
      BY <1>0, <2>3, BusyMoves, UpStays
    <3>. QED
      BY <1>1, <1>3, <2>1, <2>6, <3>1 DEF Unapplied
  <2>7. CASE Take(f, w)
    <3>1. pending' = pending /\ conn' = conn /\ work'[f][w].pc \in {"act", "log"}
      BY <1>0, <2>7 DEF Take, TypeOK, server
    <3>. QED
      BY <2>6, <3>1
  <2>8. CASE ActGet(f, w)
    <3>1. pending' = pending /\ conn' = conn /\ work[f][w].req.type = "GETREQ"
      BY <2>8 DEF ActGet, server, Handles
    <3>2. PICK res : Answer(f, w, res)
      BY <2>8 DEF ActGet
    <3>3. work'[f][w].req = work[f][w].req /\ work'[f][w].pc = "reply"
      BY <1>0, <3>2, AnswerFields
    <3>. QED
      BY <2>6, <3>1, <3>3, CommitFacts
  <2>9. CASE Reply(f, w)
    <3>1. pending' = pending /\ work'[f][w] = Idle /\ work[f][w].pc = "reply"
      BY <1>0, <2>9 DEF Reply, TypeOK, server, At
    <3>2. conn'[t] = conn[t]
      <4>1. CASE work[f][w].from = t
        <5>1. work[f][w].req = Sent(lead[t])
          BY <4>1, NullFacts DEF SystemInv, MessagesInPlace
        <5>2. work[f][w].req = Commit
          BY <5>1 DEF Sent, Decision, Committing, Commit
        <5>. QED
          BY <2>1, <3>1, <5>2
      <4>2. CASE work[f][w].from # t
        BY <1>0, <2>9, <4>2 DEF Reply, TypeOK
      <4>. QED
        BY <4>1, <4>2
    <3>. QED
      BY <2>6, <3>1, <3>2 DEF Idle
  <2>10. CASE work[f][w].req = Commit
    <3>0. work[f][w].req.type = "COMMIT" /\ work[f][w].req \notin Writes
      BY <2>10, CommitFacts
    <3>1. CASE LogOpen(f, w) \/ LogWrite(f, w)
      <4>1. pending' = pending /\ conn' = conn
        BY <3>1 DEF LogOpen, LogWrite
      <4>2. PICK label \in {"write", "act"} : Goto(f, w, label)
        BY <3>1 DEF LogOpen, LogWrite
      <4>3. work'[f][w].pc \in {"write", "act"}
        BY <1>0, <4>2, GotoFields
      <4>. QED
        BY <2>6, <4>1, <4>3
    <3>2. CASE ActCommit(f, w)
      <4>1. pending' = pending /\ conn' = conn
        BY <3>2 DEF ActCommit, server
      <4>2. pending[f].msg \in {"PUTREQ", "DELREQ"}
        BY <1>1, <2>1, RequestFacts, NullFacts DEF PendingOf, Pending
      <4>3. PICK label \in {"put", "del"} : Goto(f, w, label)
        BY <3>2, <4>2 DEF ActCommit
      <4>4. work'[f][w].pc \in {"put", "del"}
        BY <1>0, <4>3, GotoFields
      <4>. QED
        BY <2>6, <4>1, <4>4
    <3>3. ~ActPut(f, w) /\ ~ActDel(f, w) /\ ~ActAbort(f, w)
      BY <3>0 DEF ActPut, ActDel, ActAbort, Handles
    <3>4. ~SetKey(f, w) /\ ~SetVal(f, w)
      BY <2>4, <3>0 DEF SetKey, SetVal, At, WorkerInPlace
    <3>5. ~ClrKey(f, w) /\ ~ClrVal(f, w) /\ ~ClrMsg(f, w)
      BY <2>1 DEF ClrKey, ClrVal, ClrMsg, At
    <3>. QED
      BY <2>3, <2>4, <2>7, <2>8, <2>9, <3>1, <3>2, <3>3, <3>4, <3>5 DEF WorkerStep
  <2>. QED
    BY <1>0, <2>3, <2>5, <2>7, <2>8, <2>9, <2>10, WorkerIsAt
<1>. QED
  BY <1>2, <1>3

\* What applying a COMMIT does to what the replicas hold.
LEMMA ApplyHeld ==
  ASSUME SystemInv, Undisturbed, TransactionInv, NEW f \in Followers, NEW w \in Workers, Apply(f, w)
  PROVE  \E t \in Conns :
           /\ Committing(t) /\ lead[t].req \in agreed /\ f = Target(t)
           /\ lead[t].req \in Writes /\ lead[t].req.key \in Keys /\ lead[t].i \in 1..Redundancy
           /\ \A g \in Followers, k \in Keys :
                store'[g][k] = IF g = f /\ k = lead[t].req.key /\ k \notin BadKeys
                               THEN lead[t].req.val ELSE store[g][k]
           /\ \A k \in Keys : \A j \in 1..Redundancy :
                Held(k, j)' = IF j = lead[t].i /\ k = lead[t].req.key /\ k \notin BadKeys
                              THEN lead[t].req.val ELSE Held(k, j)
<1>0. TypeOK
  BY DEF SystemInv, ServerInv
<1>1. PICK t \in Conns :
           /\ lead[t].pc = "phase2" /\ ~lead[t].abort /\ f = Target(t)
           /\ lead[t].req \in agreed /\ lead[t].req \in Writes /\ lead[t].req.key \in Keys
           /\ store' = [store EXCEPT ![f] =
                IF lead[t].req.key \in BadKeys THEN store[f]
                ELSE [store[f] EXCEPT ![lead[t].req.key] = lead[t].req.val]]
  BY ApplyStores DEF Undisturbed
<1>2. lead[t].i \in 1..Redundancy /\ Target(t) = Replica(lead[t].req.key, lead[t].i)
  BY <1>1, TransactionFacts DEF InTransaction
<1>3. ASSUME NEW g \in Followers, NEW k \in Keys
      PROVE  store'[g][k] = IF g = f /\ k = lead[t].req.key /\ k \notin BadKeys
                            THEN lead[t].req.val ELSE store[g][k]
  BY <1>0, <1>1 DEF TypeOK
<1>4. ASSUME NEW k \in Keys, NEW j \in 1..Redundancy
      PROVE  Held(k, j)' = IF j = lead[t].i /\ k = lead[t].req.key /\ k \notin BadKeys
                           THEN lead[t].req.val ELSE Held(k, j)
  <2>1. Replica(k, j) \in Followers /\ (k = lead[t].req.key => (Replica(k, j) = f <=> j = lead[t].i))
    BY <1>1, <1>2, ReplicaFacts
  <2>. QED
    BY <1>3, <2>1 DEF Held
<1>. QED
  BY <1>1, <1>2, <1>3, <1>4 DEF Committing

\* A follower that is prepared has not applied the transaction.
LEMMA PreparedIsUnapplied ==
  ASSUME ServerInv, NEW f \in Followers, NEW r, Prepared(f, r), up[f]
  PROVE  Unapplied(f, r)
<1>1. ASSUME NEW w \in Workers PROVE work[f][w].req \notin LogEntries
  BY <1>1 DEF Prepared, InFlight
<1>2. \A w \in Workers : WorkerInPlace(f, w)
  BY DEF ServerInv, WorkersInPlace
<1>. QED
  BY <1>1, <1>2, CommitFacts, NullFacts DEF Unapplied, Prepared, WorkerInPlace

\* A step that leaves the followers' fields and the places of their workers.
LEMMA SameStores ==
  ASSUME UNCHANGED <<store, pending>>,
         \A g \in Followers, w \in Workers : /\ work'[g][w].pc = work[g][w].pc
                                            /\ work'[g][w].req = work[g][w].req
  PROVE  /\ \A k, j : Held(k, j)' = Held(k, j)
         /\ \A g \in Followers : \A r : Unapplied(g, r) => Unapplied(g, r)'
<1>1. \A k, j : Held(k, j)' = Held(k, j)
  BY DEF Held
<1>2. ASSUME NEW g \in Followers, NEW r, Unapplied(g, r) PROVE Unapplied(g, r)'
  BY <1>2 DEF Unapplied
<1>. QED
  BY <1>1, <1>2

\* The thread of a COMMIT is alone in writing: no other has its SUCCESS yet.
LEMMA OneOutcome ==
  ASSUME SystemInv, TransactionInv, NEW t \in Conns, InTransaction(t), NEW u \in Conns,
         lead[u].pc # "idle", lead[u].req \in Writes
  PROVE  t = u
<1>1. Writing(t)
  BY TransactionFacts
<1>2. Writing(u)
  BY RequestFacts, NullFacts DEF Writing
<1>. QED
  BY <1>1, <1>2 DEF TransactionInv

\* A COMMIT is applied.
LEMMA ApplyKeepsStores ==
  ASSUME SystemInv, Undisturbed, TransactionInv, StoreInv, NEW f \in Followers, NEW w \in Workers,
         Apply(f, w), UNCHANGED <<lead, conn>>
  PROVE  StoreInv'
<1>1. PICK t \in Conns :
        /\ Committing(t) /\ f = Target(t)
        /\ lead[t].req \in Writes /\ lead[t].req.key \in Keys /\ lead[t].i \in 1..Redundancy
        /\ \A g \in Followers, k \in Keys :
             store'[g][k] = IF g = f /\ k = lead[t].req.key /\ k \notin BadKeys
                            THEN lead[t].req.val ELSE store[g][k]
        /\ \A k \in Keys : \A j \in 1..Redundancy :
             Held(k, j)' = IF j = lead[t].i /\ k = lead[t].req.key /\ k \notin BadKeys
                           THEN lead[t].req.val ELSE Held(k, j)
  BY ApplyHeld
<1>2. InTransaction(t) /\ f \in Replicas(lead[t].req.key)
  BY <1>1 DEF Committing, InTransaction, Target, Replicas
<1>3. \A u \in Conns : lead[u].pc # "idle" /\ lead[u].req \in Writes => u = t
  BY <1>2, OneOutcome
<1>4. \A u \in Conns : Committing(u)' <=> Committing(u)
  BY DEF Committing
<1>5. \A u \in Conns : Committing(u) => u = t
  BY <1>2, OneTransaction DEF Committing, InTransaction
<1>6. ASSUME NEW k \in Keys, NEW g \in Followers, g \notin Replicas(k) \/ k \in BadKeys
      PROVE  store'[g][k] = NULL
  BY <1>1, <1>2, <1>6 DEF StoreInv
<1>7. ASSUME NEW k \in Keys PROVE Agreeing(k)' \/ \E u \in Conns : Committing(u)' /\ lead'[u].req.key = k
  <2>1. CASE k = lead[t].req.key
    BY <1>1, <1>4, <2>1
  <2>2. CASE k # lead[t].req.key
    <3>1. Agreeing(k)
      BY <1>5, <2>2 DEF StoreInv
    <3>2. \A j \in 1..Redundancy : Held(k, j)' = Held(k, j)
      BY <1>1, <2>2
    <3>3. Redundancy \in 1..Redundancy
      BY SystemAssumption
    <3>. QED
      BY <3>1, <3>2, <3>3 DEF Agreeing
  <2>. QED
    BY <2>1, <2>2
<1>8. ASSUME lead[t].req.key \notin BadKeys PROVE CommitInPlace(t)'
  <2>1. CommitInPlace(t)
    BY <1>1, <1>8 DEF StoreInv
  <2>2. Redundancy \in Nat /\ lead[t].i \in 1..Redundancy /\ Redundancy \in 1..Redundancy
    BY <1>1, SystemAssumption
  <2>4. ASSUME NEW k, k = lead[t].req.key, NEW i \in 1..Redundancy, i = lead[t].i,
               NEW v, v = lead[t].req.val
        PROVE  /\ \A j \in 1..Redundancy : j < i => Held(k, j)' = v
               /\ \A j \in 1..Redundancy : j > i => Held(k, j)' = Held(k, Redundancy)'
               /\ Held(k, i)' = v
    <3>1. /\ \A j \in 1..Redundancy : j < i => Held(k, j) = v
          /\ \A j \in 1..Redundancy : j > i => Held(k, j) = Held(k, Redundancy)
          /\ Held(k, i) \in {v, Held(k, Redundancy)}
      BY <2>1, <2>4 DEF CommitInPlace
    <3>2. \A j \in 1..Redundancy : Held(k, j)' = IF j = i THEN v ELSE Held(k, j)
      BY <1>1, <1>8, <2>4
    <3>. QED
      BY <2>2, <2>4, <3>1, <3>2
  <2>. QED
    BY <2>2, <2>4 DEF CommitInPlace
<1>. QED
  BY <1>1, <1>3, <1>4, <1>5, <1>6, <1>7, <1>8 DEF StoreInv, Committing

\* A step that leaves the stores: what is not yet applied stays pending, or has
\* to be found pending.
LEMMA StoresKept ==
  ASSUME StoreInv, UNCHANGED <<store, lead>>,
         \A t \in Conns : Committing(t) /\ conn[t].st # "answered" /\ Unapplied(Target(t), lead[t].req)
           => conn'[t].st # "answered" /\ Unapplied(Target(t), lead[t].req)'
  PROVE  StoreInv'
<1>1. \A k, j : Held(k, j)' = Held(k, j)
  BY DEF Held
<1>2. \A k : Agreeing(k)' <=> Agreeing(k)
  BY <1>1 DEF Agreeing
<1>3. \A t \in Conns : Committing(t)' <=> Committing(t)
  BY DEF Committing
<1>4. ASSUME NEW t \in Conns, Committing(t), CommitInPlace(t) PROVE CommitInPlace(t)'
  BY <1>1, <1>4 DEF CommitInPlace
<1>. QED
  BY <1>1, <1>2, <1>3, <1>4 DEF StoreInv

\* A follower's step keeps the stores in place.
LEMMA FollowerKeepsStores ==
  ASSUME SystemInv, Undisturbed, Undisturbed', TransactionInv, StoreInv, NEW f \in Followers,
         FollowerStep(f), lead' = lead
  PROVE  StoreInv'
<1>1. CASE \E w \in Workers : Apply(f, w)
  <2>1. conn' = conn
    BY <1>1 DEF Apply
  <2>. QED
    BY <1>1, <2>1, ApplyKeepsStores
<1>2. CASE ~\E w \in Workers : Apply(f, w)
  <2>1. store' = store
    BY <1>2, OnlyApplyStores DEF SystemInv
  <2>. QED
    BY <1>2, <2>1, UnappliedStays, StoresKept
<1>. QED
  BY <1>1, <1>2

\* So does a message that is sent, or given up.
LEMMA SendKeepsStores ==
  ASSUME SystemInv, StoreInv, NEW t \in Conns, Sends(t) \/ Retries(t)
  PROVE  StoreInv'
<1>0. ServerInv /\ WalkInPlace(t, lead[t]) /\ SystemTypeOK
  BY DEF SystemInv, LeadInPlace
<1>1. /\ UNCHANGED <<store, pending, lead>>
      /\ \A g \in Followers, w \in Workers : /\ work'[g][w].pc = work[g][w].pc
                                            /\ work'[g][w].req = work[g][w].req
      /\ conn'[t].st # "answered" /\ \A u \in Conns : u # t => conn'[u] = conn[u]
  <2>1. CASE Sends(t)
    <3>1. Target(t) \in Followers /\ Sent(lead[t]) \in Requests
      BY <1>0, <2>1, LeadFacts DEF Sends
    <3>. QED
      BY <1>0, <2>1, <3>1, ConnectFacts DEF Sends, server
  <2>2. CASE Retries(t)
    <3>1. conn'[t] = Closed
      BY <1>0, <2>2 DEF Retries, Disconnect, ServerInv, TypeOK
    <3>. QED
      BY <1>0, <2>2, <3>1, EndOfWait DEF Retries, server, Closed
  <2>. QED
    BY <2>1, <2>2
<1>2. \A g \in Followers : \A r : Unapplied(g, r) => Unapplied(g, r)'
  BY <1>1, SameStores
<1>3. ASSUME NEW u \in Conns, Committing(u), conn[u].st # "answered",
             Unapplied(Target(u), lead[u].req)
      PROVE  conn'[u].st # "answered" /\ Unapplied(Target(u), lead[u].req)'
  <2>1. Target(u) \in Followers /\ Target(u)' = Target(u)
    BY <1>1, <1>3, TransactionFacts DEF Committing, InTransaction, Target
  <2>2. ASSUME NEW g, g = Target(u), NEW r, r = lead[u].req PROVE Unapplied(g, r)'
    BY <1>2, <1>3, <2>1, <2>2
  <2>. QED
    BY <1>1, <1>3, <2>1, <2>2
<1>. QED
  BY <1>1, <1>3, StoresKept

\* The decision to commit: the replicas agree, and the first one is prepared.
LEMMA DecideKeepsStores ==
  ASSUME SystemInv, Undisturbed, TransactionInv, StoreInv, NEW t \in Conns, NEW y \in LeadRecords,
         Moves(t, y), Counts(t, y), y.pc = "phase2", ~y.abort,
         NEW k, k = y.req.key
  PROVE  /\ \A j \in 1..Redundancy : Held(k, j) = Held(k, Redundancy)
         /\ Replica(k, 1) \in Followers /\ Unapplied(Replica(k, 1), y.req)
<1>0. /\ lead[t].pc = "phase1" /\ y.req = lead[t].req /\ InTransaction(t) /\ ServerInv
      /\ ~lead[t].abort /\ conn[t].st = "answered" /\ conn[t].res = Vote
  BY DEF Counts, InTransaction, SystemInv
<1>1. /\ k \in Keys /\ lead[t].i \in 1..Redundancy /\ Redundancy \in Nat /\ 1 \in 1..Redundancy
      /\ k = lead[t].req.key
  BY <1>0, TransactionFacts, SystemAssumption
<1>2. Replica(k, 1) \in Followers /\ up[Replica(k, 1)]
  BY <1>1, ReplicaFacts DEF TransactionInv, Undisturbed
<1>3. Phase1InPlace(lead[t], conn[t], 1, Replica(k, 1))
  BY <1>0, <1>1 DEF TransactionInv, ReplicasInPlace
<1>4. Prepared(Replica(k, 1), lead[t].req)
  <2>1. CASE 1 = lead[t].i
    BY <1>0, <1>3, <2>1 DEF Phase1InPlace
  <2>2. CASE 1 < lead[t].i
    BY <1>0, <1>3, <2>2 DEF Phase1InPlace
  <2>. QED
    BY <1>1, <2>1, <2>2
<1>5. Agreeing(k)
  <2>1. ASSUME NEW u \in Conns, Committing(u) PROVE FALSE
    BY <1>0, <2>1, OneTransaction DEF Committing, InTransaction
  <2>. QED
    BY <1>1, <2>1 DEF StoreInv
<1>. QED
  BY <1>0, <1>2, <1>4, <1>5, PreparedIsUnapplied DEF Agreeing

\* An acknowledgement: the replica that gave it holds the outcome, and the next
\* one is prepared.
LEMMA AckKeepsStores ==
  ASSUME SystemInv, Undisturbed, TransactionInv, StoreInv, NEW t \in Conns, NEW y \in LeadRecords,
         Moves(t, y), Acks(t, y), ~y.abort, NEW k, k = y.req.key, k \notin BadKeys
  PROVE  /\ \A j \in 1..Redundancy : j <= lead[t].i => Held(k, j) = y.req.val
         /\ \A j \in 1..Redundancy : j > lead[t].i =>
              /\ Held(k, j) = Held(k, Redundancy)
              /\ Replica(k, j) \in Followers /\ Unapplied(Replica(k, j), y.req)
<1>0. /\ lead[t].pc = "phase2" /\ y.req = lead[t].req /\ InTransaction(t) /\ ServerInv
      /\ ~lead[t].abort /\ conn[t].st = "answered" /\ Committing(t)
  BY DEF Acks, InTransaction, SystemInv, Committing
<1>1. k \in Keys /\ lead[t].i \in 1..Redundancy /\ Redundancy \in Nat /\ k = lead[t].req.key
  BY <1>0, TransactionFacts, SystemAssumption
<1>2. CommitInPlace(t)
  BY <1>0, <1>1 DEF StoreInv
<1>3. ASSUME NEW j \in 1..Redundancy, j <= lead[t].i PROVE Held(k, j) = y.req.val
  <2>1. CASE j < lead[t].i
    BY <1>0, <1>1, <1>2, <2>1 DEF CommitInPlace
  <2>2. CASE j = lead[t].i
    BY <1>0, <1>1, <1>2, <2>2 DEF CommitInPlace
  <2>. QED
    BY <1>1, <1>3, <2>1, <2>2
<1>4. ASSUME NEW j \in 1..Redundancy, j > lead[t].i
      PROVE  /\ Held(k, j) = Held(k, Redundancy)
             /\ Replica(k, j) \in Followers /\ Unapplied(Replica(k, j), y.req)
  <2>1. Held(k, j) = Held(k, Redundancy)
    BY <1>1, <1>2, <1>4 DEF CommitInPlace
  <2>2. Replica(k, j) \in Followers /\ up[Replica(k, j)]
    BY <1>1, ReplicaFacts DEF TransactionInv, Undisturbed
  <2>3. Phase2InPlace(lead[t], conn[t], j, Replica(k, j))
    BY <1>0, <1>1 DEF TransactionInv, ReplicasInPlace
  <2>4. Prepared(Replica(k, j), lead[t].req)
    BY <1>0, <1>4, <2>3 DEF Phase2InPlace
  <2>. QED
    BY <1>0, <2>1, <2>2, <2>4, PreparedIsUnapplied
<1>. QED
  BY <1>3, <1>4

\* A thread that moves on keeps the stores in place.
LEMMA MoveKeepsStores ==
  ASSUME SystemInv, Undisturbed, TransactionInv, StoreInv, NEW t \in Conns, NEW y \in LeadRecords,
         Moves(t, y)
  PROVE  StoreInv'
<1>0. /\ ServerInv /\ lead' = [lead EXCEPT ![t] = y] /\ lead \in [Conns -> LeadRecords]
      /\ conn'[t].st = "closed" /\ (Disconnect(t) \/ UNCHANGED serverVars)
      /\ Asks(t, y) \/ Counts(t, y) \/ Acks(t, y) \/ Reads(t, y) \/ Ends(t, y)
      /\ WalkInPlace(t, y)
  BY DEF SystemInv, Moves, SystemTypeOK, LeadRecords
<1>1. /\ lead'[t] = y /\ \A u \in Conns : u # t => lead'[u] = lead[u] /\ conn'[u] = conn[u]
      /\ UNCHANGED <<store, pending>>
      /\ \A g \in Followers, w \in Workers : /\ work'[g][w].pc = work[g][w].pc
                                            /\ work'[g][w].req = work[g][w].req
  BY <1>0, EndOfWait DEF server
<1>2. /\ \A k, j : Held(k, j)' = Held(k, j)
      /\ \A g \in Followers : \A r : Unapplied(g, r) => Unapplied(g, r)'
  BY <1>1, SameStores
<1>3. \A k : Agreeing(k)' <=> Agreeing(k)
  BY <1>2 DEF Agreeing
<1>4. Redundancy \in Nat /\ Redundancy >= 1 /\ 1 \in 1..Redundancy /\ Redundancy \in 1..Redundancy
  BY SystemAssumption
<1>5. ASSUME NEW u \in Conns, u # t, Committing(u), lead[u].req.key \notin BadKeys
      PROVE  Committing(u)' /\ CommitInPlace(u)'
  <2>1. CommitInPlace(u) /\ Committing(u)'
    BY <1>1, <1>5 DEF StoreInv, Committing
  <2>2. Target(u) \in Followers /\ Target(u)' = Target(u)
    BY <1>1, <1>5, TransactionFacts DEF Committing, InTransaction, Target
  <2>3. ASSUME NEW g, g = Target(u), NEW r, r = lead[u].req, Unapplied(g, r)
        PROVE  Unapplied(g, r)'
    BY <1>2, <2>2, <2>3
  <2>4. Unapplied(Target(u), lead[u].req) => Unapplied(Target(u), lead[u].req)'
    BY <1>1, <1>5, <2>2, <2>3
  <2>. QED
    BY <1>1, <1>2, <1>5, <2>1, <2>4 DEF CommitInPlace
<1>6. ASSUME Committing(t)', y.req.key \notin BadKeys PROVE CommitInPlace(t)'
  <2>0. y.pc = "phase2" /\ ~y.abort
    BY <1>1, <1>6 DEF Committing
  <2>1. SUFFICES ASSUME NEW k, k = y.req.key, NEW i, i = y.i, NEW r, r = y.req
                 PROVE  /\ i \in 1..Redundancy
                        /\ \A j \in 1..Redundancy : j < i => Held(k, j) = r.val
                        /\ \A j \in 1..Redundancy : j > i => Held(k, j) = Held(k, Redundancy)
                        /\ Held(k, i) = Held(k, Redundancy)
                        /\ Replica(k, i) \in Followers /\ Unapplied(Replica(k, i), r)
    <3>1. PICK k : k = y.req.key
      OBVIOUS
    <3>2. PICK i : i = y.i
      OBVIOUS
    <3>3. /\ \A j \in 1..Redundancy : j < i => Held(k, j)' = y.req.val
          /\ \A j \in 1..Redundancy : j > i => Held(k, j)' = Held(k, Redundancy)'
          /\ Held(k, i)' = Held(k, Redundancy)'
          /\ Unapplied(Replica(k, i), y.req)'
      BY <1>2, <2>1, <3>1, <3>2
    <3>4. Target(t)' = Replica(k, i)
      BY <1>1, <3>1, <3>2 DEF Target
    <3>. QED
      BY <1>0, <1>1, <3>1, <3>2, <3>3, <3>4 DEF CommitInPlace
  <2>2. CASE Counts(t, y)
    <3>1. i = 1
      BY <2>0, <2>1, <2>2, <1>0, TransactionFacts DEF Counts, InTransaction
    <3>2. /\ \A j \in 1..Redundancy : Held(k, j) = Held(k, Redundancy)
          /\ Replica(k, 1) \in Followers /\ Unapplied(Replica(k, 1), r)
      BY <2>0, <2>1, <2>2, DecideKeepsStores
    <3>. QED
      BY <1>4, <3>1, <3>2
  <2>3. CASE Acks(t, y)
    <3>1. lead[t].i \in 1..Redundancy /\ i = lead[t].i + 1 /\ lead[t].i # Redundancy
      BY <2>0, <2>1, <2>3, TransactionFacts DEF Acks, InTransaction
    <3>2. i \in 1..Redundancy
      BY <1>4, <3>1
    <3>3. /\ \A j \in 1..Redundancy : j <= lead[t].i => Held(k, j) = r.val
          /\ \A j \in 1..Redundancy : j > lead[t].i =>
               /\ Held(k, j) = Held(k, Redundancy)
               /\ Replica(k, j) \in Followers /\ Unapplied(Replica(k, j), r)
      BY <1>6, <2>0, <2>1, <2>3, AckKeepsStores
    <3>4. /\ i > lead[t].i /\ \A j \in 1..Redundancy : j < i => j <= lead[t].i
          /\ \A j \in 1..Redundancy : j > i => j > lead[t].i
      BY <1>4, <3>1
    <3>. QED
      BY <3>2, <3>3, <3>4
  <2>. QED
    BY <1>0, <2>0, <2>2, <2>3 DEF Asks, Reads, Ends
<1>7. ASSUME y.pc = "done", Acks(t, y), lead[t].req.key \notin BadKeys, ~lead[t].abort
      PROVE  \A j \in 1..Redundancy : Held(lead[t].req.key, j) = lead[t].req.val
  <2>1. lead[t].i = Redundancy /\ ~y.abort /\ y.req = lead[t].req
    BY <1>7 DEF Acks
  <2>2. \A j \in 1..Redundancy : j <= Redundancy
    BY <1>4
  <2>. QED
    BY <1>7, <2>1, <2>2, AckKeepsStores
<1>8. ASSUME NEW k \in Keys
      PROVE  Agreeing(k) \/ \E u \in Conns : Committing(u)' /\ lead'[u].req.key = k
  <2>1. ASSUME NEW u \in Conns, Committing(u), lead[u].req.key = k, ~Committing(u)' \/ lead'[u].req # lead[u].req
        PROVE  Agreeing(k)
    <3>1. u = t /\ lead[t].pc = "phase2" /\ ~lead[t].abort
      BY <1>1, <2>1 DEF Committing
    <3>2. Acks(t, y)
      BY <1>0, <3>1 DEF Asks, Counts, Reads, Ends
    <3>3. y.pc = "done"
      BY <1>1, <2>1, <3>1, <3>2 DEF Acks, Committing
    <3>4. CASE k \notin BadKeys
      BY <1>4, <1>7, <2>1, <3>1, <3>2, <3>3, <3>4 DEF Agreeing
    <3>5. CASE k \in BadKeys
      <4>1. \A j \in 1..Redundancy : Held(k, j) = NULL
        BY <3>5, ReplicaFacts DEF StoreInv, Held
      <4>. QED
        BY <1>4, <4>1 DEF Agreeing
    <3>. QED
      BY <3>4, <3>5
  <2>. QED
    BY <2>1 DEF StoreInv
<1>9. ASSUME NEW u \in Conns, lead'[u].pc = "done", lead'[u].req \in Writes, lead'[u].res = "SUCCESS",
             lead'[u].req.key \notin BadKeys
      PROVE  \A j \in 1..Redundancy : Held(lead'[u].req.key, j) = lead'[u].req.val
  <2>1. CASE u # t
    BY <1>1, <1>9, <2>1 DEF StoreInv
  <2>2. CASE u = t
    <3>1. y.pc = "done" /\ y.req \in Writes /\ y.res = "SUCCESS"
      BY <1>1, <1>9, <2>2
    <3>2. ~Asks(t, y) /\ ~Ends(t, y)
      BY <3>1 DEF Asks, Ends
    <3>3. ~Counts(t, y)
      BY <3>1 DEF Counts
    <3>4. ~Reads(t, y)
      <4>1. ASSUME lead[t].pc = "get" PROVE lead[t].req \in GetRequests
        BY <4>1 DEF SystemInv, LeadInPlace, WalkInPlace
      <4>. QED
        BY <3>1, <4>1, NullFacts DEF Reads
    <3>5. Acks(t, y) /\ y.req = lead[t].req /\ ~lead[t].abort
      BY <1>0, <3>1, <3>2, <3>3, <3>4 DEF Acks
    <3>. QED
      BY <1>1, <1>7, <1>9, <2>2, <3>1, <3>5
  <2>. QED
    BY <2>1, <2>2
<1>10. ASSUME NEW u \in Conns, Committing(u)', lead'[u].req.key \notin BadKeys PROVE CommitInPlace(u)'
  <2>1. CASE u = t
    BY <1>1, <1>6, <1>10, <2>1
  <2>2. CASE u # t
    BY <1>1, <1>5, <1>10, <2>2 DEF Committing
  <2>. QED
    BY <2>1, <2>2
<1>11. ASSUME NEW u \in Conns, lead'[u].pc = "done", lead'[u].req \in Writes, lead'[u].res = "SUCCESS",
              lead'[u].req.key \notin BadKeys
       PROVE  \A j \in 1..Redundancy : (Held(lead[u].req.key, j) = lead[u].req.val)'
  <2>1. PICK k : k = lead'[u].req.key
    OBVIOUS
  <2>2. \A j \in 1..Redundancy : Held(k, j)' = lead'[u].req.val
    BY <1>2, <1>9, <1>11, <2>1
  <2>. QED
    BY <2>1, <2>2 DEF Held
<1>12. \A k \in Keys, f \in Followers : f \notin Replicas(k) \/ k \in BadKeys => store'[f][k] = NULL
  BY <1>1 DEF StoreInv
<1>13. \A k \in Keys : Agreeing(k)' \/ \E u \in Conns : Committing(u)' /\ lead'[u].req.key = k
  BY <1>3, <1>8
<1>. QED
  BY <1>10, <1>11, <1>12, <1>13 DEF StoreInv

-----------------------------------------------------------------------------
(* What a GET finds *)

\* The first replica shows its value; without any value nothing is shown.
LEMMA ViewShows ==
  TypeOK => \A l \in Keys :
              /\ Held(l, 1) # NULL => view[l] = Held(l, 1)
              /\ (\A j \in 1..Redundancy : Held(l, j) = NULL) => view[l] = NULL
              /\ view[l] = NULL \/ \E j \in 1..Redundancy : view[l] = Held(l, j)
<1>. SUFFICES ASSUME TypeOK, NEW k \in Keys
              PROVE  /\ Held(k, 1) # NULL => view[k] = Held(k, 1)
                     /\ (\A j \in 1..Redundancy : Held(k, j) = NULL) => view[k] = NULL
                     /\ view[k] = NULL \/ \E j \in 1..Redundancy : view[k] = Held(k, j)
  OBVIOUS
<1>1. Redundancy \in Nat /\ 1 \in 1..Redundancy
  BY SystemAssumption
<1>2. CASE view[k] = NULL /\ \A j \in 1..Redundancy : store[Replica(k, j)][k] = NULL
  BY <1>1, <1>2 DEF Held
<1>3. ASSUME NEW i \in 1..Redundancy, view[k] = store[Replica(k, i)][k], view[k] # NULL,
             \A j \in 1..Redundancy : j < i => store[Replica(k, j)][k] = NULL
      PROVE  /\ Held(k, 1) # NULL => view[k] = Held(k, 1)
             /\ (\A j \in 1..Redundancy : Held(k, j) = NULL) => view[k] = NULL
             /\ \E j \in 1..Redundancy : view[k] = Held(k, j)
  <2>1. CASE i = 1
    BY <1>3, <2>1 DEF Held
  <2>2. CASE 1 < i
    BY <1>1, <1>3, <2>2 DEF Held
  <2>. QED
    BY <1>1, <2>1, <2>2
<1>. QED
  BY <1>2, <1>3, ViewFacts

\* When the first replica has no value, the others have none or the last one's.
LEMMA FirstWithout ==
  ASSUME SystemInv, StoreInv, NEW k \in Keys, Held(k, 1) = NULL
  PROVE  \A j \in 1..Redundancy : Held(k, j) \in {NULL, Held(k, Redundancy)}
<1>1. Redundancy \in Nat /\ 1 \in 1..Redundancy /\ Redundancy \in 1..Redundancy
  BY SystemAssumption
<1>2. CASE Agreeing(k)
  BY <1>2 DEF Agreeing
<1>3. CASE k \in BadKeys
  BY <1>3, ReplicaFacts DEF StoreInv, Held
<1>4. ASSUME NEW t \in Conns, Committing(t), lead[t].req.key = k, k \notin BadKeys,
             NEW j \in 1..Redundancy
      PROVE  Held(k, j) \in {NULL, Held(k, Redundancy)}
  <2>1. lead[t].i \in 1..Redundancy /\ CommitInPlace(t)
    BY <1>4, TransactionFacts DEF StoreInv, Committing, InTransaction
  <2>2. PICK i \in 1..Redundancy : i = lead[t].i
    BY <2>1
  <2>3. PICK v : v = lead[t].req.val
    OBVIOUS
  <2>4. /\ \A l \in 1..Redundancy : l < i => Held(k, l) = v
        /\ \A l \in 1..Redundancy : l > i => Held(k, l) = Held(k, Redundancy)
        /\ Held(k, i) \in {v, Held(k, Redundancy)}
    BY <1>4, <2>1, <2>2, <2>3 DEF CommitInPlace
  <2>5. CASE i = 1
    BY <1>1, <2>2, <2>4, <2>5
  <2>6. CASE 1 < i
    BY <1>1, <2>2, <2>4, <2>6
  <2>. QED
    BY <1>1, <2>2, <2>5, <2>6
<1>. QED
  BY <1>2, <1>3, <1>4 DEF StoreInv

\* So a GET that is past the first replica has seen what there is to find.
LEMMA FirstIsPassed ==
  ASSUME SystemInv, StoreInv, NEW t \in Conns, NEW k \in Keys, Held(k, 1) = NULL,
         view[k] \in seen[t]
  PROVE  PastFirst(t, k)
<1>1. TypeOK /\ Redundancy \in 1..Redundancy
  BY SystemAssumption DEF SystemInv, ServerInv
<1>2. \A j \in 1..Redundancy : Held(k, j) \in {NULL, Held(k, Redundancy)}
  BY FirstWithout
<1>3. CASE Held(k, Redundancy) = NULL
  BY <1>1, <1>2, <1>3, ViewShows DEF PastFirst
<1>4. CASE Held(k, Redundancy) # NULL
  <2>1. view[k] = Held(k, Redundancy)
    <3>1. /\ view[k] = NULL \/ \E j \in 1..Redundancy : view[k] = Held(k, j)
      BY <1>1, ViewShows
    <3>2. view[k] # NULL
      BY <1>1, <1>4, ViewFacts DEF Held
    <3>. QED
      BY <1>2, <3>1, <3>2
  <2>. QED
    BY <1>2, <1>4, <2>1 DEF PastFirst
<1>. QED
  BY <1>3, <1>4

\* A COMMIT that is applied does not bring back what the GET has passed.
LEMMA ApplyKeepsPast ==
  ASSUME SystemInv, SystemInv', Undisturbed, TransactionInv, StoreInv, NEW f \in Followers,
         NEW w \in Workers, Apply(f, w), NEW t \in Conns, NEW k \in Keys, PastFirst(t, k),
         seen'[t] = seen[t] \cup {view'[k]}
  PROVE  PastFirst(t, k)'
<1>0. Redundancy \in Nat /\ 1 \in 1..Redundancy /\ Redundancy \in 1..Redundancy
  BY SystemAssumption
<1>1. PICK u \in Conns :
        /\ Committing(u) /\ lead[u].i \in 1..Redundancy
        /\ \A l \in Keys : \A j \in 1..Redundancy :
             Held(l, j)' = IF j = lead[u].i /\ l = lead[u].req.key /\ l \notin BadKeys
                           THEN lead[u].req.val ELSE Held(l, j)
  BY ApplyHeld
<1>2. /\ Held(k, 1)' # NULL => view'[k] = Held(k, 1)'
      /\ (\A j \in 1..Redundancy : Held(k, j)' = NULL) => view'[k] = NULL
  <2>1. TypeOK'
    BY DEF SystemInv, ServerInv
  <2>2. (TypeOK => \A l \in Keys :
              /\ Held(l, 1) # NULL => view[l] = Held(l, 1)
              /\ (\A j \in 1..Redundancy : Held(l, j) = NULL) => view[l] = NULL
              /\ view[l] = NULL \/ \E j \in 1..Redundancy : view[l] = Held(l, j))'
    BY ViewShows, PTL
  <2>. QED
    BY <2>1, <2>2
<1>3. CASE k # lead[u].req.key \/ k \in BadKeys
  BY <1>0, <1>1, <1>3 DEF PastFirst
<1>4. CASE k = lead[u].req.key /\ k \notin BadKeys
  <2>1. CommitInPlace(u)
    BY <1>1, <1>4 DEF StoreInv
  <2>2. PICK i \in 1..Redundancy : i = lead[u].i
    BY <1>1
  <2>3. PICK v : v = lead[u].req.val
    OBVIOUS
  <2>4. \A l \in 1..Redundancy : l < i => Held(k, l) = v
    BY <1>4, <2>1, <2>2, <2>3 DEF CommitInPlace
  <2>5. \A j \in 1..Redundancy : Held(k, j)' = IF j = i THEN v ELSE Held(k, j)
    BY <1>1, <1>4, <2>2, <2>3
  <2>6. ASSUME v # NULL PROVE v \in seen'[t]
    <3>1. CASE i = 1
      BY <1>0, <1>2, <2>5, <2>6, <3>1
    <3>2. CASE 1 < i
      BY <1>0, <2>4, <2>6, <3>2 DEF PastFirst
    <3>. QED
      BY <2>2, <3>1, <3>2
  <2>7. ASSUME v = NULL, i = Redundancy PROVE NULL \in seen'[t]
    <3>1. \A j \in 1..Redundancy : Held(k, j)' = NULL
      BY <1>0, <2>4, <2>5, <2>7
    <3>. QED
      BY <1>2, <3>1
  <2>8. \A j \in 1..Redundancy : Held(k, j)' # NULL => Held(k, j)' \in seen'[t]
    BY <2>5, <2>6 DEF PastFirst
  <2>9. Held(k, Redundancy)' = NULL => NULL \in seen'[t]
    BY <1>0, <2>5, <2>7 DEF PastFirst
  <2>. QED
    BY <2>8, <2>9 DEF PastFirst
<1>. QED
  BY <1>3, <1>4

\* The end of a wait brings no answer.
LEMMA WaitBringsNone ==
  ASSUME ServerInv, NEW c \in Conns, Disconnect(c) \/ UNCHANGED serverVars,
         NEW t \in Conns, t # c \/ conn'[t].st = "closed", NEW a, Answers(t, a)'
  PROVE  Answers(t, a)
<1>1. /\ conn'[t] = conn[t] \/ conn'[t].st = "closed"
      /\ \A g \in Followers, w \in Workers :
              /\ work'[g][w].pc = work[g][w].pc /\ work'[g][w].res = work[g][w].res
              /\ work'[g][w].from \in {NULL, work[g][w].from}
  BY EndOfWait
<1>. QED
  BY <1>1, NullFacts DEF Answers

\* What a follower's step does to a worker's answer.
LEMMA AnswerMade ==
  ASSUME ServerInv, NEW f \in Followers, FollowerStep(f), NEW v \in Workers,
         work'[f][v].pc = "reply", work'[f][v].from # NULL
  PROVE  \/ work'[f][v] = work[f][v]
         \/ ActGet(f, v)
         \/ work[f][v].req \in LogEntries
<1>0. TypeOK /\ WorkerInPlace(f, v)
  BY DEF ServerInv, WorkersInPlace
<1>1. ASSUME Die(f) PROVE FALSE
  BY <1>0, <1>1 DEF Die, TypeOK, Idle
<1>2. CASE Crash(f) \/ Restart(f)
  BY <1>1, <1>2 DEF Crash, Restart
<1>3. ASSUME NEW w \in Workers, WorkerStep(f, w), w # v PROVE work'[f][v] = work[f][v]
  <2>1. ~ApplyFaults(f, w)
    BY <1>1 DEF ApplyFaults
  <2>2. CASE Take(f, w) \/ Reply(f, w)
    BY <1>0, <1>3, <2>2 DEF Take, Reply, TypeOK
  <2>3. CASE \E label : Goto(f, w, label)
    BY <1>0, <1>3, <2>3 DEF Goto, TypeOK
  <2>4. CASE \E res : Answer(f, w, res)
    BY <1>0, <1>3, <2>4 DEF Answer, TypeOK
  <2>. QED
    BY <1>3, <2>1, <2>2, <2>3, <2>4 DEF WorkerStep, LogOpen, LogWrite, ActPut, ActDel, SetKey, SetVal,
       ActCommit, Apply, ActAbort, ClrKey, ClrVal, ClrMsg, ActGet
<1>4. ASSUME WorkerStep(f, v)
      PROVE  ActGet(f, v) \/ work[f][v].req \in LogEntries
  <2>1. CASE Take(f, v)
    BY <1>0, <2>1 DEF Take, TypeOK
  <2>2. CASE Reply(f, v)
    BY <1>0, <2>2 DEF Reply, TypeOK, Idle
  <2>. QED
    BY <1>4, <2>1, <2>2, WorkerIsAt DEF InFlight
<1>. QED
  BY <1>2, <1>3, <1>4 DEF FollowerStep

\* An answer that a GET gets was there, or a worker of the follower asked has
\* just looked it up.
LEMMA AnswersMoves ==
  ASSUME SystemInv, NEW f \in Followers, FollowerStep(f), NEW t \in Conns, lead[t].pc = "get",
         NEW a, Answers(t, a)', ~Answers(t, a)
  PROVE  /\ Target(t) = f /\ UNCHANGED store
         /\ LET v == store[f][lead[t].req.key]
            IN  a = IF v # NULL THEN Response("GETRESP", v) ELSE Error
<1>0. ServerInv /\ TypeOK /\ NULL # t
  BY NullFacts DEF SystemInv, ServerInv
<1>1. ~(conn'[t].st = "answered" /\ conn'[t].res = a)
  <2>. SUFFICES ASSUME conn'[t].st = "answered", conn'[t].res = a PROVE FALSE
    OBVIOUS
  <2>1. PICK w \in Workers : Reply(f, w) /\ work[f][w].from = t /\ conn'[t].res = work[f][w].res
    BY <1>0, ConnMoves DEF Answers
  <2>. QED
    BY <2>1 DEF Reply, At, Answers
<1>2. PICK g \in Followers, w \in Workers :
        work'[g][w].from = t /\ work'[g][w].pc = "reply" /\ work'[g][w].res = a
  BY <1>1 DEF Answers
<1>3. g = f
  <2>. SUFFICES ASSUME g # f PROVE FALSE
    OBVIOUS
  <2>1. work'[g] = work[g]
    BY <1>0, StepElsewhere
  <2>. QED
    BY <1>2, <2>1 DEF Answers
<1>4. work'[f][w] # work[f][w]
  BY <1>2, <1>3 DEF Answers
<1>5. work[f][w].from = t
  <2>1. work'[f][w].pc # "log" /\ work'[f][w].pc # "act"
    BY <1>2, <1>3
  <2>2. ~Take(f, w)
    BY <1>0, <2>1 DEF Take, TypeOK
  <2>. QED
    BY <1>0, <1>2, <1>3, <2>2, WorkMoves
<1>6. work[f][w].req = lead[t].req /\ lead[t].req \in GetRequests
  BY <1>0, <1>5 DEF SystemInv, MessagesInPlace, Sent, LeadInPlace, WalkInPlace
<1>7. ActGet(f, w)
  BY <1>0, <1>2, <1>3, <1>4, <1>6, AnswerMade, NullFacts
<1>8. Target(t) = f
  <2>1. conn[t].st = "open" /\ conn[t].to = f
    BY <1>0, <1>5 DEF ServerInv, ConnsInPlace
  <2>. QED
    BY <2>1 DEF SystemInv, LeadInPlace
<1>9. LET v == store[f][lead[t].req.key]
      IN  work'[f][w].res = IF v # NULL THEN Response("GETRESP", v) ELSE Error
  <2>. DEFINE v == store[f][lead[t].req.key]
              r == IF v # NULL THEN Response("GETRESP", v) ELSE Error
  <2>1. Answer(f, w, r)
    BY <1>6, <1>7 DEF ActGet
  <2>. HIDE DEF r
  <2>2. work'[f][w].res = r
    BY <1>0, <2>1, AnswerFields
  <2>. QED
    BY <2>2 DEF r
<1>. QED
  BY <1>2, <1>3, <1>7, <1>8, <1>9 DEF ActGet, server

-----------------------------------------------------------------------------
(* The steps of a GET *)

\* A GET in progress has seen what is shown now.
LEMMA SeenGrows ==
  ASSUME SeenNext, NEW t \in Conns, lead'[t].pc \in {"get", "done"},
         lead'[t].req.type = "GETREQ", NEW k, k = lead'[t].req.key
  PROVE  seen'[t] = seen[t] \cup {view'[k]}
BY DEF SeenNext

\* A step that lets the GET stay past what it has passed, and answers it, if at
\* all, with what the replica asked holds.
LEMMA GetStays ==
  ASSUME SystemInv, StoreInv, SeenNext, NEW t \in Conns, lead[t].pc = "get",
         lead'[t] = lead[t], GetInPlace(t), NEW k \in Keys, k = lead[t].req.key,
         PastFirst(t, k) => PastFirst(t, k)',
         \A a : Answers(t, a)' =>
           \/ Answers(t, a)
           \/ /\ UNCHANGED store
              /\ a = IF Held(k, lead[t].i) # NULL THEN Response("GETRESP", Held(k, lead[t].i)) ELSE Error
  PROVE  GetInPlace(t)'
<1>0. /\ TypeOK /\ lead[t].i \in 1..Redundancy /\ Redundancy \in Nat
      /\ 1 \in 1..Redundancy /\ Redundancy \in 1..Redundancy
      /\ lead[t].req.type = "GETREQ" /\ view[k] \in seen[t]
      /\ lead[t].i > 1 \/ Answers(t, Error) => PastFirst(t, k)
  BY SystemAssumption, RequestFacts DEF SystemInv, ServerInv, LeadInPlace, WalkInPlace, GetInPlace,
     GetRequests, Request
<1>1. seen'[t] = seen[t] \cup {view'[k]}
  BY <1>0, SeenGrows
<1>2. ASSUME UNCHANGED store
      PROVE  /\ \A l, j : Held(l, j)' = Held(l, j)
             /\ PastFirst(t, k) => PastFirst(t, k)'
  BY <1>1, <1>2 DEF Held, PastFirst
<1>3. PICK i \in 1..Redundancy : i = lead[t].i
  BY <1>0
<1>4. ASSUME UNCHANGED store, Held(k, i) = NULL PROVE PastFirst(t, k)
  <2>1. CASE i = 1
    BY <1>0, <1>4, <2>1, FirstIsPassed
  <2>2. CASE i > 1
    BY <1>0, <1>3, <2>2
  <2>. QED
    BY <1>3, <2>1, <2>2
<1>5. i > 1 \/ Answers(t, Error)' => PastFirst(t, k)'
  <2>1. CASE i > 1 \/ Answers(t, Error)
    BY <1>0, <1>3, <2>1
  <2>2. ASSUME UNCHANGED store,
               Error = IF Held(k, i) # NULL THEN Response("GETRESP", Held(k, i)) ELSE Error
        PROVE  PastFirst(t, k)'
    <3>1. Held(k, i) = NULL
      BY <2>2 DEF Response, Error
    <3>. QED
      BY <1>2, <1>4, <2>2, <3>1
  <2>. QED
    BY <1>3, <2>1, <2>2
<1>6. ASSUME NEW a \in Responses, Answers(t, a)'
      PROVE  \/ a.type = "GETRESP" /\ a.body \in seen'[t]
             \/ a = Error /\ (i = Redundancy => NULL \in seen'[t])
  <2>1. CASE Answers(t, a)
    <3>1. \/ a.type = "GETRESP" /\ a.body \in seen[t]
          \/ a = Error /\ (i = Redundancy => NULL \in seen[t])
      BY <1>3, <1>6, <2>1 DEF GetInPlace
    <3>. QED
      BY <1>1, <3>1
  <2>2. ASSUME Held(k, i) # NULL, a = Response("GETRESP", Held(k, i))
        PROVE  a.type = "GETRESP" /\ a.body \in seen'[t]
    <3>1. a.type = "GETRESP" /\ a.body = Held(k, i)
      BY <2>2 DEF Response
    <3>2. Held(k, i) \in seen[t]
      <4>1. CASE i = 1
        BY <1>0, <2>2, <4>1, ViewShows
      <4>2. CASE i > 1
        BY <1>0, <1>3, <2>2, <4>2 DEF PastFirst
      <4>. QED
        BY <1>3, <4>1, <4>2
    <3>. QED
      BY <1>1, <3>1, <3>2
  <2>3. ASSUME UNCHANGED store, Held(k, i) = NULL, a = Error
        PROVE  i = Redundancy => NULL \in seen'[t]
    <3>1. PastFirst(t, k)
      BY <1>4, <2>3
    <3>. QED
      BY <1>1, <2>3, <3>1 DEF PastFirst
  <2>. QED
    BY <1>3, <1>6, <2>1, <2>2, <2>3
<1>7. view'[k] \in seen'[t]
  BY <1>1
<1>. QED
  BY <1>3, <1>5, <1>6, <1>7 DEF GetInPlace

\* A GET begins: it has seen what is shown, and nobody answers it yet.
LEMMA GetBegins ==
  ASSUME ServerInv', SeenNext, NEW t \in Conns, lead'[t].pc = "get", lead'[t].req \in GetRequests,
         lead'[t].i = 1, conn'[t].st = "closed"
  PROVE  GetInPlace(t)'
<1>1. \A a : ~Answers(t, a)'
  <2>1. ASSUME NEW f \in Followers, NEW w \in Workers PROVE work'[f][w].from # t
    BY NullFacts DEF ServerInv, ConnsInPlace
  <2>. QED
    BY <2>1 DEF Answers
<1>2. lead'[t].req.type = "GETREQ"
  BY DEF GetRequests, Request
<1>3. PICK k : k = lead'[t].req.key
  OBVIOUS
<1>4. view'[k] \in seen'[t]
  BY <1>2, <1>3, SeenGrows
<1>. QED
  BY <1>1, <1>3, <1>4 DEF GetInPlace

\* A step that leaves the stores and brings a thread no answer keeps its GET.
LEMMA GetUndisturbed ==
  ASSUME SystemInv, StoreInv, SeenNext, NEW t \in Conns, lead'[t] = lead[t], GetHolds(t),
         UNCHANGED store, \A a : Answers(t, a)' => Answers(t, a)
  PROVE  GetHolds(t)'
<1>1. ASSUME lead[t].pc = "get" PROVE GetInPlace(t)'
  <2>1. PICK k \in Keys : k = lead[t].req.key
    BY <1>1, LeadFacts DEF SystemInv, LeadInPlace, Working
  <2>2. lead[t].req.type = "GETREQ"
    BY <1>1 DEF SystemInv, LeadInPlace, WalkInPlace, GetRequests, Request
  <2>3. seen'[t] = seen[t] \cup {view'[k]}
    BY <1>1, <2>1, <2>2, SeenGrows
  <2>4. PastFirst(t, k) => PastFirst(t, k)'
    BY <2>3 DEF PastFirst, Held
  <2>. QED
    BY <1>1, <2>1, <2>4, GetStays DEF GetHolds
<1>2. ASSUME lead[t].pc = "done", lead[t].req.type = "GETREQ" PROVE lead'[t].res \in seen'[t]
  BY <1>2, SeenGrows DEF GetHolds
<1>. QED
  BY <1>1, <1>2 DEF GetHolds

\* A step of a follower.
LEMMA FollowerKeepsGets ==
  ASSUME SystemInv, SystemInv', Undisturbed, TransactionInv, StoreInv, GetInv, NEW f \in Followers,
         FollowerStep(f), lead' = lead, SeenNext
  PROVE  GetInv'
<1>. SUFFICES ASSUME NEW t \in Conns PROVE GetHolds(t)'
  BY DEF GetInv
<1>0. ServerInv /\ GetHolds(t)
  BY DEF SystemInv, GetInv
<1>1. ASSUME lead[t].pc = "get" PROVE GetInPlace(t)'
  <2>1. PICK k \in Keys : k = lead[t].req.key
    BY <1>1, LeadFacts DEF SystemInv, LeadInPlace, Working
  <2>2. lead[t].req.type = "GETREQ"
    BY <1>1 DEF SystemInv, LeadInPlace, WalkInPlace, GetRequests, Request
  <2>3. seen'[t] = seen[t] \cup {view'[k]}
    BY <1>1, <2>1, <2>2, SeenGrows
  <2>4. PastFirst(t, k) => PastFirst(t, k)'
    <3>1. CASE store' = store
      BY <2>3, <3>1 DEF PastFirst, Held
    <3>2. CASE \E w \in Workers : Apply(f, w)
      BY <2>1, <2>3, <3>2, ApplyKeepsPast
    <3>. QED
      BY <1>0, <3>1, <3>2, OnlyApplyStores
  <2>5. ASSUME NEW a, Answers(t, a)', ~Answers(t, a)
        PROVE  /\ UNCHANGED store
               /\ a = IF Held(k, lead[t].i) # NULL THEN Response("GETRESP", Held(k, lead[t].i))
                      ELSE Error
    <3>1. Target(t) = f /\ UNCHANGED store
      BY <1>1, <2>5, AnswersMoves
    <3>2. Held(k, lead[t].i) = store[f][k]
      BY <2>1, <3>1 DEF Held, Target
    <3>. QED
      BY <1>1, <2>1, <2>5, <3>1, <3>2, AnswersMoves
  <2>. QED
    BY <1>0, <1>1, <2>1, <2>4, <2>5, GetStays DEF GetHolds
<1>2. ASSUME lead[t].pc = "done", lead[t].req.type = "GETREQ" PROVE lead'[t].res \in seen'[t]
  BY <1>0, <1>2, SeenGrows DEF GetHolds
<1>. QED
  BY <1>1, <1>2 DEF GetHolds

\* A message that is sent, or given up.
LEMMA SendKeepsGets ==
  ASSUME SystemInv, StoreInv, GetInv, NEW t \in Conns, Sends(t) \/ Retries(t), SeenNext
  PROVE  GetInv'
<1>0. ServerInv /\ WalkInPlace(t, lead[t]) /\ SystemTypeOK
  BY DEF SystemInv, LeadInPlace
<1>1. UNCHANGED <<lead, store>> /\ \A u \in Conns : \A a : Answers(u, a)' => Answers(u, a)
  <2>1. CASE Sends(t)
    <3>1. Target(t) \in Followers /\ Sent(lead[t]) \in Requests
      BY <1>0, <2>1, LeadFacts DEF Sends
    <3>2. /\ UNCHANGED <<store, work, lead>> /\ conn'[t].st = "open"
          /\ \A u \in Conns : u # t => conn'[u] = conn[u]
      BY <1>0, <2>1, <3>1, ConnectFacts DEF Sends, server
    <3>. QED
      BY <3>2 DEF Answers
  <2>2. CASE Retries(t)
    <3>1. conn'[t].st = "closed" /\ Disconnect(t) /\ UNCHANGED <<lead, store>>
      BY <1>0, <2>2 DEF Retries, Disconnect, ServerInv, TypeOK, Closed, server
    <3>. QED
      BY <1>0, <3>1, WaitBringsNone
  <2>. QED
    BY <2>1, <2>2
<1>. QED
  BY <1>1, GetUndisturbed DEF GetInv

\* A thread that moves on: a GET ends with a value it was given, or with none
\* once the last replica had none.
LEMMA MoveKeepsGets ==
  ASSUME SystemInv, SystemInv', Undisturbed, TransactionInv, StoreInv, GetInv, NEW t \in Conns,
         NEW y \in LeadRecords, Moves(t, y), SeenNext
  PROVE  GetInv'
<1>0. /\ ServerInv /\ ServerInv' /\ lead' = [lead EXCEPT ![t] = y] /\ lead \in [Conns -> LeadRecords]
      /\ conn'[t].st = "closed" /\ (Disconnect(t) \/ UNCHANGED serverVars)
      /\ Asks(t, y) \/ Counts(t, y) \/ Acks(t, y) \/ Reads(t, y) \/ Ends(t, y)
      /\ WalkInPlace(t, y)
  BY DEF SystemInv, Moves, SystemTypeOK, LeadRecords
<1>1. lead'[t] = y /\ (\A u \in Conns : u # t => lead'[u] = lead[u]) /\ UNCHANGED store
  BY <1>0, EndOfWait DEF server
<1>2. ASSUME NEW u \in Conns, u # t PROVE GetHolds(u)'
  <2>1. \A a : Answers(u, a)' => Answers(u, a)
    BY <1>0, <1>2, WaitBringsNone
  <2>. QED
    BY <1>1, <1>2, <2>1, GetUndisturbed DEF GetInv
<1>. SUFFICES GetHolds(t)'
  BY <1>2 DEF GetInv
<1>3. CASE Asks(t, y)
  <2>1. y.pc # "done" /\ y.i = 1
    BY <1>3 DEF Asks
  <2>2. y.pc = "get" => y.req \in GetRequests
    BY <1>0 DEF WalkInPlace
  <2>3. y.pc = "get" => GetInPlace(t)'
    BY <1>0, <1>1, <2>1, <2>2, GetBegins
  <2>. QED
    BY <1>1, <2>1, <2>3 DEF GetHolds
<1>4. CASE Reads(t, y)
  <2>1. /\ lead[t].pc = "get" /\ y.req = lead[t].req /\ lead[t].req \in GetRequests
        /\ GetInPlace(t) /\ y.req.type = "GETREQ" /\ up[Target(t)] /\ lead[t].i \in 1..Redundancy
    <3>1. lead[t].pc = "get" /\ y.req = lead[t].req
      BY <1>4 DEF Reads
    <3>2. lead[t].req \in GetRequests /\ Target(t) \in Followers /\ lead[t].i \in 1..Redundancy
      BY <3>1, LeadFacts DEF SystemInv, LeadInPlace, Working, WalkInPlace
    <3>. QED
      BY <3>1, <3>2 DEF GetInv, GetHolds, TransactionInv, Undisturbed, GetRequests, Request
  <2>2. conn[t].st = "answered" /\ conn[t].res \in Responses /\ Answers(t, conn[t].res)
    <3>1. conn[t].st = "answered"
      BY <1>4, <2>1 DEF Reads
    <3>. QED
      BY <1>0, <3>1 DEF ServerInv, ConnsInPlace, Answers
  <2>3. PICK k : k = y.req.key
    OBVIOUS
  <2>4. seen'[t] = seen[t] \cup {view'[k]} \/ y.pc \notin {"get", "done"}
    BY <1>1, <2>1, <2>3, SeenGrows
  <2>5. Error.type # "GETRESP"
    BY DEF Error, Response
  <2>6. CASE conn[t].res.type = "GETRESP"
    <3>1. conn[t].res.body \in seen[t]
      BY <2>1, <2>2, <2>5, <2>6 DEF GetInPlace
    <3>2. y.pc = "done" /\ y.res = conn[t].res.body
      BY <1>4, <2>1, <2>6 DEF Reads
    <3>. QED
      BY <1>1, <2>4, <3>1, <3>2 DEF GetHolds
  <2>7. CASE conn[t].res.type # "GETRESP"
    <3>1. conn[t].res = Error /\ Answers(t, Error)
      BY <2>1, <2>2, <2>7 DEF GetInPlace
    <3>2. PastFirst(t, k) /\ (lead[t].i = Redundancy => NULL \in seen[t])
      BY <2>1, <2>2, <2>3, <2>5, <3>1 DEF GetInPlace
    <3>3. CASE y.pc = "done" /\ lead[t].i = Redundancy /\ y.res = NULL
      BY <1>1, <2>4, <3>2, <3>3 DEF GetHolds
    <3>4. CASE y.pc = "get" /\ lead[t].i # Redundancy /\ y.i = lead[t].i + 1
      <4>1. PastFirst(t, k)'
        BY <1>1, <2>4, <3>2, <3>4 DEF PastFirst, Held
      <4>2. \A a : ~Answers(t, a)'
        <5>1. ASSUME NEW f \in Followers, NEW w \in Workers PROVE work'[f][w].from # t
          BY <1>0, NullFacts DEF ServerInv, ConnsInPlace
        <5>. QED
          BY <1>0, <5>1 DEF Answers
      <4>3. view'[k] \in seen'[t]
        BY <2>4, <3>4
      <4>. QED
        BY <1>1, <2>3, <3>4, <4>1, <4>2, <4>3 DEF GetHolds, GetInPlace
    <3>. QED
      BY <1>4, <2>1, <2>7, <3>3, <3>4 DEF Reads
  <2>. QED
    BY <2>6, <2>7
<1>5. CASE Counts(t, y) \/ Acks(t, y) \/ Ends(t, y)
  <2>1. y.pc # "get" /\ (y.pc = "done" => y.req = lead[t].req /\ lead[t].pc = "phase2")
    BY <1>5 DEF Counts, Acks, Ends
  <2>2. y.pc = "done" => y.req.type # "GETREQ"
    BY <2>1, RequestFacts, NullFacts DEF SystemInv, LeadInPlace, WalkInPlace
  <2>. QED
    BY <1>1, <2>1, <2>2 DEF GetHolds
<1>. QED
  BY <1>0, <1>3, <1>4, <1>5

\* The replicas hold nothing at first, and nobody asks.
LEMMA SmoothInit == Init => SmoothInv
<1>. SUFFICES ASSUME Init PROVE StoreInv /\ GetInv
  BY DEF SmoothInv
<1>1. /\ \A f \in Followers, k \in Keys : store[f][k] = NULL
      /\ \A t \in Conns : lead[t].pc = "idle"
  BY DEF Init, ServerInit, LeaderIdle
<1>2. \A k \in Keys : Agreeing(k)
  <2>1. \A k \in Keys : \A j \in 1..Redundancy : Held(k, j) = NULL
    BY <1>1, ReplicaFacts DEF Held
  <2>2. Redundancy \in 1..Redundancy
    BY SystemAssumption
  <2>. QED
    BY <2>1, <2>2 DEF Agreeing
<1>. QED
  BY <1>1, <1>2 DEF StoreInv, GetInv, GetHolds, Committing

\* A step that ends undisturbed began so.
LEMMA UndisturbedBack ==
  ASSUME SystemInv, SystemNext, Undisturbed'
  PROVE  Undisturbed
<1>0. TypeOK /\ Orderly /\ crashes' = 0
  BY OrderlyBack DEF SystemInv, ServerInv, Undisturbed
<1>1. ASSUME NEW t \in Conns, ClientRequest(t) \/ ThreadStep(t) PROVE crashes' = crashes
  <2>1. CASE Sends(t)
    BY <2>1 DEF Sends, Connect, server
  <2>2. CASE Retries(t)
    BY <2>2 DEF Retries, Disconnect, server
  <2>3. ASSUME NEW y \in LeadRecords, Moves(t, y) PROVE crashes' = crashes
    BY <2>3 DEF Moves, Disconnect, server, serverVars
  <2>. QED
    BY <1>1, <2>1, <2>2, <2>3, ThreadStepShape
<1>2. ASSUME NEW f \in Followers, FollowerStep(f) PROVE crashes = 0
  BY <1>0, <1>2, CrashesCounted
<1>. QED
  BY <1>0, <1>1, <1>2 DEF SystemNext, Undisturbed

\* Every step keeps the stores and the reads in place.
LEMMA SmoothNextInv ==
  ASSUME SystemInv, WriterInv, SmoothInv, SystemInv', SystemNext
  PROVE  SmoothInv'
<1>. SUFFICES ASSUME Undisturbed' PROVE StoreInv' /\ GetInv'
  BY DEF SmoothInv
<1>0. Undisturbed /\ TransactionInv /\ StoreInv /\ GetInv /\ SeenNext
  BY UndisturbedBack DEF WriterInv, Undisturbed, SmoothInv, SystemNext
<1>1. ASSUME NEW t \in Conns, ClientRequest(t) \/ ThreadStep(t) PROVE StoreInv' /\ GetInv'
  <2>1. CASE Sends(t) \/ Retries(t)
    BY <1>0, <2>1, SendKeepsStores, SendKeepsGets
  <2>2. ASSUME NEW y \in LeadRecords, Moves(t, y) PROVE StoreInv' /\ GetInv'
    BY <1>0, <2>2, MoveKeepsStores, MoveKeepsGets
  <2>. QED
    BY <1>1, <2>1, <2>2, ThreadStepShape
<1>2. ASSUME NEW f \in Followers, FollowerStep(f), UNCHANGED leader PROVE StoreInv' /\ GetInv'
  <2>1. lead' = lead
    BY <1>2 DEF leader
  <2>. QED
    BY <1>0, <1>2, <2>1, FollowerKeepsStores, FollowerKeepsGets
<1>. QED
  BY <1>1, <1>2 DEF SystemNext

\* A step of nobody.
LEMMA SmoothStutters ==
  ASSUME SmoothInv, UNCHANGED vars
  PROVE  SmoothInv'
<1>. SUFFICES ASSUME Undisturbed' PROVE StoreInv' /\ GetInv'
  BY DEF SmoothInv
<1>0. UNCHANGED <<lead, conn, work, pending, store, seen>> /\ StoreInv /\ GetInv
  <2>1. UNCHANGED <<lead, conn, work, pending, store, seen, crossed, strayed, crashes>>
    BY DEF vars, serverVars, server, leader
  <2>2. Undisturbed
    BY <2>1 DEF Undisturbed, Orderly
  <2>. QED
    BY <2>1, <2>2 DEF SmoothInv
<1>1. \A t \in Conns : Unapplied(Target(t), lead[t].req) => Unapplied(Target(t), lead[t].req)'
  BY <1>0 DEF Unapplied, Target
<1>2. StoreInv'
  BY <1>0, <1>1, StoresKept
<1>3. \A t, a : Answers(t, a)' <=> Answers(t, a)
  BY <1>0 DEF Answers
<1>4. \A t, k : PastFirst(t, k)' <=> PastFirst(t, k)
  BY <1>0 DEF PastFirst, Held
<1>5. ASSUME NEW t \in Conns, GetInPlace(t) PROVE GetInPlace(t)'
  <2>1. PICK k : k = lead[t].req.key
    OBVIOUS
  <2>2. view' = view
    BY <1>0 DEF view
  <2>3. PastFirst(t, k)' <=> PastFirst(t, k)
    BY <1>4
  <2>. QED
    BY <1>0, <1>3, <1>5, <2>1, <2>2, <2>3 DEF GetInPlace
<1>. QED
  BY <1>0, <1>2, <1>5 DEF GetInv, GetHolds

\* As long as nothing disturbs the system, what the replicas hold and what a GET has
\* seen: an inductive invariant.
THEOREM SmoothInvariant == SystemSpec => []SmoothInv
<1>1. SystemInv /\ WriterInv /\ SystemInv' /\ SmoothInv /\ [SystemNext]_vars => SmoothInv'
  BY SmoothNextInv, SmoothStutters
<1>. QED
  BY <1>1, SmoothInit, SystemInvariant, WriterInvariant, PTL DEF SystemSpec

\* As long as nothing disturbs the system, once every transaction is over the
\* replicas of each key agree, and nobody else has it, with any number of workers
\* and whatever was late, refused or sent again (tpcleader.h:12-15).
THEOREM ReplicasStayAgreed == SystemSpec => []ReplicasAgree
<1>1. SmoothInv => ReplicasAgree
  <2>. SUFFICES ASSUME SmoothInv, Undisturbed, Quiet, NEW k \in Keys, NEW f \in Followers
                PROVE  store[f][k] = IF f \in Replicas(k) THEN store[Replica(k, 1)][k] ELSE NULL
    BY DEF ReplicasAgree, AlwaysReplicated
  <2>1. StoreInv /\ Agreeing(k)
    BY DEF SmoothInv, StoreInv, Committing, Quiet
  <2>2. 1 \in 1..Redundancy
    BY SystemAssumption
  <2>3. CASE f \in Replicas(k)
    <3>1. PICK j \in 1..Redundancy : f = Replica(k, j)
      BY <2>3 DEF Replicas
    <3>2. Held(k, j) = Held(k, 1)
      BY <2>1, <2>2 DEF Agreeing
    <3>. QED
      BY <2>3, <3>1, <3>2 DEF Held
  <2>4. CASE f \notin Replicas(k)
    BY <2>1, <2>4 DEF StoreInv
  <2>. QED
    BY <2>3, <2>4
<1>. QED
  BY <1>1, SmoothInvariant, PTL

\* As long as nothing disturbs the system, a PUT or DELETE answered SUCCESS is
\* stored at every replica of its key, unless the key fails its check
\* (tpcleader.c:230-270).
THEOREM SuccessesAreStored == SystemSpec => []SuccessIsStored
<1>1. SystemInv /\ SmoothInv => SuccessIsStored
  <2>. SUFFICES ASSUME SystemInv, SmoothInv, Undisturbed, NEW t \in Conns, lead[t].pc = "done",
                       lead[t].req.type # "GETREQ", lead[t].res = "SUCCESS",
                       lead[t].req.key \notin BadKeys,
                       NEW f \in Replicas(lead[t].req.key)
                PROVE  store[f][lead[t].req.key] = lead[t].req.val
    BY DEF SuccessIsStored, LeaderAt
  <2>1. lead[t].req \in Writes
    <3>1. lead[t].req \in Writes \cup GetRequests
      BY DEF SystemInv, LeadInPlace, WalkInPlace
    <3>. QED
      BY <3>1 DEF GetRequests, Request
  <2>2. \A j \in 1..Redundancy : Held(lead[t].req.key, j) = lead[t].req.val
    BY <2>1 DEF SmoothInv, StoreInv
  <2>. QED
    BY <2>2 DEF Held, Replicas
<1>. QED
  BY <1>1, SystemInvariant, SmoothInvariant, PTL

\* As long as nothing disturbs the system, a GET answers with a value the replicas
\* showed at some moment while it ran (tpcleader.c:146-170).
THEOREM GetsAreCurrent == SystemSpec => []GetIsCurrent
<1>1. SmoothInv => GetIsCurrent
  BY DEF SmoothInv, GetInv, GetHolds, GetIsCurrent, LeaderAt
<1>. QED
  BY <1>1, SmoothInvariant, PTL

=============================================================================
