-------------------------- MODULE HttpServerProofs --------------------------
(***************************************************************************)
(* Proofs about the web server, for any clients, requests, answers, buffer *)
(* sizes and command lines: no buffer overflows, the relay loses and       *)
(* doubles nothing, and a child that ends by itself has passed on the      *)
(* whole answer.                                                           *)
(***************************************************************************)
EXTENDS HttpServer, TLAPS

-----------------------------------------------------------------------------
(* The inductive invariant *)

IORecords(c) ==
  [todo : 0..ReqLen[c], up : 0..Cap, buf : 0..(Cap + RespLen[c]), tin : 0..Cap,
   taken : 0..ReqLen[c], answer : 0..RespLen[c], tdown : 0..Cap, down : 0..Cap,
   got : 0..RespLen[c], fin : BOOLEAN, quit : BOOLEAN, tfin : BOOLEAN, rst : BOOLEAN]

Places == Running \cup {"none", "done", "crashed"}

\* The parts of the request that have not been thrown away, and of the answer.
Asked(p, b) == b.todo + b.up + b.tin + b.taken + (IF p = "toTarget" THEN b.buf ELSE 0)
Told(p, b) == b.down + b.got + (IF p = "toClient" THEN b.buf ELSE 0)

\* Where a child is says which handler runs.
RunsHandler(h, p) ==
  /\ p # "none" => h \in {"files", "proxy"}
  /\ h = "files" => p \notin {"connect", "select", "toTarget"}
  /\ h = "proxy" => p # "parse"

\* The child has only been sent to: nothing has been read or answered.
Untouched(b, c) ==
  /\ b.todo + b.up = ReqLen[c] /\ b.buf = 0 /\ b.tin = 0 /\ b.taken = 0 /\ ~b.tfin
  /\ b.answer = RespLen[c] /\ b.tdown = 0 /\ b.down = 0 /\ b.got = 0

\* The relay between live peers neither loses nor doubles; while it writes to the
\* target, that has not read everything; and it stops only when the target has
\* ended and everything it sent is on its way, when the client has ended, or when
\* the target has gone with part of the request unread.
RelayInPlace(p, b, c) ==
  /\ p \in Running /\ ~b.tfin => Asked(p, b) = ReqLen[c]
  /\ p \in Running /\ ~b.quit => b.answer + b.tdown + Told(p, b) = RespLen[c]
  /\ p = "toTarget" => b.taken < ReqLen[c]
  /\ p = "close" /\ ~b.quit /\ ~b.fin /\ b.taken = ReqLen[c] => b.tdown = 0
  /\ p = "done" /\ ~b.quit /\ ~b.fin /\ ~b.rst /\ b.taken = ReqLen[c]
       => b.answer + b.down + b.got = RespLen[c]

\* The place p of a child of handler h and the bytes b of its connection c.
InPlace(h, p, b, c) ==
  /\ RunsHandler(h, p)
  /\ b.quit => b.down = 0 /\ b.got = 0
  /\ b.down + b.got <= RespLen[c]
  /\ b.rst => p \in {"done", "crashed"}
  /\ p \in {"toClient", "toTarget"} => b.buf > 0
  /\ p \in {"none", "start", "parse", "connect"} => Untouched(b, c)
  /\ h = "files" /\ p \in {"toClient", "close", "done"} /\ ~b.quit /\ ~b.rst => Told(p, b) = RespLen[c]
  /\ h = "proxy" => RelayInPlace(p, b, c)

\* The parent has at most one connection, whose child it has still to fork.
ParentInPlace ==
  /\ server # "gone" => handler # "usage"
  /\ server \in {"fork", "close"} => inHand \in Clients /\ sock[inHand] = "accepted"
  /\ server = "fork" => pc[inHand] = "none"
  /\ \A c \in Clients : sock[c] # "accepted" => pc[c] = "none"

HttpInv ==
  /\ TypeOK /\ io = [c \in Clients |-> io[c]]
  /\ ParentInPlace
  /\ \A c \in Clients : InPlace(handler, pc[c], io[c], c)

-----------------------------------------------------------------------------
(* The parent *)

\* What is known of the lengths.
LEMMA LengthFacts ==
  ASSUME NEW c \in Clients
  PROVE  /\ Cap \in Nat /\ Cap >= 1 /\ ReqLen[c] \in Nat /\ ReqLen[c] >= 1
         /\ RespLen[c] \in Nat /\ RespLen[c] >= 1 /\ LineLen[c] \in 1..ReqLen[c]
BY HttpAssumption

\* main selects one of its handlers, or gives up.
LEMMA ConfiguredType ==
  ASSUME NEW args
  PROVE  Configured(args) \in {"files", "proxy", "usage"}
BY DEF Configured

\* Before the server starts, nothing is anywhere.
LEMMA HttpInitInv == Init => HttpInv
<1>. SUFFICES ASSUME Init PROVE HttpInv
  OBVIOUS
<1>1. handler \in {"files", "proxy", "usage"}
  BY ConfiguredType DEF Init
<1>2. ASSUME NEW c \in Clients
      PROVE  io[c] \in IORecords(c) /\ InPlace(handler, pc[c], io[c], c)
  <2>1. io[c] = [todo |-> ReqLen[c], up |-> 0, buf |-> 0, tin |-> 0, taken |-> 0,
                 answer |-> RespLen[c], tdown |-> 0, down |-> 0, got |-> 0,
                 fin |-> FALSE, quit |-> FALSE, tfin |-> FALSE, rst |-> FALSE]
    BY DEF Init
  <2>2. pc[c] = "none"
    BY DEF Init
  <2>3. io[c] \in IORecords(c)
    BY <2>1, LengthFacts DEF IORecords
  <2>. QED
    BY <2>1, <2>2, <2>3, LengthFacts
       DEF InPlace, RunsHandler, Untouched, RelayInPlace, Asked, Told, Running
<1>3. TypeOK
  BY <1>1, <1>2, HttpAssumption DEF TypeOK, Init, IORecords, Running
<1>4. ParentInPlace
  BY DEF ParentInPlace, Init
<1>5. io = [c \in Clients |-> io[c]]
  BY DEF Init
<1>. QED
  BY <1>2, <1>3, <1>4, <1>5 DEF HttpInv

-----------------------------------------------------------------------------
(* A step of one connection *)

\* What is left of the backlog has not been accepted.
LEMMA BacklogFacts ==
  ASSUME TypeOK, NEW ls, sock' = sock \/ sock' = Backlog(ls)
  PROVE  /\ sock' \in [Clients -> {"idle", "queued", "accepted", "reset"}]
         /\ \A c \in Clients : sock'[c] = "accepted" <=> sock[c] = "accepted"
BY DEF TypeOK, Backlog

\* A step that changes one connection and its child keeps the invariant if it
\* keeps that connection's part of it.
LEMMA ConnectionMoves ==
  ASSUME HttpInv, NEW c \in Clients, UNCHANGED parentVars, listens' \subseteq listens,
         sock' = sock \/ sock' = Backlog(listens'),
         NEW p \in Places, pc' = [pc EXCEPT ![c] = p], pc[c] # "none" \/ p = "none",
         NEW b, b \in IORecords(c), io' = [io EXCEPT ![c] = b],
         InPlace(handler, p, b, c)
  PROVE  HttpInv'
<1>0. TypeOK /\ io = [d \in Clients |-> io[d]] /\ ParentInPlace
  BY DEF HttpInv
<1>1. /\ pc'[c] = p /\ io'[c] = b
      /\ \A d \in Clients : d # c => pc'[d] = pc[d] /\ io'[d] = io[d]
      /\ pc' \in [Clients -> Places] /\ io' = [d \in Clients |-> io'[d]]
  BY <1>0 DEF TypeOK, Places
<1>2. UNCHANGED <<handler, server, inHand, held>>
  BY DEF parentVars
<1>3. /\ sock' \in [Clients -> {"idle", "queued", "accepted", "reset"}]
      /\ \A d \in Clients : sock'[d] = "accepted" <=> sock[d] = "accepted"
  BY <1>0, BacklogFacts
<1>4. \A d \in Clients : io'[d] \in IORecords(d) /\ InPlace(handler', pc'[d], io'[d], d)
  <2>1. \A d \in Clients : io[d] \in IORecords(d)
    BY <1>0 DEF TypeOK, IORecords
  <2>. QED
    BY <1>1, <1>2, <2>1 DEF HttpInv
<1>5. TypeOK'
  BY <1>0, <1>1, <1>2, <1>3, <1>4 DEF TypeOK, IORecords, Places
<1>6. ParentInPlace'
  BY <1>0, <1>1, <1>2, <1>3 DEF ParentInPlace
<1>. QED
  BY <1>1, <1>4, <1>5, <1>6 DEF HttpInv

\* A child that ends leaves nothing behind but what its client can still read.
LEMMA ExitKeeps ==
  ASSUME HttpInv, NEW c \in Clients, NEW how \in {"done", "crashed"}, NEW sent \in {0, 1},
         Exits(c, how, sent), pc[c] # "none",
         io[c].down + sent <= Cap, io[c].down + io[c].got + sent <= RespLen[c],
         sent = 1 => ~io[c].quit,
         how = "done" => pc[c] = "close" /\ sent = 0
  PROVE  HttpInv'
<1>0. io[c] \in IORecords(c) /\ InPlace(handler, pc[c], io[c], c) /\ io = [d \in Clients |-> io[d]]
  BY DEF HttpInv, TypeOK, IORecords
<1>. DEFINE b == [Discarded(io[c]) EXCEPT !.down = @ + sent]
<1>1. io' = [io EXCEPT ![c] = b] /\ pc' = [pc EXCEPT ![c] = how]
  BY DEF Exits, Goto
<1>2. /\ b.todo = 0 /\ b.up = 0 /\ b.buf = 0 /\ b.tin = 0 /\ b.tdown = 0
      /\ b.taken = io[c].taken /\ b.rst = (io[c].up > 0)
      /\ b.answer = io[c].answer /\ b.down = io[c].down + sent /\ b.got = io[c].got
      /\ b.fin = io[c].fin /\ b.quit = io[c].quit /\ b.tfin = TRUE
  BY <1>0 DEF IORecords, Discarded
<1>3. b \in IORecords(c)
  <2>1. Discarded(io[c]) \in IORecords(c)
    <3>1. 0 \in 0..Cap /\ 0 \in 0..(Cap + RespLen[c]) /\ 0 \in 0..ReqLen[c]
          /\ (io[c].up > 0) \in BOOLEAN
      BY LengthFacts
    <3>. QED
      BY <1>0, <3>1 DEF IORecords, Discarded
  <2>2. Discarded(io[c]).down + sent \in 0..Cap
    BY <1>0, LengthFacts DEF IORecords, Discarded
  <2>. QED
    BY <2>1, <2>2 DEF IORecords
<1>4. InPlace(handler, how, b, c)
  <2>. HIDE DEF b
  <2>1. RunsHandler(handler, how)
    BY <1>0 DEF InPlace, RunsHandler
  <2>2. /\ b.quit => b.down = 0 /\ b.got = 0
        /\ b.down + b.got <= RespLen[c]
    BY <1>0, <1>2, LengthFacts DEF InPlace, IORecords
  <2>3. how = "done" /\ handler = "files" /\ ~b.quit /\ ~b.rst => Told(how, b) = RespLen[c]
    BY <1>0, <1>2, LengthFacts DEF InPlace, IORecords, Told
  <2>4. how = "done" /\ handler = "proxy" /\ ~b.quit /\ ~b.fin /\ b.taken = ReqLen[c] =>
          b.answer + b.down + b.got = RespLen[c]
    BY <1>0, <1>2, LengthFacts DEF InPlace, IORecords, RelayInPlace, Told, Running
  <2>. QED
    BY <2>1, <2>2, <2>3, <2>4 DEF InPlace, RelayInPlace, Running
<1>5. how \in Places /\ UNCHANGED parentVars /\ listens' \subseteq listens /\ sock' = Backlog(listens')
  BY DEF Places, Exits
<1>. HIDE DEF b
<1>. QED
  BY <1>1, <1>3, <1>4, <1>5, ConnectionMoves

-----------------------------------------------------------------------------
(* The steps of a child *)

\* What the invariant says of one connection.
LEMMA InvOf ==
  ASSUME HttpInv, NEW c \in Clients
  PROVE  /\ io[c] \in IORecords(c) /\ InPlace(handler, pc[c], io[c], c) /\ pc[c] \in Places
         /\ io = [d \in Clients |-> io[d]] /\ pc = [pc EXCEPT ![c] = pc[c]]
         /\ io = [io EXCEPT ![c] = io[c]]
BY DEF HttpInv, TypeOK, IORecords, Places

\* A child starts on its handler (httpserver.c:317-321).
LEMMA StartKeeps ==
  ASSUME HttpInv, NEW c \in Clients, Start(c)
  PROVE  HttpInv'
<1>0. /\ io[c] \in IORecords(c) /\ InPlace(handler, pc[c], io[c], c) /\ pc[c] = "start"
      /\ io = [io EXCEPT ![c] = io[c]]
  BY InvOf DEF Start, At
<1>. DEFINE p == IF handler = "files" THEN "parse" ELSE "connect"
<1>1. /\ pc' = [pc EXCEPT ![c] = p] /\ p \in Places /\ io' = [io EXCEPT ![c] = io[c]]
      /\ UNCHANGED parentVars /\ listens' \subseteq listens /\ sock' = Backlog(listens')
  BY <1>0 DEF Start, Goto, Places, Running
<1>2. InPlace(handler, p, io[c], c)
  BY <1>0, LengthFacts DEF InPlace, RunsHandler, RelayInPlace, Untouched, Asked, Told, Running, IORecords
<1>. QED
  BY <1>0, <1>1, <1>2, ConnectionMoves

\* The file handler reads its request and decides (libhttp.c:16-68).
LEMMA ParseKeeps ==
  ASSUME HttpInv, NEW c \in Clients, Parse(c)
  PROVE  HttpInv'
<1>0. /\ io[c] \in IORecords(c) /\ InPlace(handler, pc[c], io[c], c) /\ pc[c] = "parse"
      /\ io = [d \in Clients |-> io[d]]
  BY InvOf DEF Parse, At
<1>1. /\ handler = "files" /\ Untouched(io[c], c)
  BY <1>0 DEF InPlace, RunsHandler
<1>2. ASSUME Goto(c, "toClient"), Works, io' = [io EXCEPT ![c].up = 0, ![c].buf = RespLen[c]]
      PROVE  HttpInv'
  <2>. DEFINE b == [io[c] EXCEPT !.up = 0, !.buf = RespLen[c]]
  <2>1. io' = [io EXCEPT ![c] = b]
    BY <1>0, <1>2
  <2>2. b \in IORecords(c) /\ b.buf = RespLen[c] /\ b.down = 0 /\ b.got = 0 /\ b.quit = io[c].quit
        /\ b.rst = io[c].rst
    <3>1. 0 \in 0..Cap /\ RespLen[c] \in 0..(Cap + RespLen[c])
      BY LengthFacts
    <3>2. b \in IORecords(c)
      BY <1>0, <3>1 DEF IORecords
    <3>. QED
      BY <1>0, <1>1, <3>2 DEF IORecords, Untouched
  <2>. HIDE DEF b
  <2>3. InPlace(handler, "toClient", b, c)
    BY <1>0, <1>1, <2>2, LengthFacts DEF InPlace, RunsHandler, Told
  <2>4. pc' = [pc EXCEPT ![c] = "toClient"] /\ UNCHANGED <<parentVars, listens, sock>>
    BY <1>2 DEF Goto, Works
  <2>. QED
    BY <1>0, <2>1, <2>2, <2>3, <2>4, ConnectionMoves DEF Places, Running
<1>3. ASSUME NEW sent \in {0, 1}, Exits(c, "crashed", sent), sent = 1 => ~io[c].quit
      PROVE  HttpInv'
  <2>1. io[c].down + sent <= Cap /\ io[c].down + io[c].got + sent <= RespLen[c]
    BY <1>1, LengthFacts DEF Untouched
  <2>. QED
    BY <1>0, <1>3, <2>1, ExitKeeps
<1>. QED
  BY <1>2, <1>3 DEF Parse

\* The proxy handler reaches its target or gives up (httpserver.c:190-219).
LEMMA ConnectKeeps ==
  ASSUME HttpInv, NEW c \in Clients, ConnectTarget(c)
  PROVE  HttpInv'
<1>0. /\ io[c] \in IORecords(c) /\ InPlace(handler, pc[c], io[c], c) /\ pc[c] = "connect"
      /\ io = [d \in Clients |-> io[d]] /\ io = [io EXCEPT ![c] = io[c]]
  BY InvOf DEF ConnectTarget, At
<1>1. handler = "proxy" /\ Untouched(io[c], c)
  BY <1>0 DEF InPlace, RunsHandler
<1>2. ASSUME NEW end \in BOOLEAN, Goto(c, "select"), Works,
             io' = [io EXCEPT ![c] = [io[c] EXCEPT !.tfin = end]]
      PROVE  HttpInv'
  <2>. DEFINE b == [io[c] EXCEPT !.tfin = end]
  <2>2. /\ b \in IORecords(c) /\ b.todo = io[c].todo /\ b.up = io[c].up /\ b.tin = 0
        /\ b.taken = 0 /\ b.down = 0 /\ b.got = 0 /\ b.tdown = 0 /\ b.answer = RespLen[c]
        /\ b.rst = io[c].rst
    BY <1>0, <1>1 DEF IORecords, Untouched
  <2>3. b.todo + b.up = ReqLen[c] /\ b.todo \in Nat /\ b.up \in Nat
    BY <1>0, <1>1, <2>2, LengthFacts DEF Untouched, IORecords
  <2>4. io' = [io EXCEPT ![c] = b]
    BY <1>2
  <2>. HIDE DEF b
  <2>5. InPlace(handler, "select", b, c)
    BY <1>0, <1>1, <2>2, <2>3, LengthFacts DEF InPlace, RunsHandler, RelayInPlace, Told, Asked, Running
  <2>6. pc' = [pc EXCEPT ![c] = "select"] /\ UNCHANGED <<parentVars, listens, sock>>
    BY <1>2 DEF Goto, Works
  <2>. QED
    BY <1>0, <2>2, <2>4, <2>5, <2>6, ConnectionMoves DEF Places, Running
<1>3. CASE Goto(c, "select") /\ Works /\ UNCHANGED io
  <2>1. io' = [io EXCEPT ![c] = [io[c] EXCEPT !.tfin = FALSE]]
    <3>1. [io[c] EXCEPT !.tfin = FALSE] = io[c]
      BY <1>0, <1>1 DEF IORecords, Untouched
    <3>. QED
      BY <1>0, <1>3, <3>1
  <2>. QED
    BY <1>2, <1>3, <2>1
<1>4. CASE Goto(c, "select") /\ Works /\ io' = [io EXCEPT ![c].tfin = TRUE]
  BY <1>0, <1>2, <1>4
<1>5. CASE Exits(c, "crashed", 0)
  <2>1. io[c].down + 0 <= Cap /\ io[c].down + io[c].got + 0 <= RespLen[c]
    BY <1>1, LengthFacts DEF Untouched
  <2>. QED
    BY <1>0, <1>5, <2>1, ExitKeeps
<1>. QED
  BY <1>3, <1>4, <1>5 DEF ConnectTarget

\* A child closes its connection and ends (httpserver.c:250-255).
LEMMA CloseKeeps ==
  ASSUME HttpInv, NEW c \in Clients, Close(c)
  PROVE  HttpInv'
<1>0. /\ io[c] \in IORecords(c) /\ InPlace(handler, pc[c], io[c], c) /\ pc[c] = "close"
  BY InvOf DEF Close, At
<1>1. io[c].down + 0 <= Cap /\ io[c].down + io[c].got + 0 <= RespLen[c]
  BY <1>0, LengthFacts DEF InPlace, IORecords
<1>. QED
  BY <1>0, <1>1, ExitKeeps DEF Close

\* One turn of the select loop (httpserver.c:222-250).
LEMMA SelectKeeps ==
  ASSUME HttpInv, NEW c \in Clients, Select(c)
  PROVE  HttpInv'
<1>0. /\ io[c] \in IORecords(c) /\ InPlace(handler, pc[c], io[c], c) /\ pc[c] = "select"
      /\ io = [d \in Clients |-> io[d]] /\ io = [io EXCEPT ![c] = io[c]]
      /\ UNCHANGED <<parentVars, listens, sock>>
  BY InvOf DEF Select, At, Works
<1>1. handler = "proxy" /\ RelayInPlace("select", io[c], c)
  BY <1>0 DEF InPlace, RunsHandler
<1>2. CASE /\ TargetData(c) /\ Goto(c, "toClient")
           /\ io' = [io EXCEPT ![c].tdown = 0, ![c].buf = io[c].tdown]
  <2>. DEFINE b == [io[c] EXCEPT !.tdown = 0, !.buf = io[c].tdown]
  <2>1. io' = [io EXCEPT ![c] = b]
    BY <1>0, <1>2
  <2>2. b \in IORecords(c)
    <3>1. 0 \in 0..Cap /\ io[c].tdown \in 0..(Cap + RespLen[c])
      BY <1>0, LengthFacts DEF IORecords
    <3>. QED
      BY <1>0, <3>1 DEF IORecords
  <2>3. /\ b.todo = io[c].todo /\ b.up = io[c].up /\ b.tin = io[c].tin /\ b.taken = io[c].taken /\ b.answer = io[c].answer
        /\ b.buf = io[c].tdown /\ b.tdown = 0 /\ b.down = io[c].down /\ b.got = io[c].got
        /\ b.fin = io[c].fin /\ b.quit = io[c].quit /\ b.tfin = io[c].tfin /\ b.rst = io[c].rst
    BY <1>0 DEF IORecords
  <2>. HIDE DEF b
  <2>4. InPlace(handler, "toClient", b, c)
    BY <1>0, <1>1, <1>2, <2>3, LengthFacts
       DEF InPlace, RunsHandler, RelayInPlace, Told, Asked, Running, IORecords, TargetData
  <2>. QED
    BY <1>0, <1>2, <2>1, <2>2, <2>4, ConnectionMoves DEF Places, Running, Goto
<1>3. CASE /\ ~TargetReady(c) /\ io[c].up > 0 /\ Goto(c, "toTarget")
           /\ io' = [io EXCEPT ![c].up = 0, ![c].buf = io[c].up]
  <2>. DEFINE b == [io[c] EXCEPT !.up = 0, !.buf = io[c].up]
  <2>1. io' = [io EXCEPT ![c] = b]
    BY <1>0, <1>3
  <2>2. b \in IORecords(c)
    <3>1. 0 \in 0..Cap /\ io[c].up \in 0..(Cap + RespLen[c])
      BY <1>0, LengthFacts DEF IORecords
    <3>. QED
      BY <1>0, <3>1 DEF IORecords
  <2>3. /\ b.todo = io[c].todo /\ b.up = 0 /\ b.tin = io[c].tin /\ b.taken = io[c].taken /\ b.answer = io[c].answer
        /\ b.buf = io[c].up /\ b.tdown = io[c].tdown /\ b.down = io[c].down /\ b.got = io[c].got
        /\ b.fin = io[c].fin /\ b.quit = io[c].quit /\ b.tfin = io[c].tfin /\ b.rst = io[c].rst
    BY <1>0 DEF IORecords
  <2>4. io[c].tdown = 0 /\ ~io[c].tfin
    BY <1>0, <1>3, LengthFacts DEF TargetReady, TargetData, IORecords
  <2>. HIDE DEF b
  <2>5. InPlace(handler, "toTarget", b, c)
    BY <1>0, <1>1, <1>3, <2>3, <2>4, LengthFacts
       DEF InPlace, RunsHandler, RelayInPlace, Told, Asked, Running, IORecords
  <2>. QED
    BY <1>0, <1>3, <2>1, <2>2, <2>5, ConnectionMoves DEF Places, Running, Goto
<1>4. CASE /\ IF TargetReady(c) THEN ~TargetData(c) ELSE io[c].up = 0 /\ io[c].fin
           /\ Goto(c, "close") /\ UNCHANGED io
  <2>1. ~io[c].fin => io[c].tdown = 0
    BY <1>0, <1>4, LengthFacts DEF TargetReady, TargetData, IORecords
  <2>2. InPlace(handler, "close", io[c], c)
    BY <1>0, <1>1, <2>1, LengthFacts
       DEF InPlace, RunsHandler, RelayInPlace, Told, Asked, Running, IORecords
  <2>. QED
    BY <1>0, <1>4, <2>2, ConnectionMoves DEF Places, Running, Goto
<1>. QED
  BY <1>2, <1>3, <1>4 DEF Select

\* A write to a peer that is gone, if what is lost does not count.
LEMMA GoneKeeps ==
  ASSUME HttpInv, NEW c \in Clients, Gone(c),
         \/ pc[c] = "toClient" /\ io[c].quit
         \/ pc[c] = "toTarget" /\ io[c].tfin
  PROVE  HttpInv'
<1>0. /\ io[c] \in IORecords(c) /\ InPlace(handler, pc[c], io[c], c)
      /\ io = [d \in Clients |-> io[d]]
  BY InvOf
<1>1. ASSUME NEW label \in {"close", Written(c)}, Goto(c, label), Works, io' = [io EXCEPT ![c].buf = 0]
      PROVE  HttpInv'
  <2>. DEFINE b == [io[c] EXCEPT !.buf = 0]
  <2>1. io' = [io EXCEPT ![c] = b]
    BY <1>0, <1>1
  <2>2. b \in IORecords(c)
    <3>1. 0 \in 0..(Cap + RespLen[c])
      BY LengthFacts
    <3>. QED
      BY <1>0, <3>1 DEF IORecords
  <2>3. /\ b.todo = io[c].todo /\ b.up = io[c].up /\ b.tin = io[c].tin /\ b.taken = io[c].taken /\ b.answer = io[c].answer
        /\ b.buf = 0 /\ b.tdown = io[c].tdown /\ b.down = io[c].down /\ b.got = io[c].got
        /\ b.fin = io[c].fin /\ b.quit = io[c].quit /\ b.tfin = io[c].tfin /\ b.rst = io[c].rst
    BY <1>0 DEF IORecords
  <2>4. /\ label \in {"close", "select"} /\ (label = "select" => handler = "proxy")
        /\ handler \in {"files", "proxy"}
    BY <1>0, <1>1 DEF Written, InPlace, RunsHandler
  <2>. HIDE DEF b
  <2>5. InPlace(handler, label, b, c)
    <3>1. CASE pc[c] = "toClient" /\ io[c].quit
      BY <1>0, <2>3, <2>4, <3>1, LengthFacts
         DEF InPlace, RunsHandler, RelayInPlace, Told, Asked, Running, IORecords
    <3>2. CASE pc[c] = "toTarget" /\ io[c].tfin
      BY <1>0, <2>3, <2>4, <3>2, LengthFacts
         DEF InPlace, RunsHandler, RelayInPlace, Told, Asked, Running, IORecords
    <3>. QED
      BY <3>1, <3>2
  <2>6. label \in Places /\ pc' = [pc EXCEPT ![c] = label] /\ UNCHANGED <<parentVars, listens, sock>>
    BY <1>1, <2>4 DEF Places, Running, Goto, Works
  <2>. QED
    BY <2>1, <2>2, <2>5, <2>6, ConnectionMoves
<1>2. CASE Exits(c, "crashed", 0)
  <2>1. io[c].down + 0 <= Cap /\ io[c].down + io[c].got + 0 <= RespLen[c]
    BY <1>0, LengthFacts DEF InPlace, IORecords
  <2>. QED
    BY <1>2, <2>1, ExitKeeps
<1>. QED
  BY <1>1, <1>2 DEF Gone

\* A write to the client takes what fits (httpserver.c:228-233, libhttp.c:114-123).
LEMMA WriteClientKeeps ==
  ASSUME HttpInv, NEW c \in Clients, WriteClient(c)
  PROVE  HttpInv'
<1>0. /\ io[c] \in IORecords(c) /\ InPlace(handler, pc[c], io[c], c) /\ pc[c] = "toClient"
      /\ io = [d \in Clients |-> io[d]]
  BY InvOf DEF WriteClient, At
<1>1. CASE /\ ~io[c].quit /\ io[c].down < Cap
           /\ io' = [io EXCEPT ![c].buf = @ - 1, ![c].down = @ + 1]
           /\ Goto(c, IF io[c].buf = 1 THEN Written(c) ELSE "toClient") /\ Works
  <2>. DEFINE b == [io[c] EXCEPT !.buf = @ - 1, !.down = @ + 1]
              p == IF io[c].buf = 1 THEN Written(c) ELSE "toClient"
  <2>1. io' = [io EXCEPT ![c] = b]
    BY <1>0, <1>1
  <2>2. b \in IORecords(c)
    <3>1. io[c].buf - 1 \in 0..(Cap + RespLen[c]) /\ io[c].down + 1 \in 0..Cap
      BY <1>0, <1>1, LengthFacts DEF IORecords, InPlace
    <3>. QED
      BY <1>0, <3>1 DEF IORecords
  <2>3. /\ b.todo = io[c].todo /\ b.up = io[c].up /\ b.tin = io[c].tin /\ b.taken = io[c].taken /\ b.answer = io[c].answer
        /\ b.buf = io[c].buf - 1 /\ b.tdown = io[c].tdown /\ b.down = io[c].down + 1
        /\ b.got = io[c].got
        /\ b.fin = io[c].fin /\ b.quit = io[c].quit /\ b.tfin = io[c].tfin /\ b.rst = io[c].rst
    BY <1>0 DEF IORecords
  <2>. HIDE DEF b
  <2>4. /\ p \in {"close", "select", "toClient"} /\ (p = "select" => handler = "proxy")
        /\ p = "close" => handler = "files"
        /\ handler \in {"files", "proxy"} /\ (p = "toClient" <=> io[c].buf # 1)
    BY <1>0 DEF Written, InPlace, RunsHandler
  <2>5. pc' = [pc EXCEPT ![c] = p] /\ UNCHANGED <<parentVars, listens, sock>>
    BY <1>1 DEF Goto, Works
  <2>. HIDE DEF p
  <2>6. InPlace(handler, p, b, c)
    <3>1. CASE handler = "files"
      BY <1>0, <1>1, <2>3, <2>4, <3>1, LengthFacts
         DEF InPlace, RunsHandler, Told, IORecords
    <3>2. CASE handler = "proxy"
      BY <1>0, <1>1, <2>3, <2>4, <3>2, LengthFacts
         DEF InPlace, RunsHandler, RelayInPlace, Told, Asked, Running, IORecords
    <3>. QED
      BY <2>4, <3>1, <3>2
  <2>7. p \in Places
    BY <2>4 DEF Places, Running
  <2>. QED
    BY <1>0, <2>1, <2>2, <2>5, <2>6, <2>7, ConnectionMoves
<1>2. CASE io[c].quit /\ Gone(c)
  BY <1>0, <1>2, GoneKeeps
<1>. QED
  BY <1>1, <1>2 DEF WriteClient

\* A write to the target takes what fits (httpserver.c:240-245).
LEMMA WriteTargetKeeps ==
  ASSUME HttpInv, NEW c \in Clients, WriteTarget(c)
  PROVE  HttpInv'
<1>0. /\ io[c] \in IORecords(c) /\ InPlace(handler, pc[c], io[c], c) /\ pc[c] = "toTarget"
      /\ io = [d \in Clients |-> io[d]]
  BY InvOf DEF WriteTarget, At
<1>1. CASE /\ ~io[c].tfin /\ io[c].tin < Cap
           /\ io' = [io EXCEPT ![c].buf = @ - 1, ![c].tin = @ + 1]
           /\ Goto(c, IF io[c].buf = 1 THEN "select" ELSE "toTarget") /\ Works
  <2>. DEFINE b == [io[c] EXCEPT !.buf = @ - 1, !.tin = @ + 1]
              p == IF io[c].buf = 1 THEN "select" ELSE "toTarget"
  <2>1. io' = [io EXCEPT ![c] = b]
    BY <1>0, <1>1
  <2>2. b \in IORecords(c)
    <3>1. io[c].buf - 1 \in 0..(Cap + RespLen[c]) /\ io[c].tin + 1 \in 0..Cap
      BY <1>0, <1>1, LengthFacts DEF IORecords, InPlace
    <3>. QED
      BY <1>0, <3>1 DEF IORecords
  <2>3. /\ b.todo = io[c].todo /\ b.up = io[c].up /\ b.tin = io[c].tin + 1
        /\ b.taken = io[c].taken
        /\ b.answer = io[c].answer
        /\ b.buf = io[c].buf - 1 /\ b.tdown = io[c].tdown /\ b.down = io[c].down
        /\ b.got = io[c].got
        /\ b.fin = io[c].fin /\ b.quit = io[c].quit /\ b.tfin = io[c].tfin /\ b.rst = io[c].rst
    BY <1>0 DEF IORecords
  <2>. HIDE DEF b
  <2>4. /\ p \in {"select", "toTarget"} /\ handler = "proxy" /\ (p = "toTarget" <=> io[c].buf # 1)
    BY <1>0 DEF InPlace, RunsHandler
  <2>5. pc' = [pc EXCEPT ![c] = p] /\ UNCHANGED <<parentVars, listens, sock>>
    BY <1>1 DEF Goto, Works
  <2>. HIDE DEF p
  <2>6. InPlace(handler, p, b, c)
    <3>1. /\ io[c].todo + io[c].up + io[c].tin + io[c].taken + io[c].buf = ReqLen[c] /\ ~io[c].rst
          /\ ~io[c].quit => io[c].answer + io[c].tdown + (io[c].down + io[c].got + 0) = RespLen[c]
          /\ io[c].quit => io[c].down = 0 /\ io[c].got = 0
          /\ io[c].down + io[c].got <= RespLen[c] /\ io[c].taken < ReqLen[c] /\ io[c].buf > 0
      BY <1>0, <1>1, <2>4 DEF InPlace, RelayInPlace, Told, Asked, Running
    <3>2. CASE p = "select"
      BY <1>0, <2>3, <2>4, <3>1, <3>2, LengthFacts
         DEF InPlace, RunsHandler, RelayInPlace, Told, Asked, Running, IORecords
    <3>3. CASE p = "toTarget"
      <4>1. RelayInPlace(p, b, c)
        BY <1>0, <2>3, <2>4, <3>1, <3>3, LengthFacts DEF RelayInPlace, Told, Asked, Running, IORecords
      <4>2. RunsHandler(handler, p)
        BY <1>0, <2>4, <3>3 DEF InPlace, RunsHandler, Running
      <4>3. b.buf > 0
        BY <1>0, <2>3, <2>4, <3>1, <3>3 DEF IORecords
      <4>. QED
        BY <2>3, <2>4, <3>1, <3>3, <4>1, <4>2, <4>3 DEF InPlace
    <3>. QED
      BY <2>4, <3>2, <3>3
  <2>7. p \in Places
    BY <2>4 DEF Places, Running
  <2>. QED
    BY <1>0, <2>1, <2>2, <2>5, <2>6, <2>7, ConnectionMoves
<1>2. CASE io[c].tfin /\ Gone(c)
  BY <1>0, <1>2, GoneKeeps
<1>. QED
  BY <1>1, <1>2 DEF WriteTarget

-----------------------------------------------------------------------------
(* The steps of the client and the target *)

\* A segment of the request is sent, or a part of the answer is read.
LEMMA ClientIOKeeps ==
  ASSUME HttpInv, NEW c \in Clients, ClientIO(c)
  PROVE  HttpInv'
<1>0. /\ io[c] \in IORecords(c) /\ InPlace(handler, pc[c], io[c], c) /\ pc[c] \in Places
      /\ io = [d \in Clients |-> io[d]] /\ pc' = [pc EXCEPT ![c] = pc[c]]
      /\ UNCHANGED <<parentVars, listens, sock>>
  BY InvOf DEF ClientIO
<1>1. CASE /\ io[c].todo > 0 /\ io[c].up < Cap
           /\ io' = [io EXCEPT ![c].todo = @ - 1, ![c].up = @ + 1]
  <2>. DEFINE b == [io[c] EXCEPT !.todo = @ - 1, !.up = @ + 1]
  <2>1. io' = [io EXCEPT ![c] = b]
    BY <1>0, <1>1
  <2>2. b \in IORecords(c)
    <3>1. io[c].todo - 1 \in 0..ReqLen[c] /\ io[c].up + 1 \in 0..Cap
      BY <1>0, <1>1, LengthFacts DEF IORecords
    <3>. QED
      BY <1>0, <3>1 DEF IORecords
  <2>3. /\ b.todo = io[c].todo - 1 /\ b.up = io[c].up + 1 /\ b.tin = io[c].tin /\ b.taken = io[c].taken
        /\ b.answer = io[c].answer
        /\ b.buf = io[c].buf /\ b.tdown = io[c].tdown /\ b.down = io[c].down
        /\ b.got = io[c].got
        /\ b.fin = io[c].fin /\ b.quit = io[c].quit /\ b.tfin = io[c].tfin /\ b.rst = io[c].rst
    BY <1>0 DEF IORecords
  <2>. HIDE DEF b
  <2>4. \A p \in Places : Told(p, b) = Told(p, io[c]) /\ Asked(p, b) = Asked(p, io[c])
    BY <1>0, <2>3, LengthFacts DEF Told, Asked, IORecords
  <2>5. b.todo + b.up = io[c].todo + io[c].up
    BY <1>0, <2>3, LengthFacts DEF IORecords
  <2>6. InPlace(handler, pc[c], b, c)
    BY <1>0, <2>3, <2>4, <2>5 DEF InPlace, RelayInPlace, Untouched
  <2>. QED
    BY <1>0, <2>1, <2>2, <2>6, ConnectionMoves
<1>2. CASE /\ ~io[c].quit /\ io[c].down > 0
           /\ io' = [io EXCEPT ![c].down = @ - 1, ![c].got = @ + 1]
  <2>. DEFINE b == [io[c] EXCEPT !.down = @ - 1, !.got = @ + 1]
  <2>1. io' = [io EXCEPT ![c] = b]
    BY <1>0, <1>2
  <2>2. b \in IORecords(c)
    <3>1. io[c].down - 1 \in 0..Cap /\ io[c].got + 1 \in 0..RespLen[c]
      BY <1>0, <1>2, LengthFacts DEF IORecords, InPlace
    <3>. QED
      BY <1>0, <3>1 DEF IORecords
  <2>3. /\ b.todo = io[c].todo /\ b.up = io[c].up /\ b.tin = io[c].tin /\ b.taken = io[c].taken
        /\ b.answer = io[c].answer
        /\ b.buf = io[c].buf /\ b.tdown = io[c].tdown /\ b.down = io[c].down - 1
        /\ b.got = io[c].got + 1
        /\ b.fin = io[c].fin /\ b.quit = io[c].quit /\ b.tfin = io[c].tfin /\ b.rst = io[c].rst
    BY <1>0 DEF IORecords
  <2>. HIDE DEF b
  <2>4. \A p \in Places : Told(p, b) = Told(p, io[c]) /\ Asked(p, b) = Asked(p, io[c])
    BY <1>0, <2>3, LengthFacts DEF Told, Asked, IORecords
  <2>5. /\ b.down + b.got = io[c].down + io[c].got
        /\ b.answer + b.down + b.got = io[c].answer + io[c].down + io[c].got
    BY <1>0, <2>3, LengthFacts DEF IORecords
  <2>6. pc[c] \notin {"none", "start", "parse", "connect"}
    BY <1>0, <1>2 DEF InPlace, Untouched
  <2>7. InPlace(handler, pc[c], b, c)
    BY <1>0, <1>2, <2>3, <2>4, <2>5, <2>6 DEF InPlace, RelayInPlace
  <2>. QED
    BY <1>0, <2>1, <2>2, <2>7, ConnectionMoves
<1>. QED
  BY <1>1, <1>2 DEF ClientIO

\* The client ends its side, or goes away with what it has not read.
LEMMA ClientEndsKeeps ==
  ASSUME HttpInv, NEW c \in Clients, ClientEnds(c)
  PROVE  HttpInv'
<1>0. /\ io[c] \in IORecords(c) /\ InPlace(handler, pc[c], io[c], c) /\ pc[c] \in Places
      /\ io = [d \in Clients |-> io[d]] /\ pc' = [pc EXCEPT ![c] = pc[c]]
      /\ UNCHANGED <<parentVars, listens, sock>>
  BY InvOf DEF ClientEnds
<1>1. CASE io' = [io EXCEPT ![c].fin = TRUE]
  <2>. DEFINE b == [io[c] EXCEPT !.fin = TRUE]
  <2>1. io' = [io EXCEPT ![c] = b] /\ b \in IORecords(c)
    BY <1>0, <1>1 DEF IORecords
  <2>2. /\ b.todo = io[c].todo /\ b.up = io[c].up /\ b.tin = io[c].tin /\ b.taken = io[c].taken
        /\ b.answer = io[c].answer
        /\ b.buf = io[c].buf /\ b.tdown = io[c].tdown /\ b.down = io[c].down
        /\ b.got = io[c].got /\ b.fin /\ b.quit = io[c].quit /\ b.tfin = io[c].tfin /\ b.rst = io[c].rst
    BY <1>0 DEF IORecords
  <2>. HIDE DEF b
  <2>3. \A p \in Places : Told(p, b) = Told(p, io[c]) /\ Asked(p, b) = Asked(p, io[c])
    BY <2>2 DEF Told, Asked
  <2>4. InPlace(handler, pc[c], b, c)
    BY <1>0, <2>2, <2>3 DEF InPlace, RelayInPlace, Untouched
  <2>. QED
    BY <1>0, <2>1, <2>4, ConnectionMoves
<1>2. CASE io' = [io EXCEPT ![c].quit = TRUE, ![c].fin = TRUE, ![c].down = 0, ![c].got = 0]
  <2>. DEFINE b == [io[c] EXCEPT !.quit = TRUE, !.fin = TRUE, !.down = 0, !.got = 0]
  <2>1. io' = [io EXCEPT ![c] = b]
    BY <1>0, <1>2
  <2>2. b \in IORecords(c)
    <3>1. 0 \in 0..Cap /\ 0 \in 0..RespLen[c]
      BY LengthFacts
    <3>. QED
      BY <1>0, <3>1 DEF IORecords
  <2>3. /\ b.todo = io[c].todo /\ b.up = io[c].up /\ b.tin = io[c].tin /\ b.taken = io[c].taken
        /\ b.answer = io[c].answer
        /\ b.buf = io[c].buf /\ b.tdown = io[c].tdown /\ b.down = 0
        /\ b.got = 0 /\ b.fin /\ b.quit /\ b.tfin = io[c].tfin /\ b.rst = io[c].rst
    BY <1>0 DEF IORecords
  <2>. HIDE DEF b
  <2>4. \A p \in Places : Asked(p, b) = Asked(p, io[c])
    BY <2>3 DEF Asked
  <2>5. b.down + b.got <= RespLen[c]
    BY <2>3, LengthFacts
  <2>6. InPlace(handler, pc[c], b, c)
    BY <1>0, <2>3, <2>4, <2>5 DEF InPlace, RelayInPlace, Untouched
  <2>. QED
    BY <1>0, <2>1, <2>2, <2>6, ConnectionMoves
<1>. QED
  BY <1>1, <1>2 DEF ClientEnds

\* A reset that arrives takes what a client of a child that has ended had not read.
LEMMA ResetKeeps ==
  ASSUME HttpInv, NEW c \in Clients, ResetArrives(c)
  PROVE  HttpInv'
<1>0. /\ io[c] \in IORecords(c) /\ InPlace(handler, pc[c], io[c], c) /\ pc[c] \in Places
      /\ io = [d \in Clients |-> io[d]] /\ pc' = [pc EXCEPT ![c] = pc[c]]
      /\ UNCHANGED <<parentVars, listens, sock>>
  BY InvOf DEF ResetArrives
<1>. DEFINE b == [io[c] EXCEPT !.down = 0]
<1>1. io' = [io EXCEPT ![c] = b]
  BY <1>0 DEF ResetArrives
<1>2. b \in IORecords(c)
  <2>1. 0 \in 0..Cap
    BY LengthFacts
  <2>. QED
    BY <1>0, <2>1 DEF IORecords
<1>3. /\ b.down = 0 /\ b.got = io[c].got /\ b.quit = io[c].quit /\ b.rst
      /\ b.got \in Nat /\ io[c].down \in Nat
  BY <1>0 DEF IORecords, ResetArrives
<1>. HIDE DEF b
<1>4. pc[c] \in {"done", "crashed"} /\ b.down + b.got <= RespLen[c]
  BY <1>0, <1>3, LengthFacts DEF InPlace, ResetArrives
<1>5. InPlace(handler, pc[c], b, c)
  BY <1>0, <1>3, <1>4 DEF InPlace, RelayInPlace, Running
<1>. QED
  BY <1>0, <1>1, <1>2, <1>5, ConnectionMoves

\* The target reads, sends, ends or dies.
LEMMA TargetKeeps ==
  ASSUME HttpInv, NEW c \in Clients, TargetStep(c) \/ TargetDies(c)
  PROVE  HttpInv'
<1>0. /\ io[c] \in IORecords(c) /\ InPlace(handler, pc[c], io[c], c) /\ pc[c] \in Places
      /\ io = [d \in Clients |-> io[d]] /\ pc' = [pc EXCEPT ![c] = pc[c]]
      /\ UNCHANGED <<parentVars, listens, sock>>
  BY InvOf DEF TargetStep, TargetDies
<1>1. /\ pc[c] \in {"select", "toClient", "toTarget"} /\ handler = "proxy" /\ ~io[c].tfin
      /\ RelayInPlace(pc[c], io[c], c)
  BY <1>0 DEF TargetStep, TargetDies, TargetOpen, InPlace
<1>2. CASE io' = [io EXCEPT ![c].tfin = TRUE]
  <2>. DEFINE b == [io[c] EXCEPT !.tfin = TRUE]
  <2>1. io' = [io EXCEPT ![c] = b] /\ b \in IORecords(c)
    BY <1>0, <1>2 DEF IORecords
  <2>2. /\ b.todo = io[c].todo /\ b.up = io[c].up /\ b.tin = io[c].tin /\ b.taken = io[c].taken
        /\ b.answer = io[c].answer
        /\ b.buf = io[c].buf /\ b.tdown = io[c].tdown /\ b.down = io[c].down
        /\ b.got = io[c].got /\ b.fin = io[c].fin /\ b.quit = io[c].quit /\ b.tfin
        /\ b.rst = io[c].rst
    BY <1>0 DEF IORecords
  <2>. HIDE DEF b
  <2>3. \A p \in Places : Told(p, b) = Told(p, io[c])
    BY <2>2 DEF Told
  <2>4. InPlace(handler, pc[c], b, c)
    BY <1>0, <1>1, <2>2, <2>3 DEF InPlace, RelayInPlace
  <2>. QED
    BY <1>0, <2>1, <2>4, ConnectionMoves
<1>3. CASE /\ io[c].answer > 0 /\ io[c].tdown < Cap
           /\ io' = [io EXCEPT ![c].answer = @ - 1, ![c].tdown = @ + 1]
  <2>. DEFINE b == [io[c] EXCEPT !.answer = @ - 1, !.tdown = @ + 1]
  <2>1. io' = [io EXCEPT ![c] = b]
    BY <1>0, <1>3
  <2>2. b \in IORecords(c)
    <3>1. io[c].answer - 1 \in 0..RespLen[c] /\ io[c].tdown + 1 \in 0..Cap
      BY <1>0, <1>3, LengthFacts DEF IORecords
    <3>. QED
      BY <1>0, <3>1 DEF IORecords
  <2>3. /\ b.todo = io[c].todo /\ b.up = io[c].up /\ b.tin = io[c].tin /\ b.taken = io[c].taken
        /\ b.answer = io[c].answer - 1
        /\ b.buf = io[c].buf /\ b.tdown = io[c].tdown + 1 /\ b.down = io[c].down
        /\ b.got = io[c].got /\ b.fin = io[c].fin /\ b.quit = io[c].quit /\ b.tfin = io[c].tfin /\ b.rst = io[c].rst
    BY <1>0 DEF IORecords
  <2>. HIDE DEF b
  <2>5. \A p \in Places : Told(p, b) = Told(p, io[c]) /\ Asked(p, b) = Asked(p, io[c])
    BY <2>3 DEF Told, Asked
  <2>6. \A p \in Places : b.answer + b.tdown + Told(p, b) = io[c].answer + io[c].tdown + Told(p, io[c])
    BY <1>0, <2>3, LengthFacts DEF IORecords, Told
  <2>7. InPlace(handler, pc[c], b, c)
    BY <1>0, <1>1, <2>3, <2>5, <2>6 DEF InPlace, RelayInPlace
  <2>. QED
    BY <1>0, <2>1, <2>2, <2>7, ConnectionMoves
<1>4. CASE /\ io[c].tin > 0
           /\ io' = [io EXCEPT ![c].tin = @ - 1, ![c].taken = @ + 1]
  <2>. DEFINE b == [io[c] EXCEPT !.tin = @ - 1, !.taken = @ + 1]
  <2>1. io' = [io EXCEPT ![c] = b]
    BY <1>0, <1>4
  <2>2. /\ Asked(pc[c], io[c]) = ReqLen[c] /\ (pc[c] = "toTarget" => io[c].buf > 0)
        /\ io[c].todo \in Nat /\ io[c].up \in Nat /\ io[c].tin \in Nat /\ io[c].taken \in Nat
        /\ io[c].buf \in Nat /\ ReqLen[c] \in Nat
    BY <1>0, <1>1, LengthFacts DEF RelayInPlace, Running, InPlace, IORecords
  <2>3. /\ io[c].taken + 1 <= ReqLen[c] /\ (pc[c] = "toTarget" => io[c].taken + 1 < ReqLen[c])
    BY <1>4, <2>2 DEF Asked
  <2>4. b \in IORecords(c)
    <3>1. io[c].tin - 1 \in 0..Cap /\ io[c].taken + 1 \in 0..ReqLen[c]
      BY <1>0, <1>4, <2>2, <2>3, LengthFacts DEF IORecords
    <3>. QED
      BY <1>0, <3>1 DEF IORecords
  <2>5. /\ b.todo = io[c].todo /\ b.up = io[c].up /\ b.tin = io[c].tin - 1
        /\ b.taken = io[c].taken + 1 /\ b.answer = io[c].answer
        /\ b.buf = io[c].buf /\ b.tdown = io[c].tdown /\ b.down = io[c].down
        /\ b.got = io[c].got /\ b.fin = io[c].fin /\ b.quit = io[c].quit /\ b.tfin = io[c].tfin
        /\ b.rst = io[c].rst
    BY <1>0 DEF IORecords
  <2>. HIDE DEF b
  <2>6. Told(pc[c], b) = Told(pc[c], io[c]) /\ Asked(pc[c], b) = Asked(pc[c], io[c])
    BY <2>2, <2>5 DEF Told, Asked
  <2>7. InPlace(handler, pc[c], b, c)
    BY <1>0, <1>1, <2>3, <2>5, <2>6 DEF InPlace, RelayInPlace
  <2>. QED
    BY <1>0, <2>1, <2>4, <2>7, ConnectionMoves
<1>. QED
  BY <1>2, <1>3, <1>4 DEF TargetStep, TargetDies

-----------------------------------------------------------------------------
(* The steps of the parent, and connections *)

\* A client connects.
LEMMA ConnectsKeep ==
  ASSUME HttpInv, NEW c \in Clients, ClientConnects(c)
  PROVE  HttpInv'
<1>0. TypeOK /\ ParentInPlace /\ UNCHANGED <<handler, server, inHand, held, listens, pc, io>>
  BY DEF HttpInv, ClientConnects, parentVars
<1>1. /\ sock' \in [Clients -> {"idle", "queued", "accepted", "reset"}]
      /\ \A d \in Clients : sock'[d] = "accepted" <=> sock[d] = "accepted"
  BY <1>0 DEF ClientConnects, TypeOK
<1>2. TypeOK'
  BY <1>0, <1>1 DEF TypeOK
<1>3. ParentInPlace'
  BY <1>0, <1>1 DEF ParentInPlace
<1>. QED
  BY <1>0, <1>2, <1>3 DEF HttpInv

\* The parent accepts, forks and closes its descriptor.
LEMMA AcceptKeeps ==
  ASSUME HttpInv, (\E c \in Clients : Accept(c)) \/ Fork \/ ParentCloses
  PROVE  HttpInv'
<1>0. TypeOK /\ ParentInPlace /\ io = [d \in Clients |-> io[d]]
  BY DEF HttpInv
<1>1. ASSUME NEW c \in Clients, Accept(c) PROVE HttpInv'
  <2>1. /\ sock' \in [Clients -> {"idle", "queued", "accepted", "reset"}]
        /\ sock'[c] = "accepted" /\ \A d \in Clients : d # c => sock'[d] = sock[d]
        /\ pc[c] = "none" /\ held' = {c} /\ inHand' = c /\ server' = "fork" /\ server # "gone"
        /\ UNCHANGED <<handler, listens, pc, io>>
    BY <1>0, <1>1 DEF Accept, TypeOK, ParentInPlace
  <2>2. TypeOK'
    BY <1>0, <2>1 DEF TypeOK
  <2>3. ParentInPlace'
    BY <1>0, <2>1 DEF ParentInPlace
  <2>. QED
    BY <1>0, <2>1, <2>2, <2>3 DEF HttpInv
<1>2. CASE Fork
  <2>1. /\ inHand \in Clients /\ sock[inHand] = "accepted" /\ pc[inHand] = "none"
        /\ pc' \in [Clients -> Places] /\ pc'[inHand] = "start"
        /\ \A d \in Clients : d # inHand => pc'[d] = pc[d]
        /\ server' = "close" /\ listens' = listens \cup {inHand} /\ server = "fork"
        /\ handler # "usage"
        /\ UNCHANGED <<handler, held, inHand, sock, io>>
    BY <1>0, <1>2 DEF Fork, TypeOK, ParentInPlace, Places, Running
  <2>2. TypeOK'
    BY <1>0, <2>1 DEF TypeOK, Places
  <2>3. ParentInPlace'
    BY <1>0, <2>1 DEF ParentInPlace
  <2>4. InPlace(handler, "start", io[inHand], inHand)
    <3>1. InPlace(handler, "none", io[inHand], inHand) /\ io[inHand] \in IORecords(inHand)
      BY <2>1, InvOf
    <3>2. RunsHandler(handler, "start")
      BY <1>0, <2>1 DEF RunsHandler, TypeOK
    <3>. QED
      BY <2>1, <3>1, <3>2, LengthFacts DEF InPlace, RelayInPlace, Untouched, Asked, Told, Running, IORecords
  <2>. QED
    BY <1>0, <2>1, <2>2, <2>3, <2>4 DEF HttpInv
<1>3. CASE ParentCloses
  <2>1. /\ held' = {} /\ server' = "accept" /\ inHand' = NULL /\ server = "close"
        /\ UNCHANGED <<handler, listens, pc, sock, io>>
    BY <1>0, <1>3 DEF ParentCloses, TypeOK
  <2>2. TypeOK'
    BY <1>0, <2>1 DEF TypeOK
  <2>3. ParentInPlace'
    BY <1>0, <2>1 DEF ParentInPlace
  <2>. QED
    BY <1>0, <2>1, <2>2, <2>3 DEF HttpInv
<1>. QED
  BY <1>1, <1>2, <1>3

\* The parent ends, alone or with children that run.
LEMMA ParentExitsKeeps ==
  ASSUME HttpInv, NEW dead, ParentExits(dead), \A c \in dead : c \in Clients /\ pc[c] \in Running
  PROVE  HttpInv'
<1>0. TypeOK /\ ParentInPlace
  BY DEF HttpInv
<1>1. /\ server' = "gone" /\ inHand' = NULL /\ held' = {} /\ handler' = handler
      /\ listens' \subseteq listens /\ sock' = Backlog(listens')
      /\ pc' \in [Clients -> Places] /\ io' = [c \in Clients |-> io'[c]]
      /\ \A c \in Clients : c \notin dead => pc'[c] = pc[c] /\ io'[c] = io[c]
      /\ \A c \in Clients : c \in dead => pc'[c] = "crashed" /\ io'[c] = Discarded(io[c])
  BY <1>0 DEF ParentExits, TypeOK, Places
<1>2. /\ sock' \in [Clients -> {"idle", "queued", "accepted", "reset"}]
      /\ \A d \in Clients : sock'[d] = "accepted" <=> sock[d] = "accepted"
  BY <1>0, <1>1, BacklogFacts
<1>3. ASSUME NEW c \in Clients PROVE io'[c] \in IORecords(c) /\ InPlace(handler, pc'[c], io'[c], c)
  <2>0. io[c] \in IORecords(c) /\ InPlace(handler, pc[c], io[c], c)
    BY InvOf
  <2>1. CASE c \notin dead
    BY <1>1, <2>0, <2>1
  <2>2. CASE c \in dead
    <3>. DEFINE b == Discarded(io[c])
    <3>1. b \in IORecords(c)
      <4>1. /\ 0 \in 0..Cap /\ 0 \in 0..(Cap + RespLen[c]) /\ 0 \in 0..ReqLen[c]
            /\ (io[c].up > 0) \in BOOLEAN
        BY LengthFacts
      <4>. QED
        BY <2>0, <4>1 DEF IORecords, Discarded
    <3>2. b.down = io[c].down /\ b.got = io[c].got /\ b.quit = io[c].quit
      BY <2>0 DEF IORecords, Discarded
    <3>. HIDE DEF b
    <3>3. InPlace(handler, "crashed", b, c)
      <4>1. pc[c] # "none"
        BY <2>2 DEF Running
      <4>2. RunsHandler(handler, "crashed")
        BY <2>0, <4>1 DEF InPlace, RunsHandler
      <4>. QED
        BY <2>0, <3>2, <4>2 DEF InPlace, RelayInPlace, Running
    <3>4. pc'[c] = "crashed" /\ io'[c] = b
      BY <1>1, <2>2 DEF b
    <3>. QED
      BY <3>1, <3>3, <3>4
  <2>. QED
    BY <2>1, <2>2
<1>4. TypeOK'
  BY <1>0, <1>1, <1>2, <1>3 DEF TypeOK, IORecords, Places
<1>5. ParentInPlace'
  <2>1. ASSUME NEW c \in Clients, sock'[c] # "accepted" PROVE pc'[c] = "none"
    <3>1. pc[c] = "none"
      BY <1>0, <1>2, <2>1 DEF ParentInPlace
    <3>2. c \notin dead
      BY <3>1 DEF Running
    <3>. QED
      BY <1>1, <3>1, <3>2
  <2>. QED
    BY <1>1, <2>1 DEF ParentInPlace
<1>. QED
  BY <1>1, <1>3, <1>4, <1>5 DEF HttpInv

\* Every step keeps the invariant.
LEMMA HttpNextInv ==
  ASSUME HttpInv, Next
  PROVE  HttpInv'
<1>1. CASE ParentStep
  <2>1. CASE ForkFails
    BY <2>1, ParentExitsKeeps DEF ForkFails
  <2>. QED
    BY <1>1, <2>1, AcceptKeeps DEF ParentStep
<1>2. CASE Interrupt
  BY <1>2, ParentExitsKeeps DEF Interrupt
<1>3. ASSUME NEW c \in Clients, ChildStep(c) PROVE HttpInv'
  BY <1>3, StartKeeps, ParseKeeps, ConnectKeeps, SelectKeeps, WriteClientKeeps, WriteTargetKeeps,
     CloseKeeps DEF ChildStep
<1>4. ASSUME NEW c \in Clients,
             \/ ClientConnects(c) \/ ClientIO(c) \/ ClientEnds(c) \/ ResetArrives(c)
             \/ TargetStep(c) \/ TargetDies(c)
      PROVE  HttpInv'
  BY <1>4, ConnectsKeep, ClientIOKeeps, ClientEndsKeeps, ResetKeeps, TargetKeeps
<1>. QED
  BY <1>1, <1>2, <1>3, <1>4 DEF Next

\* So does a step that changes nothing.
LEMMA HttpStutters ==
  ASSUME HttpInv, UNCHANGED vars
  PROVE  HttpInv'
BY DEF HttpInv, vars, parentVars, TypeOK, ParentInPlace

\* The inductive invariant: every byte of a connection is where its child's
\* place says.
THEOREM HttpInvariant == Spec => []HttpInv
<1>1. HttpInv /\ [Next]_vars => HttpInv'
  BY HttpNextInv, HttpStutters
<1>. QED
  BY <1>1, HttpInitInv, PTL DEF Spec

\* The parent holds a connection only from accept until after fork, and no
\* buffer ever holds more than the kernel allows, whatever the clients, the
\* target and signals do (httpserver.c:300-328).
THEOREM BuffersBounded == Spec => []TypeOK
<1>1. HttpInv => TypeOK
  BY DEF HttpInv
<1>. QED
  BY <1>1, HttpInvariant, PTL

\* The relay between two live peers loses and doubles no byte
\* (httpserver.c:222-250).
THEOREM RelayConserves == Spec => []BytesConserved
<1>1. HttpInv => BytesConserved
  <2>. SUFFICES ASSUME HttpInv, NEW c \in Clients, handler = "proxy", pc[c] \in Running
                PROVE  LET b == io[c] IN
                       /\ ~b.tfin => b.todo + b.up + b.tin + b.taken + (IF pc[c] = "toTarget" THEN b.buf ELSE 0) = ReqLen[c]
                       /\ ~b.quit => b.answer + b.tdown + b.down + b.got
                              + (IF pc[c] = "toClient" THEN b.buf ELSE 0) = RespLen[c]
    BY DEF BytesConserved
  <2>1. io[c] \in IORecords(c) /\ RelayInPlace(pc[c], io[c], c)
    BY InvOf DEF InPlace
  <2>. QED
    BY <2>1, LengthFacts DEF RelayInPlace, Asked, Told, IORecords
<1>. QED
  BY <1>1, HttpInvariant, PTL

\* A child that ends by itself has passed on the whole answer to a client that
\* stayed: the file's, or all that the target sent (libhttp.c:114-123,
\* httpserver.c:222-250).
THEOREM AnswersAreWhole == Spec => []AnswerIsWhole
<1>1. HttpInv => AnswerIsWhole
  <2>. SUFFICES ASSUME HttpInv, NEW c \in Clients, pc[c] = "done", ~io[c].quit, ~io[c].rst,
                       handler = "files" \/ (~io[c].fin /\ io[c].taken = ReqLen[c])
                PROVE  io[c].down + io[c].got =
                         IF handler = "files" THEN RespLen[c] ELSE RespLen[c] - io[c].answer
    BY DEF AnswerIsWhole
  <2>1. io[c] \in IORecords(c) /\ InPlace(handler, "done", io[c], c)
    BY InvOf
  <2>2. handler \in {"files", "proxy"}
    BY <2>1 DEF InPlace, RunsHandler
  <2>3. CASE handler = "files"
    BY <2>1, <2>3, LengthFacts DEF InPlace, Told, IORecords
  <2>4. CASE handler = "proxy"
    BY <2>1, <2>4, LengthFacts DEF InPlace, RelayInPlace, IORecords
  <2>. QED
    BY <2>2, <2>3, <2>4
<1>. QED
  BY <1>1, HttpInvariant, PTL

=============================================================================
