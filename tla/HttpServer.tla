----------------------------- MODULE HttpServer -----------------------------
(***************************************************************************)
(* The web server of hw2/httpserver.c: a parent that accepts and forks     *)
(* (serve_forever), and a child per connection that either answers one     *)
(* request from the file system (handle_files_request) or relays bytes     *)
(* between its client and the proxy target (handle_proxy_request).         *)
(*                                                                         *)
(* Bytes are counted, not kept: a unit is a part of a request or of a      *)
(* response that TCP may deliver by itself.  Every kernel buffer holds Cap *)
(* units and a write blocks while it is full.  A client sends and reads as *)
(* it can; a target reads its request and then answers, or, if it is Early,*)
(* answers as soon as it has the first of it and reads on afterwards: both *)
(* are external and modelled as ordinary blocking programs.                *)
(***************************************************************************)
EXTENDS Naturals, FiniteSets, SequencesExt

CONSTANTS
  Clients,   \* one connection each
  Leaving,   \* those that may shut down their sending side or go away
  Early,     \* those whose target answers before it has read the whole request
  ArgLists,  \* the command lines the server is started with
  Paths,     \* what a request may ask for: see Outcomes
  ReqLen,    \* units of each client's request
  LineLen,   \* units of its first line
  RespLen,   \* units of the answer to it
  Cap,       \* units a kernel buffer holds
  NULL

ASSUME HttpAssumption ==
  /\ IsFiniteSet(Clients) /\ NULL \notin Clients /\ "parent" \notin Clients
  /\ Paths \subseteq {"file", "unreadable", "indexed", "directory", "missing", "long", "malformed"}
  /\ Cap \in Nat \ {0} /\ Early \subseteq Clients /\ Leaving \subseteq Clients
  /\ ReqLen \in [Clients -> Nat \ {0}] /\ RespLen \in [Clients -> Nat \ {0}]
  /\ \A c \in Clients : LineLen[c] \in 1..ReqLen[c]

VARIABLES
  handler,  \* the request_handler that main selected
  server,   \* where the parent is: "accept", "fork", "close" or "gone"
  inHand,   \* the client_socket_number it accepted and has not closed
  held,     \* the connections the parent has a descriptor of
  listens,  \* the processes that have the listening socket open
  pc,       \* where each connection's child is
  sock,     \* each client's connection
  io        \* the bytes of each connection, wherever they are

parentVars == <<handler, server, inHand, held>>
vars == <<parentVars, listens, pc, sock, io>>

Running == {"start", "parse", "connect", "select", "toClient", "toTarget", "close"}

\* No process of the server has connection c open any more: its client reads
\* end of file after what is still in the buffer.
Closed(c) == sock[c] = "reset" \/ (sock[c] = "accepted" /\ c \notin held /\ pc[c] \notin Running)

\* main: the last of --files and --proxy decides.  Any other word, --help or an
\* argument that is missing ends it, and so does a second --files, which frees
\* a string of argv.
Configured(args) ==
  LET Count(a) == Cardinality({i \in DOMAIN args : args[i] = a})
      kinds    == SelectSeq(args, LAMBDA a : a # "--port")
  IN  CASE ~ToSet(args) \subseteq {"--files", "--proxy", "--port"} -> "usage"
        [] Count("--files") > 1 -> "usage"
        [] OTHER -> IF kinds # << >> /\ Last(kinds) = "--proxy" THEN "proxy" ELSE "files"

\* serve_forever: the process also ends when it cannot bind or listen.
Init ==
  /\ handler \in {Configured(args) : args \in ArgLists}
  /\ server \in IF handler = "usage" THEN {"gone"} ELSE {"accept", "gone"}
  /\ inHand = NULL
  /\ held = {}
  /\ listens = IF server = "gone" THEN {} ELSE {"parent"}
  /\ pc = [c \in Clients |-> "none"]
  /\ sock = [c \in Clients |-> "idle"]
  /\ io = [c \in Clients |->
             [todo |-> ReqLen[c], up |-> 0, buf |-> 0, tin |-> 0, taken |-> 0, \* the request
              answer |-> RespLen[c], tdown |-> 0, down |-> 0, got |-> 0,       \* the response
              fin |-> FALSE, quit |-> FALSE, tfin |-> FALSE, rst |-> FALSE]]   \* the ends

-----------------------------------------------------------------------------
(* The parent *)

\* Connections nobody can accept any more are reset by the kernel.
Backlog(ls) == [c \in Clients |-> IF ls = {} /\ sock[c] = "queued" THEN "reset" ELSE sock[c]]

\* accept; one that fails is tried again and changes nothing.
Accept(c) ==
  /\ server = "accept" /\ sock[c] = "queued"
  /\ sock' = [sock EXCEPT ![c] = "accepted"]
  /\ held' = held \cup {c}
  /\ inHand' = c
  /\ server' = "fork"
  /\ UNCHANGED <<handler, listens, pc, io>>

\* fork: the child inherits both sockets.
Fork ==
  /\ server = "fork"
  /\ pc' = [pc EXCEPT ![inHand] = "start"]
  /\ listens' = listens \cup {inHand}
  /\ server' = "close"
  /\ UNCHANGED <<handler, held, inHand, sock, io>>

\* Mutation: the parent keeps the connection open.
ParentCloses_KeepsSocket ==
  /\ server = "close"
  /\ server' = "accept" /\ inHand' = NULL
  /\ UNCHANGED <<handler, held, listens, pc, sock, io>>

\* The parent closes its descriptor of the connection.
ParentCloses ==
  /\ server = "close"
  /\ held' = held \ {inHand}
  /\ server' = "accept" /\ inHand' = NULL
  /\ UNCHANGED <<handler, listens, pc, sock, io>>

\* What a closed socket had received and nobody read is thrown away and makes
\* the kernel reset the connection; the target loses its connection; and what
\* the client had still to send no longer matters.
Discarded(b) == [b EXCEPT !.todo = 0, !.up = 0, !.buf = 0, !.tin = 0, !.tdown = 0, !.tfin = TRUE,
                          !.rst = b.up > 0]

\* exit of the parent, and of dead children: the kernel closes what they had open.
ParentExits(dead) ==
  /\ server' = "gone" /\ inHand' = NULL
  /\ held' = {}
  /\ pc' = [c \in Clients |-> IF c \in dead THEN "crashed" ELSE pc[c]]
  /\ io' = [c \in Clients |-> IF c \in dead THEN Discarded(io[c]) ELSE io[c]]
  /\ listens' = listens \ (dead \cup {"parent"})
  /\ sock' = Backlog(listens')
  /\ UNCHANGED handler

\* A failed fork ends the server.  Children are never waited for, so it fails
\* at the latest when their zombies have used up the process table.
ForkFails == server = "fork" /\ ParentExits({})

\* SIGINT: sent to the parent, or by ^C to the children too, who have no handler.
Interrupt ==
  /\ server # "gone"
  /\ \E dead \in {{}, {c \in Clients : pc[c] \in Running}} : ParentExits(dead)

-----------------------------------------------------------------------------
(* A child *)

At(c, label) == pc[c] = label
Goto(c, label) == pc' = [pc EXCEPT ![c] = label]
Works == UNCHANGED <<parentVars, listens, sock>>

\* The process ends, normally or not, after sending a last part to its client.
Exits(c, how, sent) ==
  /\ Goto(c, how)
  /\ io' = [io EXCEPT ![c] = [Discarded(io[c]) EXCEPT !.down = @ + sent]]
  /\ listens' = listens \ {c}
  /\ sock' = Backlog(listens')
  /\ UNCHANGED parentVars

\* Mutation: the child keeps the listening socket.
Start_KeepsListening(c) ==
  /\ At(c, "start")
  /\ Goto(c, IF handler = "files" THEN "parse" ELSE "connect")
  /\ UNCHANGED <<parentVars, listens, sock, io>>

\* The child restores SIGINT, closes the listening socket and calls the handler.
Start(c) ==
  /\ At(c, "start")
  /\ Goto(c, IF handler = "files" THEN "parse" ELSE "connect")
  /\ listens' = listens \ {c}
  /\ sock' = Backlog(listens')
  /\ UNCHANGED <<parentVars, io>>

\* What becomes of a request: an answer, a crash, or a crash after the status
\* line ("cut").  A request that does not parse is a NULL that is dereferenced;
\* so is a file that fopen cannot open, whose status is sent by then; the names
\* of a directory may overflow the list; a long path overflows the string of
\* the directory it is appended to; and stat's failure goes unnoticed and leaves
\* st_mode uninitialised.
Outcomes(path) ==
  CASE path = "malformed"  -> {"crash"}
    [] path = "file"       -> {"answer"}
    [] path = "unreadable" -> {"cut"}
    [] path = "missing"    -> {"answer", "cut"}
    [] path \in {"indexed", "directory", "long"} -> {"answer", "cut", "crash"}

\* http_request_parse reads once: the line must have come by then.
Whole(c) == io[c].up >= LineLen[c]

\* A read that ends before the line does makes the request malformed.
Parse(c) ==
  /\ At(c, "parse") /\ (io[c].up > 0 \/ io[c].fin)
  /\ \E path \in Paths : \E outcome \in Outcomes(IF Whole(c) THEN path ELSE "malformed") :
       \/ /\ outcome = "answer"
          /\ Goto(c, "toClient") /\ Works
          /\ io' = [io EXCEPT ![c].up = 0, ![c].buf = RespLen[c]]
       \/ outcome = "crash" /\ Exits(c, "crashed", 0)
       \/ outcome = "cut" /\ Exits(c, "crashed", IF io[c].quit THEN 0 ELSE 1)

\* A host name that does not resolve is dereferenced; a connection that fails
\* is only reported, and the first read from the socket then fails.
ConnectTarget(c) ==
  /\ At(c, "connect")
  /\ \/ Goto(c, "select") /\ Works /\ UNCHANGED io
     \/ Goto(c, "select") /\ Works /\ io' = [io EXCEPT ![c].tfin = TRUE]
     \/ Exits(c, "crashed", 0)

\* Mutation: the end of a response ends the relay before the last of it is read.
TargetData_EndFirst(c) == io[c].tdown > 0 /\ ~io[c].tfin

TargetData(c) == io[c].tdown > 0

\* Mutation: end of file from the target is not noticed.
TargetReady_DataOnly(c) == TargetData(c)

TargetReady(c) == TargetData(c) \/ io[c].tfin

\* select: the target first, then the client; end of file on either side, or an
\* error, ends the relay.
Select(c) ==
  /\ At(c, "select")
  /\ \/ /\ TargetData(c)
        /\ Goto(c, "toClient")
        /\ io' = [io EXCEPT ![c].tdown = 0, ![c].buf = io[c].tdown]
     \/ /\ ~TargetReady(c) /\ io[c].up > 0
        /\ Goto(c, "toTarget")
        /\ io' = [io EXCEPT ![c].up = 0, ![c].buf = io[c].up]
     \/ /\ IF TargetReady(c) THEN ~TargetData(c)
                             ELSE io[c].up = 0 /\ io[c].fin
        /\ Goto(c, "close") /\ UNCHANGED io
  /\ Works

\* After a write: back to select, or the end of the only answer.
Written(c) == IF handler = "proxy" THEN "select" ELSE "close"

\* A write to a peer that is gone: its bytes vanish, it fails, or SIGPIPE kills.
Gone(c) ==
  \/ /\ io' = [io EXCEPT ![c].buf = 0]
     /\ \E label \in {"close", Written(c)} : Goto(c, label)
     /\ Works
  \/ Exits(c, "crashed", 0)

\* Mutation: a write that does not wait for room, its short count not looked at.
WriteClient_Short(c) ==
  /\ At(c, "toClient")
  /\ io' = [io EXCEPT ![c].buf = 0, ![c].down = IF io[c].quit \/ @ = Cap THEN @ ELSE @ + 1]
  /\ Goto(c, Written(c)) /\ Works

\* The relay writes once and looks only at the sign of the count, http_send_data
\* goes on until nothing is left.  The sockets block and no signal of the child
\* has a handler, so that a write returns before it has placed every byte only
\* when the peer has gone meanwhile (Gone): to place the bytes one at a time, as
\* room comes, is what both do.
WriteClient(c) ==
  /\ At(c, "toClient")
  /\ \/ /\ ~io[c].quit /\ io[c].down < Cap
        /\ io' = [io EXCEPT ![c].buf = @ - 1, ![c].down = @ + 1]
        /\ Goto(c, IF io[c].buf = 1 THEN Written(c) ELSE "toClient") /\ Works
     \/ io[c].quit /\ Gone(c)

WriteTarget(c) ==
  /\ At(c, "toTarget")
  /\ \/ /\ ~io[c].tfin /\ io[c].tin < Cap
        /\ io' = [io EXCEPT ![c].buf = @ - 1, ![c].tin = @ + 1]
        /\ Goto(c, IF io[c].buf = 1 THEN "select" ELSE "toTarget") /\ Works
     \/ io[c].tfin /\ Gone(c)

\* close of both sockets and exit.
Close(c) == At(c, "close") /\ Exits(c, "done", 0)

ChildStep(c) ==
  Start(c) \/ Parse(c) \/ ConnectTarget(c) \/ Select(c) \/ WriteClient(c) \/ WriteTarget(c) \/ Close(c)

-----------------------------------------------------------------------------
(* Clients and the proxy target *)

Connected(c) == sock[c] \in {"queued", "accepted"} /\ ~io[c].quit /\ ~Closed(c)

ClientConnects(c) ==
  /\ sock[c] = "idle" /\ listens # {}
  /\ sock' = [sock EXCEPT ![c] = "queued"]
  /\ UNCHANGED <<parentVars, listens, pc, io>>

\* A client sends the next segment of its request, or reads.
ClientIO(c) ==
  /\ \/ /\ Connected(c) /\ io[c].todo > 0 /\ io[c].up < Cap
        /\ io' = [io EXCEPT ![c].todo = @ - 1, ![c].up = @ + 1]
     \/ /\ ~io[c].quit /\ io[c].down > 0
        /\ io' = [io EXCEPT ![c].down = @ - 1, ![c].got = @ + 1]
  /\ UNCHANGED <<parentVars, listens, pc, sock>>

\* The client shuts down its sending side after its request, or goes away.
ClientEnds(c) ==
  /\ c \in Leaving /\ Connected(c)
  /\ \/ io[c].todo = 0 /\ ~io[c].fin /\ io' = [io EXCEPT ![c].fin = TRUE]
     \/ io' = [io EXCEPT ![c].quit = TRUE, ![c].fin = TRUE, ![c].down = 0, ![c].got = 0]
  /\ UNCHANGED <<parentVars, listens, pc, sock>>

\* The reset of a connection overtakes what the client has not read yet.
ResetArrives(c) ==
  /\ io[c].rst /\ io[c].down > 0
  /\ io' = [io EXCEPT ![c].down = 0]
  /\ UNCHANGED <<parentVars, listens, pc, sock>>

TargetOpen(c) == pc[c] \in {"select", "toClient", "toTarget"} /\ handler = "proxy" /\ ~io[c].tfin

\* The target has read what it waits for before it answers.
Answers(c) == io[c].taken = ReqLen[c] \/ (c \in Early /\ io[c].taken > 0)

\* The target reads its request, answers and closes.
TargetStep(c) ==
  /\ TargetOpen(c)
  /\ \/ /\ io[c].tin > 0 /\ (~Answers(c) \/ io[c].answer = 0)
        /\ io' = [io EXCEPT ![c].tin = @ - 1, ![c].taken = @ + 1]
     \/ /\ Answers(c) /\ io[c].answer > 0 /\ io[c].tdown < Cap
        /\ io' = [io EXCEPT ![c].answer = @ - 1, ![c].tdown = @ + 1]
     \/ /\ io[c].taken = ReqLen[c] /\ io[c].answer = 0
        /\ io' = [io EXCEPT ![c].tfin = TRUE]
  /\ UNCHANGED <<parentVars, listens, pc, sock>>

TargetDies(c) ==
  /\ TargetOpen(c)
  /\ io' = [io EXCEPT ![c].tfin = TRUE]
  /\ UNCHANGED <<parentVars, listens, pc, sock>>

-----------------------------------------------------------------------------
ParentStep == (\E c \in Clients : Accept(c)) \/ Fork \/ ParentCloses \/ ForkFails

Next ==
  \/ ParentStep \/ Interrupt
  \/ \E c \in Clients : \/ ChildStep(c) \/ ClientConnects(c) \/ ClientIO(c) \/ ClientEnds(c)
                        \/ ResetArrives(c) \/ TargetStep(c) \/ TargetDies(c)

\* The server's processes run; clients and target may do nothing for ever.
Spec ==
  /\ Init /\ [][Next]_vars
  /\ WF_vars(ParentStep)
  /\ \A c \in Clients : WF_vars(ChildStep(c))

-----------------------------------------------------------------------------
(* Properties *)

\* The parent holds a connection only from accept until after fork, and no buffer
\* ever holds more than the kernel allows (httpserver.c:300-328).
TypeOK ==
  /\ handler \in {"files", "proxy", "usage"}
  /\ server \in {"accept", "fork", "close", "gone"} /\ inHand \in Clients \cup {NULL}
  /\ held = IF server \in {"fork", "close"} THEN {inHand} ELSE {}
  /\ listens \subseteq Clients \cup {"parent"}
  /\ pc \in [Clients -> Running \cup {"none", "done", "crashed"}]
  /\ sock \in [Clients -> {"idle", "queued", "accepted", "reset"}]
  /\ \A c \in Clients :
       io[c] \in [todo : 0..ReqLen[c], up : 0..Cap, buf : 0..(Cap + RespLen[c]), tin : 0..Cap,
                 taken : 0..ReqLen[c], answer : 0..RespLen[c], tdown : 0..Cap, down : 0..Cap,
                 got : 0..RespLen[c], fin : BOOLEAN, quit : BOOLEAN, tfin : BOOLEAN, rst : BOOLEAN]

\* A child that ends by itself has passed on every byte of the answer to a
\* client that stayed: the file's, or all that the target sent before it
\* closed (libhttp.c:114-123, httpserver.c:222-250).  Three clients are excepted,
\* as the code cuts them off: one that shuts down its sending side, one whose
\* target ends before it has read the request, and one whose request was not
\* read to its end, which makes the kernel reset the connection.
AnswerIsWhole ==
  \A c \in Clients :
    pc[c] = "done" /\ ~io[c].quit /\ ~io[c].rst
    /\ (handler = "files" \/ (~io[c].fin /\ io[c].taken = ReqLen[c]))
      => io[c].down + io[c].got = IF handler = "files" THEN RespLen[c] ELSE RespLen[c] - io[c].answer

\* While the relay runs, no byte is lost or doubled between two live peers,
\* whatever the buffers hold and whoever waits (httpserver.c:222-250).
BytesConserved ==
  \A c \in Clients :
    LET b == io[c] IN
    handler = "proxy" /\ pc[c] \in Running =>
      /\ ~b.tfin => b.todo + b.up + b.tin + b.taken + (IF pc[c] = "toTarget" THEN b.buf ELSE 0)
                       = ReqLen[c]
      /\ ~b.quit => b.answer + b.tdown + b.down + b.got
                      + (IF pc[c] = "toClient" THEN b.buf ELSE 0) = RespLen[c]

\* When its child has ended, however, a client reads end of file: no other
\* process of the server keeps the connection open (httpserver.c:316-323).
EndIsSeen ==
  \A c \in Clients : (sock[c] = "accepted" /\ pc[c] \in {"done", "crashed"}) ~> Closed(c)

\* After the parent has gone, a client that was not accepted is refused, even
\* while children of other clients live on (httpserver.c:320, 335-340).
QueuedAreReset == \A c \in Clients : server = "gone" ~> sock[c] # "queued"

\* The relay waits to write to a target that waits to write to it: with blocking
\* writes in one loop nothing empties either buffer (httpserver.c:228, 240).
EachWaits(c) ==
  /\ c \in Early /\ pc[c] = "toTarget" /\ ~io[c].tfin
  /\ io[c].tin = Cap /\ io[c].tdown = Cap /\ io[c].answer > 0

\* If its client and target go on with what they began, a connection comes to
\* its end whatever other clients do, unless its target answers a long request
\* early and the relay and the target wait for each other: there is no other
\* way to wait for ever (httpserver.c:222-251, 300-328).
ConversationsEnd ==
  \A c \in Clients :
    WF_vars(ClientIO(c)) /\ WF_vars(TargetStep(c))
      => (sock[c] = "queued" ~> Closed(c) \/ EachWaits(c))
=============================================================================
