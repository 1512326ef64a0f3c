---------------------------- MODULE MCHttpServer ----------------------------
(* Instances of HttpServer for TLC.  A buffer holds one unit, an answer is   *)
(* longer.  The first client's request fills every buffer on its way and its *)
(* line comes in two parts, its target answers early, and it may go away.    *)
EXTENDS HttpServer

CONSTANTS c1, c2

MCClients == {c1, c2}
MCArgLists == {<< >>, <<"--port", "--proxy">>, <<"--proxy", "--files">>, <<"--files", "missing">>,
               <<"--files", "--files">>}
MCReqLen == [c \in MCClients |-> IF c = c1 THEN 3 ELSE 1]
MCLineLen == [c \in MCClients |-> IF c = c1 THEN 2 ELSE 1]
MCRespLen == [c \in MCClients |-> 2]
MCEarly == {c1}
MCLeaving == {c1}
=============================================================================
