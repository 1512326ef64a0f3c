------------------------------ MODULE KVMessage ------------------------------
(***************************************************************************)
(* One exchange between two programs of hw4: kvrequest_send and            *)
(* kvresponse_recieve on one side, kvserver_handle with kvrequest_recieve  *)
(* and kvresponse_send on the other (kvmessage.c), over HTTP text          *)
(* (libhttp.c) whose URL carries the operands (liburl.c).                  *)
(*                                                                         *)
(* A text is a sequence of symbols: words, and the characters that the     *)
(* parsers look for.  A name stands for itself and for its prefixes, which *)
(* strncmp takes for it.  Either side reads once, and a text may reach it  *)
(* in two segments, split between any two symbols.                         *)
(***************************************************************************)
EXTENDS Naturals, SequencesExt

CONSTANTS
  Symbols,     \* what texts are made of
  Keys, Vals,  \* the operands: sequences of symbols
  Bodies,      \* the values that a GET returns: sequences of symbols
  Foreign,     \* texts that other clients send
  UrlMax,      \* symbols that buf of url_encode holds
  NULL

Words ==
  {"GET", "PUT", "DELETE", "POST", "register", "commit", "abort", "key", "val", "HTTP/1.1",
   "200", "201", "202", "204", "500", "message", "Content-Length", "length",
   "no key", "full", "invalid", "page", "/", "?", "=", "&", " ", "\n"}

ASSUME MessageAssumption ==
  /\ UrlMax \in Nat /\ NULL \notin Keys \cup Vals \cup [method : Seq(Symbols), url : Seq(Symbols)]
  /\ Words \subseteq Symbols /\ Keys \cup Vals \cup Bodies \cup Foreign \subseteq Seq(Symbols)

VARIABLES
  cl,      \* where the client is
  msg,     \* the request it sends, or NULL for a foreign text
  out,     \* what it has yet to write
  wire,    \* what it has written and the server has not read
  sv,      \* where the server is
  reqText, \* what the server read
  res,     \* the response of the server's handler
  resOut, resWire, resText  \* the same three for the response

vars == <<cl, msg, out, wire, sv, reqText, res, resOut, resWire, resText>>

-----------------------------------------------------------------------------
(* Requests *)

Request(type, key, val) == [type |-> type, key |-> key, val |-> val]

Requests ==
  {Request(type, k, v) : type \in {"PUTREQ", "REGISTER", "COMMIT", "ABORT"}, k \in Keys, v \in Vals}
  \cup {Request(type, k, NULL) : type \in {"GETREQ", "DELREQ"}, k \in Keys}

method_for(type) ==
  CASE type = "GETREQ" -> "GET" [] type = "PUTREQ" -> "PUT" [] type = "DELREQ" -> "DELETE"
    [] type \in {"REGISTER", "COMMIT", "ABORT"} -> "POST"

path_for(type) ==
  CASE type = "REGISTER" -> <<"register">> [] type = "COMMIT" -> <<"commit">>
    [] type = "ABORT" -> <<"abort">> [] OTHER -> << >>

Param(name, val) == IF val = NULL THEN << >> ELSE <<name, "=">> \o val \o <<"&">>

\* The last character, a ? or &, is cut off.
url_encode(path, key, val) == Front(<<"/">> \o path \o <<"?">> \o Param("key", key) \o Param("val", val))

RequestText(r) ==
  <<method_for(r.type), " ">> \o url_encode(path_for(r.type), r.key, r.val) \o <<" ", "HTTP/1.1", "\n", "\n">>

\* The first position from i on of a symbol of S, or the end of the text.
Find(text, i, S) ==
  LET at == {j \in i..Len(text) : text[j] \in S}
  IN  IF at = {} THEN Len(text) + 1 ELSE CHOOSE j \in at : \A l \in at : j <= l

\* The value of the last parameter of a query with one of these names.
Lookup(query, names) ==
  LET starts == {1} \cup {i + 1 : i \in {j \in DOMAIN query : query[j] = "&"}}
      end(i) == Find(query, i, {"&"})
      eq(i) == Find(query, i, {"="})
      named == {i \in starts : eq(i) < end(i) /\ SubSeq(query, i, eq(i) - 1) \in names}
      last == CHOOSE i \in named : \A j \in named : j <= i
  IN  IF named = {} THEN NULL ELSE SubSeq(query, eq(last) + 1, end(last) - 1)

\* A parameter without a name passes for the key.
url_decode(url) ==
  LET q == Find(url, 1, {"?"})
      query == SubSeq(url, q + 1, Len(url))
  IN  [path |-> SubSeq(url, 2, q - 1),
       key |-> Lookup(query, {<<"key">>, << >>}), val |-> Lookup(query, {<<"val">>})]

\* Mutation: the end of what was read ends the path, too.
PathEnds_Anywhere(text, i) == i <= Len(text) + 1

\* The path must end in a blank or a newline that has been read.
PathEnds(text, i) == i <= Len(text)

\* http_request_parse; a prefix of a method, the empty one too, passes here.
http_request_parse(text) ==
  LET sp == Find(text, 1, {" "})
      end == Find(text, sp + 1, {" ", "\n"})
  IN  IF /\ sp < Len(text) /\ PathEnds(text, end) /\ text[sp + 1] = "/"
         /\ SubSeq(text, 1, sp - 1) \in {<< >>, <<"GET">>, <<"PUT">>, <<"DELETE">>, <<"POST">>, <<"P">>}
      THEN [method |-> SubSeq(text, 1, sp - 1), url |-> SubSeq(text, sp + 1, end - 1)]
      ELSE NULL

\* Mutation: a PUT without a value is let through.
TypeOf_NoCheck(method, p) ==
  CASE method = <<"GET">> -> IF p.key = NULL THEN "INDEX" ELSE "GETREQ"
    [] method = <<"PUT">> /\ p.key # NULL -> "PUTREQ"
    [] method = <<"DELETE">> /\ p.key # NULL -> "DELREQ"
    [] method = <<"POST">> /\ p.path = <<"register">> /\ p.key # NULL /\ p.val # NULL -> "REGISTER"
    [] method = <<"POST">> /\ p.path = <<"commit">> -> "COMMIT"
    [] method = <<"POST">> /\ p.path = <<"abort">> -> "ABORT"
    [] OTHER -> "EMPTY"

\* The type of a request, or EMPTY for one that is refused.
TypeOf(method, p) ==
  CASE method = <<"GET">> -> IF p.key = NULL THEN "INDEX" ELSE "GETREQ"
    [] method = <<"PUT">> /\ p.key # NULL /\ p.val # NULL -> "PUTREQ"
    [] method = <<"DELETE">> /\ p.key # NULL -> "DELREQ"
    [] method = <<"POST">> /\ p.path = <<"register">> /\ p.key # NULL /\ p.val # NULL -> "REGISTER"
    [] method = <<"POST">> /\ p.path = <<"commit">> -> "COMMIT"
    [] method = <<"POST">> /\ p.path = <<"abort">> -> "ABORT"
    [] OTHER -> "EMPTY"

kvrequest_recieve(text) ==
  LET h == http_request_parse(text) IN
  IF h = NULL THEN NULL
  ELSE LET p == url_decode(h.url)
           type == TypeOf(h.method, p)
       IN  IF type = "EMPTY" THEN NULL ELSE Request(type, p.key, p.val)

-----------------------------------------------------------------------------
(* Responses *)

code_for(type) ==
  CASE type = "GETRESP" -> "200" [] type = "SUCCESS" -> "201" [] type = "ERROR" -> "500"
    [] type = "VOTE" -> "202" [] type = "ACK" -> "204"

\* Mutation: two codes swapped.
get_status_code_Swapped(status) ==
  CASE status = "200" -> "GETRESP" [] status = "201" -> "SUCCESS" [] status = "500" -> "ERROR"
    [] status = "204" -> "VOTE" [] status = "202" -> "ACK" [] OTHER -> "EMPTY"

get_status_code(status) ==
  CASE status = "200" -> "GETRESP" [] status = "201" -> "SUCCESS" [] status = "500" -> "ERROR"
    [] status = "202" -> "VOTE" [] status = "204" -> "ACK" [] OTHER -> "EMPTY"

Response(type, body) == [type |-> type, body |-> body]

\* What kvserver_handle_tpc and tpcleader_register answer.
Responses(type) ==
  CASE type = "GETREQ" -> {Response("GETRESP", b) : b \in Bodies} \cup {Response("ERROR", <<"no key">>)}
    [] type \in {"PUTREQ", "DELREQ"} -> {Response("VOTE", <<"commit">>), Response("ERROR", <<"no key">>)}
    [] type \in {"COMMIT", "ABORT"} -> {Response("ACK", NULL)}
    [] type = "REGISTER" -> {Response("SUCCESS", NULL), Response("ERROR", <<"full">>)}

Text(body) == IF body = NULL THEN << >> ELSE body

ResponseText(r) ==
  <<"HTTP/1.1", " ", code_for(r.type), " ", "message", "\n", "Content-Length", "length", "\n", "\n">>
  \o Text(r.body)

\* http_response_parse: everything up to the blank line must have come; the
\* body is whatever of it has.  kvresponse_recieve refuses an unknown status.
kvresponse_recieve(text) ==
  LET blank == {i \in 1..(Len(text) - 1) : text[i] = "\n" /\ text[i + 1] = "\n"}
      body == (CHOOSE i \in blank : \A j \in blank : i <= j) + 2
  IN  IF blank = {} \/ get_status_code(text[3]) = "EMPTY" THEN NULL
      ELSE Response(get_status_code(text[3]), SubSeq(text, body, Len(text)))

-----------------------------------------------------------------------------
Init ==
  /\ cl = "idle" /\ msg = NULL /\ out = << >> /\ wire = << >>
  /\ sv = "read" /\ reqText = << >> /\ res = NULL
  /\ resOut = << >> /\ resWire = << >> /\ resText = << >>

server == <<sv, reqText, res, resOut, resWire>>

\* kvrequest_send up to the first write: a URL that does not fit into buf with the
\* separator after it and the NUL overwrites the stack.
SendRequest ==
  /\ cl = "idle"
  /\ \/ \E r \in Requests :
          LET fits == Len(url_encode(path_for(r.type), r.key, r.val)) + 2 <= UrlMax
          IN  /\ msg' = r
              /\ out' = IF fits THEN RequestText(r) ELSE << >>
              /\ cl' = IF fits THEN "write" ELSE "gone"
     \/ \E text \in Foreign : msg' = NULL /\ out' = text /\ cl' = "write"
  /\ UNCHANGED <<wire, server, resText>>

\* What the next write may send: only the first one of a text is ever short.
Segments(rest, unread, read) == IF unread = << >> /\ read = << >> THEN 1..Len(rest) ELSE {Len(rest)}

\* One write of http_send_and_free, possibly short; on a connection that the
\* server closed an error ends the loop, or SIGPIPE the process.
WriteRequest ==
  /\ cl = "write"
  /\ \/ /\ sv # "closed"
        /\ \E n \in Segments(out, wire, reqText) :
             /\ wire' = wire \o SubSeq(out, 1, n)
             /\ out' = SubSeq(out, n + 1, Len(out))
             /\ cl' = IF n = Len(out) THEN "read" ELSE "write"
     \/ sv = "closed" /\ cl' \in {"read", "gone"} /\ UNCHANGED <<out, wire>>
  /\ UNCHANGED <<msg, server, resText>>

\* Mutation: the server reads until its client has nothing more to send.
ServerMayRead_UntilEnd == cl = "gone"

\* read returns what there is, or nothing when the client has gone.
ServerMayRead == wire # << >> \/ cl = "gone"

\* kvserver_handle: one read, the handler's response, or the index page.
ServerReads ==
  /\ sv = "read" /\ ServerMayRead
  /\ reqText' = wire
  /\ wire' = << >>
  /\ LET r == kvrequest_recieve(wire) IN
       \/ /\ r = NULL
          /\ res' = Response("ERROR", <<"invalid">>)
          /\ resOut' = ResponseText(res')
       \/ /\ r # NULL /\ r.type = "INDEX"
          /\ res' = NULL /\ resOut' = <<"page">>
       \/ /\ r # NULL /\ r.type # "INDEX"
          /\ res' \in Responses(r.type)
          /\ resOut' = ResponseText(res')
  /\ sv' = "write"
  /\ UNCHANGED <<cl, msg, out, resWire, resText>>

\* kvresponse_send, and close by the worker when all is written or the client has gone.
WriteResponse ==
  /\ sv = "write"
  /\ \/ /\ cl # "gone"
        /\ \E n \in Segments(resOut, resWire, resText) :
             /\ resWire' = resWire \o SubSeq(resOut, 1, n)
             /\ resOut' = SubSeq(resOut, n + 1, Len(resOut))
             /\ sv' = IF n = Len(resOut) THEN "closed" ELSE "write"
     \/ cl = "gone" /\ sv' = "closed" /\ UNCHANGED <<resOut, resWire>>
  /\ UNCHANGED <<cl, msg, out, wire, reqText, res, resText>>

\* One read of the client.  A server that closed with bytes unread resets the
\* connection, and what it sent may be lost.
ReadResponse ==
  /\ cl = "read"
  /\ \/ resWire # << >> /\ resText' = resWire
     \/ sv = "closed" /\ (resWire = << >> \/ wire # << >> \/ out # << >>) /\ resText' = << >>
  /\ cl' = "gone"
  /\ UNCHANGED <<msg, out, wire, server>>

\* The wait ends without an answer.
TimesOut ==
  /\ cl = "read" /\ resText' = << >>
  /\ cl' = "gone"
  /\ UNCHANGED <<msg, out, wire, server>>

Next == SendRequest \/ WriteRequest \/ ServerReads \/ WriteResponse \/ ReadResponse \/ TimesOut

Spec == Init /\ [][Next]_vars

-----------------------------------------------------------------------------
(* Properties *)

\* The types; only a server that closed leaves a request half written
\* (libhttp.c:265-272).
TypeOK ==
  /\ cl \in {"idle", "write", "read", "gone"} /\ sv \in {"read", "write", "closed"}
  /\ msg \in Requests \cup {NULL}
  /\ res # NULL => res.type \in {"GETRESP", "SUCCESS", "ERROR", "VOTE", "ACK"}
  /\ (cl # "write" /\ out # << >>) => sv = "closed"

\* Operands that survive: = and ? are safe, the characters that end a
\* parameter or the path are not.
Plain(operand) == operand = NULL \/ \A i \in DOMAIN operand : operand[i] \notin {"&", " ", "\n"}

\* However a request is split, the server decodes it to what was sent or
\* refuses it, and never refuses one that it read in full
\* (kvmessage.c:13-61, 134-150, liburl.c:19-90, libhttp.c:18-66).
RequestExact ==
  sv # "read" /\ msg # NULL /\ Plain(msg.key) /\ Plain(msg.val) =>
    \/ kvrequest_recieve(reqText) = msg
    \/ kvrequest_recieve(reqText) = NULL /\ reqText # RequestText(msg)

\* Whatever is sent, a request that is not refused has the operands its
\* handler dereferences (kvmessage.c:23-46, kvserver.c:125-192).
OperandsPresent ==
  LET r == kvrequest_recieve(reqText) IN
  sv # "read" /\ r # NULL =>
    /\ r.type \in {"GETREQ", "DELREQ", "PUTREQ", "REGISTER"} => r.key # NULL
    /\ r.type \in {"PUTREQ", "REGISTER"} => r.val # NULL

\* A response is never taken for one of another type, one that is read in full
\* has its body, and one that is split has a beginning of it at most
\* (kvmessage.c:65-100, 152-184, libhttp.c:77-141).
ResponseExact ==
  LET got == kvresponse_recieve(resText) IN
  cl = "gone" /\ resText # << >> /\ res # NULL =>
    /\ got # NULL => got.type = res.type /\ IsPrefix(got.body, Text(res.body))
    /\ resText = ResponseText(res) => got = Response(res.type, Text(res.body))

\* No exchange needs the timeout to end: while the client waits for the
\* response, the server never waits for more of the request
\* (libhttp.c:22-24, 81-83, 259-278).
NeverBothWait ==
  /\ TypeOK
  /\ cl = "read" /\ resWire = << >> => sv # "read" \/ ServerMayRead
=============================================================================
