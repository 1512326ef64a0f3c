--------------------------- MODULE KVMessageProofs ---------------------------
(***************************************************************************)
(* Proofs about one exchange of messages, for any operands, bodies, foreign*)
(* texts and URL buffer, and any cut of the texts.                         *)
(***************************************************************************)
EXTENDS KVMessage, SequenceTheorems, TLAPS

Texts == Seq(Symbols)

\* s is a beginning of t.
Begins(s, t) ==
  s \in Texts /\ Len(s) <= Len(t) /\ \A i \in 1..Len(s) : s[i] = t[i]

-----------------------------------------------------------------------------
(* Searching and cutting texts *)

\* The end of a search that meets a symbol of S.
LEMMA FindIs ==
  ASSUME NEW text \in Texts, NEW S, NEW i \in Nat, NEW j \in i..Len(text), text[j] \in S,
         \A l \in i..(j - 1) : text[l] \notin S
  PROVE  Find(text, i, S) = j
<1>1. Len(text) \in Nat
  BY DEF Texts
<1>. DEFINE at == {l \in i..Len(text) : text[l] \in S}
<1>2. j \in at
  OBVIOUS
<1>3. \A l \in at : j <= l
  <2>. SUFFICES ASSUME NEW l \in i..Len(text), text[l] \in S, ~(j <= l) PROVE FALSE
    OBVIOUS
  <2>1. l \in i..(j - 1)
    BY <1>1
  <2>. QED
    BY <2>1
<1>4. \A m \in at : (\A l \in at : m <= l) => m = j
  <2>. SUFFICES ASSUME NEW m \in at, \A l \in at : m <= l PROVE m = j
    OBVIOUS
  <2>1. m <= j /\ j <= m /\ m \in Int /\ j \in Int
    BY <1>1, <1>2, <1>3
  <2>. QED
    BY <2>1
<1>. HIDE DEF at
<1>5. (CHOOSE m \in at : \A l \in at : m <= l) = j
  BY <1>2, <1>3, <1>4
<1>. QED
  BY <1>2, <1>5 DEF Find, at

\* The end of a search that meets none.
LEMMA FindNone ==
  ASSUME NEW text, NEW S, NEW i, \A l \in i..Len(text) : text[l] \notin S
  PROVE  Find(text, i, S) = Len(text) + 1
BY DEF Find

\* The symbols of s from a to b are those of t.
Holds(s, a, b, t) == b = a + Len(t) - 1 /\ \A i \in 1..Len(t) : s[a + i - 1] = t[i]

\* A piece of a text that is, symbol by symbol, another text.
LEMMA PieceHeld ==
  ASSUME NEW s, NEW t \in Texts, NEW a \in Nat, NEW b \in Int, Holds(s, a, b, t)
  PROVE  SubSeq(s, a, b) = t
<1>1. Len(t) \in Nat /\ t = [i \in 1..Len(t) |-> t[i]]
  BY DEF Texts
<1>2. SubSeq(s, a, b) = [i \in 1..(b - a + 1) |-> s[a + i - 1]]
  BY DEF SubSeq
<1>3. b = a + Len(t) - 1 /\ \A i \in 1..Len(t) : s[a + i - 1] = t[i]
  BY DEF Holds
<1>4. b - a + 1 = Len(t)
  BY <1>1, <1>3
<1>. QED
  BY <1>1, <1>2, <1>3, <1>4

\* The same, with its hypotheses apart.
LEMMA Piece ==
  ASSUME NEW s, NEW t \in Texts, NEW a \in Nat, NEW b \in Int, b = a + Len(t) - 1,
         \A i \in 1..Len(t) : s[a + i - 1] = t[i]
  PROVE  SubSeq(s, a, b) = t
BY PieceHeld, Zenon DEF Holds

\* A piece is a text.
LEMMA Cut ==
  ASSUME NEW s \in Texts, NEW a \in Nat, a >= 1, NEW b \in 0..Len(s), b >= a - 1
  PROVE  /\ SubSeq(s, a, b) \in Texts /\ Len(SubSeq(s, a, b)) = b - a + 1
         /\ \A i \in 1..(b - a + 1) : SubSeq(s, a, b)[i] = s[a + i - 1]
<1>1. Len(s) \in Nat
  BY DEF Texts
<1>2. \A i \in a..b : s[i] \in Symbols
  BY <1>1 DEF Texts
<1>3. a \in Int /\ b \in Int
  BY <1>1
<1>4. /\ SubSeq(s, a, b) \in Seq(Symbols) /\ Len(SubSeq(s, a, b)) = IF a <= b THEN b - a + 1 ELSE 0
      /\ \A i \in 1..(b - a + 1) : SubSeq(s, a, b)[i] = s[a + i - 1]
  BY <1>2, <1>3, SubSeqProperties
<1>. QED
  BY <1>3, <1>4 DEF Texts

\* Putting texts together.
LEMMA Joined ==
  ASSUME NEW s \in Texts, NEW t \in Texts
  PROVE  /\ s \o t \in Texts /\ Len(s) \in Nat /\ Len(t) \in Nat /\ Len(s \o t) = Len(s) + Len(t)
         /\ \A i \in 1..Len(s) : (s \o t)[i] = s[i]
         /\ \A i \in 1..Len(t) : (s \o t)[Len(s) + i] = t[i]
<1>1. Len(s) \in Nat /\ Len(t) \in Nat
  BY DEF Texts
<1>2. /\ s \o t \in Seq(Symbols) /\ Len(s \o t) = Len(s) + Len(t)
      /\ \A i \in 1..Len(s) + Len(t) : (s \o t)[i] = IF i <= Len(s) THEN s[i] ELSE t[i - Len(s)]
  BY ConcatProperties DEF Texts
<1>3. ASSUME NEW i \in 1..Len(s) PROVE (s \o t)[i] = s[i]
  BY <1>1, <1>2
<1>4. ASSUME NEW i \in 1..Len(t) PROVE (s \o t)[Len(s) + i] = t[i]
  <2>1. Len(s) + i \in 1..(Len(s) + Len(t)) /\ ~(Len(s) + i <= Len(s)) /\ Len(s) + i - Len(s) = i
    BY <1>1
  <2>. QED
    BY <1>2, <2>1
<1>. QED
  BY <1>1, <1>2, <1>3, <1>4 DEF Texts

\* The words are symbols.
LEMMA WordFacts == \A w \in Words : w \in Symbols
BY MessageAssumption

\* One, two and no symbols.
LEMMA Short ==
  ASSUME NEW a \in Symbols, NEW b \in Symbols
  PROVE  /\ << >> \in Texts /\ Len(<< >>) = 0
         /\ <<a>> \in Texts /\ Len(<<a>>) = 1 /\ <<a>>[1] = a
         /\ <<a, b>> \in Texts /\ Len(<<a, b>>) = 2 /\ <<a, b>>[1] = a /\ <<a, b>>[2] = b
BY DEF Texts

-----------------------------------------------------------------------------
(* Responses *)

Header(type) ==
  <<"HTTP/1.1", " ", code_for(type), " ", "message", "\n", "Content-Length", "length", "\n", "\n">>

Types == {"GETRESP", "SUCCESS", "ERROR", "VOTE", "ACK"}

\* The client reads the status that the server wrote (kvmessage.c:65-100, 152-184).
LEMMA StatusReturns ==
  ASSUME NEW type \in Types
  PROVE  get_status_code(code_for(type)) = type /\ code_for(type) \in Words /\ type # "EMPTY"
BY DEF Types, get_status_code, code_for, Words

\* The text of a response: ten symbols, the last two the first blank line, and
\* the body.
LEMMA ResponseShape ==
  ASSUME NEW r, r.type \in Types, Text(r.body) \in Texts
  PROVE  /\ ResponseText(r) \in Texts /\ Len(Text(r.body)) \in Nat
         /\ Len(ResponseText(r)) = 10 + Len(Text(r.body))
         /\ \A i \in 1..10 : ResponseText(r)[i] = Header(r.type)[i]
         /\ \A i \in 1..Len(Text(r.body)) : ResponseText(r)[10 + i] = Text(r.body)[i]
<1>1. code_for(r.type) \in Symbols
  BY StatusReturns, WordFacts
<1>2. {"HTTP/1.1", " ", "message", "\n", "Content-Length", "length"} \subseteq Symbols
  BY WordFacts DEF Words
<1>3. Header(r.type) \in Texts /\ Len(Header(r.type)) = 10
  <2>1. PICK t : t = Header(r.type)
    OBVIOUS
  <2>2. PICK a \in Symbols, b \in Symbols, c \in Symbols, d \in Symbols, e \in Symbols,
             f \in Symbols, g \in Symbols :
          a = "HTTP/1.1" /\ b = " " /\ c = code_for(r.type) /\ d = "message" /\ e = "\n"
            /\ f = "Content-Length" /\ g = "length"
    BY <1>1, <1>2, Zenon
  <2>3. t = <<a, b, c, b, d, e, f, g, e, e>>
    BY <2>1, <2>2, Zenon DEF Header
  <2>4. t \in Texts /\ Len(t) = 10
    BY <2>3 DEF Texts
  <2>. QED
    BY <2>1, <2>4
<1>4. ResponseText(r) = Header(r.type) \o Text(r.body)
  BY DEF ResponseText, Header
<1>. QED
  <2>1. /\ Header(r.type) \o Text(r.body) \in Texts /\ Len(Text(r.body)) \in Nat
        /\ Len(Header(r.type) \o Text(r.body)) = Len(Header(r.type)) + Len(Text(r.body))
        /\ \A i \in 1..Len(Header(r.type)) : (Header(r.type) \o Text(r.body))[i] = Header(r.type)[i]
        /\ \A i \in 1..Len(Text(r.body)) : (Header(r.type) \o Text(r.body))[Len(Header(r.type)) + i] = Text(r.body)[i]
    BY <1>3, Joined
  <2>. QED
    BY <1>3, <1>4, <2>1

\* However much of a response arrives, its type is right, its body a beginning,
\* and all of it when all has arrived (libhttp.c:77-141).
LEMMA ResponseDecodes ==
  ASSUME NEW r, r.type \in Types, Text(r.body) \in Texts, NEW s, Begins(s, ResponseText(r))
  PROVE  /\ kvresponse_recieve(s) # NULL =>
              kvresponse_recieve(s).type = r.type /\ IsPrefix(kvresponse_recieve(s).body, Text(r.body))
         /\ s = ResponseText(r) => kvresponse_recieve(s) = Response(r.type, Text(r.body))
<1>. DEFINE T == ResponseText(r)
            B == Text(r.body)
            blank == {i \in 1..(Len(s) - 1) : s[i] = "\n" /\ s[i + 1] = "\n"}
<1>1. /\ T \in Texts /\ Len(B) \in Nat /\ Len(T) = 10 + Len(B)
      /\ \A i \in 1..10 : T[i] = Header(r.type)[i]
      /\ \A i \in 1..Len(B) : T[10 + i] = B[i]
  BY ResponseShape
<1>2. s \in Texts /\ Len(s) \in Nat /\ Len(s) <= Len(T) /\ \A i \in 1..Len(s) : s[i] = T[i]
  BY DEF Begins, Texts
<1>. HIDE DEF T
<1>3. /\ T[1] = "HTTP/1.1" /\ T[2] = " " /\ T[3] = code_for(r.type) /\ T[4] = " " /\ T[5] = "message"
      /\ T[6] = "\n" /\ T[7] = "Content-Length" /\ T[8] = "length" /\ T[9] = "\n" /\ T[10] = "\n"
  <2>3. LET t == Header(r.type) IN
        /\ t[1] = "HTTP/1.1" /\ t[2] = " " /\ t[3] = code_for(r.type) /\ t[4] = " " /\ t[5] = "message"
        /\ t[6] = "\n" /\ t[7] = "Content-Length" /\ t[8] = "length" /\ t[9] = "\n" /\ t[10] = "\n"
    BY DEF Header
  <2>4. \A i \in {1, 2, 3, 4, 5, 6, 7, 8, 9, 10} : T[i] = Header(r.type)[i]
    BY <1>1
  <2>. QED
    BY <2>3, <2>4, Zenon
<1>4. code_for(r.type) \in {"200", "201", "202", "204", "500"}
  BY DEF code_for, Types
<1>5. \A i \in 1..8 : ~(T[i] = "\n" /\ T[i + 1] = "\n")
  <2>. SUFFICES ASSUME NEW i \in 1..8 PROVE ~(T[i] = "\n" /\ T[i + 1] = "\n")
    OBVIOUS
  <2>1. i = 1 \/ i = 2 \/ i = 3 \/ i = 4 \/ i = 5 \/ i = 6 \/ i = 7 \/ i = 8
    OBVIOUS
  <2>2. (i = 5 \/ i = 6) \/ i \notin {5, 6}
    OBVIOUS
  <2>3. ASSUME i \notin {5, 6} PROVE T[i] # "\n"
    BY <1>3, <1>4, <2>1, <2>3
  <2>4. CASE i = 5
    BY <1>3, <2>4
  <2>5. CASE i = 6
    <3>1. i + 1 = 7
      BY <2>5
    <3>. QED
      BY <1>3, <3>1
  <2>. QED
    BY <2>2, <2>3, <2>4, <2>5
<1>6. \A i \in blank : i >= 9
  <2>. SUFFICES ASSUME NEW i \in 1..(Len(s) - 1), s[i] = "\n", s[i + 1] = "\n", ~(i >= 9) PROVE FALSE
    OBVIOUS
  <2>1. i \in 1..8 /\ i \in 1..Len(s) /\ i + 1 \in 1..Len(s)
    BY <1>2
  <2>. QED
    BY <1>2, <1>5, <2>1
<1>7. CASE Len(s) < 10
  <2>1. blank = {}
    <3>. SUFFICES ASSUME NEW i \in blank PROVE FALSE
      OBVIOUS
    <3>1. i >= 9 /\ i \in 1..(Len(s) - 1)
      BY <1>6
    <3>. QED
      BY <1>2, <1>7, <3>1
  <2>2. kvresponse_recieve(s) = NULL
    BY <2>1 DEF kvresponse_recieve
  <2>3. s # T
    BY <1>1, <1>2, <1>7
  <2>. QED
    BY <2>2, <2>3 DEF T
<1>8. CASE ~(Len(s) < 10)
  <2>1. 9 \in blank
    <3>1. 9 \in 1..(Len(s) - 1) /\ 9 \in 1..Len(s) /\ 10 \in 1..Len(s) /\ 9 + 1 = 10
      BY <1>2, <1>8
    <3>2. s[9] = T[9] /\ s[10] = T[10]
      BY <1>2, <3>1
    <3>. QED
      BY <1>3, <3>1, <3>2
  <2>2. (CHOOSE i \in blank : \A j \in blank : i <= j) = 9
    <3>1. \A i \in blank : (\A j \in blank : i <= j) => i = 9
      <4>. SUFFICES ASSUME NEW i \in blank, \A j \in blank : i <= j PROVE i = 9
        OBVIOUS
      <4>1. i >= 9 /\ i <= 9 /\ i \in Int
        BY <1>6, <2>1
      <4>. QED
        BY <4>1
    <3>2. \A j \in blank : 9 <= j
      BY <1>6
    <3>. HIDE DEF blank
    <3>. QED
      BY <2>1, <3>1, <3>2
  <2>3. s[3] = code_for(r.type)
    <3>1. 3 \in 1..Len(s)
      BY <1>2, <1>8
    <3>2. s[3] = T[3]
      BY <1>2, <3>1
    <3>. QED
      BY <1>3, <3>2
  <2>4. kvresponse_recieve(s) = Response(r.type, SubSeq(s, 11, Len(s)))
    <3>1. get_status_code(s[3]) = r.type /\ r.type # "EMPTY"
      BY <2>3, StatusReturns
    <3>. HIDE DEF blank
    <3>2. blank # {}
      BY <2>1
    <3>3. 9 + 2 = 11
      OBVIOUS
    <3>. QED
      BY <2>2, <3>1, <3>2, <3>3, Zenon DEF kvresponse_recieve, blank
  <2>5. /\ SubSeq(s, 11, Len(s)) \in Texts /\ Len(SubSeq(s, 11, Len(s))) = Len(s) - 10
        /\ \A i \in 1..(Len(s) - 10) : SubSeq(s, 11, Len(s))[i] = s[10 + i]
    <3>1. Len(s) \in 0..Len(s) /\ Len(s) >= 11 - 1 /\ Len(s) - 11 + 1 = Len(s) - 10
      BY <1>2, <1>8
    <3>2. /\ SubSeq(s, 11, Len(s)) \in Texts /\ Len(SubSeq(s, 11, Len(s))) = Len(s) - 11 + 1
          /\ \A i \in 1..(Len(s) - 11 + 1) : SubSeq(s, 11, Len(s))[i] = s[11 + i - 1]
      <4>1. PICK a \in Nat : a = 11
        OBVIOUS
      <4>2. a >= 1 /\ Len(s) >= a - 1
        BY <3>1, <4>1
      <4>3. /\ SubSeq(s, a, Len(s)) \in Texts /\ Len(SubSeq(s, a, Len(s))) = Len(s) - a + 1
            /\ \A i \in 1..(Len(s) - a + 1) : SubSeq(s, a, Len(s))[i] = s[a + i - 1]
        BY <1>2, <3>1, <4>2, Cut
      <4>. QED
        BY <4>1, <4>3
    <3>3. \A i \in 1..(Len(s) - 10) : 11 + i - 1 = 10 + i
      BY <1>2
    <3>. QED
      BY <3>1, <3>2, <3>3
  <2>. DEFINE b == SubSeq(s, 11, Len(s))
  <2>6. Begins(b, B)
    <3>. HIDE DEF b, B
    <3>1. b \in Texts /\ Len(b) = Len(s) - 10 /\ \A i \in 1..(Len(s) - 10) : b[i] = s[10 + i]
      BY <2>5 DEF b
    <3>2. \A i \in 1..Len(b) : 10 + i \in 1..Len(s) /\ i \in 1..Len(B)
      BY <1>1, <1>2, <1>8, <3>1
    <3>. QED
      BY <1>1, <1>2, <3>1, <3>2 DEF Begins
  <2>7. IsPrefix(b, B)
    <3>1. B \in Texts /\ b \in Texts
      BY <2>5
    <3>. HIDE DEF b, B
    <3>2. Len(b) \in Nat /\ Len(B) \in Nat /\ Len(b) <= Len(B) /\ \A i \in 1..Len(b) : b[i] = B[i]
      BY <2>6, <3>1 DEF Begins, Texts
    <3>3. PICK one \in Nat, n \in Int : one = 1 /\ n = Len(b)
      BY <3>2
    <3>4. n = one + Len(b) - 1 /\ \A i \in 1..Len(b) : one + i - 1 = i
      BY <3>2, <3>3
    <3>5. Holds(b, one, n, b) /\ Holds(B, one, n, b)
      BY <3>2, <3>4 DEF Holds
    <3>6. SubSeq(b, one, n) = b /\ SubSeq(B, one, n) = b
      BY <3>1, <3>5, PieceHeld
    <3>. QED
      BY <3>2, <3>3, <3>6 DEF IsPrefix
  <2>8. s = T => b = B
    <3>. SUFFICES ASSUME s = T PROVE b = B
      OBVIOUS
    <3>1. B \in Texts /\ b \in Texts /\ Len(b) = Len(B) /\ \A i \in 1..Len(B) : b[i] = B[i]
      BY <1>1, <2>5, <2>6 DEF Begins
    <3>. HIDE DEF b, B
    <3>. QED
      BY <3>1, SeqEqual DEF Texts
  <2>9. kvresponse_recieve(s).type = r.type /\ kvresponse_recieve(s).body = b
    BY <2>4 DEF Response
  <2>. HIDE DEF b
  <2>. QED
    BY <2>4, <2>7, <2>8, <2>9 DEF T, b
<1>. QED
  BY <1>7, <1>8

-----------------------------------------------------------------------------
(* Queries *)

KeyPart(k) == <<"key", "=">> \o k
ValPart(v) == <<"val", "=">> \o v

\* The operands as they stand in a URL.
Query(k, v) == IF v = NULL THEN KeyPart(k) ELSE (KeyPart(k) \o <<"&">>) \o ValPart(v)

\* A name, = and an operand.
LEMMA PartShape ==
  ASSUME NEW name \in Symbols, NEW x \in Texts
  PROVE  LET p == <<name, "=">> \o x IN
         /\ p \in Texts /\ Len(x) \in Nat /\ Len(p) = Len(x) + 2 /\ p[1] = name /\ p[2] = "="
         /\ \A i \in 1..Len(x) : p[2 + i] = x[i]
<1>1. PICK e \in Symbols : e = "="
  BY WordFacts DEF Words
<1>2. PICK h : h = <<name, e>>
  OBVIOUS
<1>3. h \in Texts /\ Len(h) = 2 /\ h[1] = name /\ h[2] = e
  BY <1>2 DEF Texts
<1>4. /\ h \o x \in Texts /\ Len(x) \in Nat /\ Len(h \o x) = Len(h) + Len(x)
      /\ \A i \in 1..Len(h) : (h \o x)[i] = h[i]
      /\ \A i \in 1..Len(x) : (h \o x)[Len(h) + i] = x[i]
  BY <1>3, Joined
<1>5. (h \o x)[1] = h[1] /\ (h \o x)[2] = h[2] /\ Len(h \o x) = Len(x) + 2
  BY <1>3, <1>4
<1>6. h = <<name, "=">>
  BY <1>1, <1>2
<1>. QED
  BY <1>1, <1>3, <1>4, <1>5, <1>6

\* The places of everything in a query of one operand.
LEMMA OneShape ==
  ASSUME NEW k \in Texts
  PROVE  LET q == Query(k, NULL) IN
         /\ q \in Texts /\ Len(k) \in Nat /\ Len(q) = Len(k) + 2 /\ q[1] = "key" /\ q[2] = "="
         /\ \A i \in 1..Len(k) : q[2 + i] = k[i]
<1>1. "key" \in Symbols
  BY WordFacts DEF Words
<1>. QED
  BY <1>1, PartShape DEF Query, KeyPart

\* The places of everything in a query of two operands.
HasBoth(q, k, v) ==
  /\ q \in Texts /\ Len(k) \in Nat /\ Len(v) \in Nat /\ Len(q) = Len(k) + Len(v) + 5
  /\ q[1] = "key" /\ q[2] = "=" /\ \A i \in 1..Len(k) : q[2 + i] = k[i]
  /\ q[Len(k) + 3] = "&" /\ q[Len(k) + 4] = "val" /\ q[Len(k) + 5] = "="
  /\ \A i \in 1..Len(v) : q[Len(k) + 5 + i] = v[i]

\* A query of two operands has these places.
LEMMA TwoShape ==
  ASSUME NEW k \in Texts, NEW v \in Texts, v # NULL
  PROVE  HasBoth(Query(k, v), k, v)
<1>1. "key" \in Symbols /\ "val" \in Symbols /\ "&" \in Symbols
  BY WordFacts DEF Words
<1>. DEFINE a == KeyPart(k)
            b == <<"&">>
            c == ValPart(v)
            q == (a \o b) \o c
<1>2. /\ a \in Texts /\ Len(k) \in Nat /\ Len(a) = Len(k) + 2 /\ a[1] = "key" /\ a[2] = "="
      /\ \A i \in 1..Len(k) : a[2 + i] = k[i]
  BY <1>1, PartShape DEF KeyPart
<1>3. /\ c \in Texts /\ Len(v) \in Nat /\ Len(c) = Len(v) + 2 /\ c[1] = "val" /\ c[2] = "="
      /\ \A i \in 1..Len(v) : c[2 + i] = v[i]
  BY <1>1, PartShape DEF ValPart
<1>4. b \in Texts /\ Len(b) = 1 /\ b[1] = "&"
  BY <1>1, Short
<1>5. Query(k, v) = q
  BY DEF Query
<1>. HIDE DEF a, b, c
<1>6. /\ a \o b \in Texts /\ Len(a \o b) = Len(k) + 3
      /\ \A i \in 1..Len(a) : (a \o b)[i] = a[i]
      /\ (a \o b)[Len(k) + 3] = "&"
  <2>1. /\ a \o b \in Texts /\ Len(a \o b) = Len(a) + Len(b)
        /\ \A i \in 1..Len(a) : (a \o b)[i] = a[i]
        /\ \A i \in 1..Len(b) : (a \o b)[Len(a) + i] = b[i]
    BY <1>2, <1>4, Joined
  <2>2. (a \o b)[Len(a) + 1] = b[1] /\ Len(a) + 1 = Len(k) + 3
    BY <1>2, <1>4, <2>1
  <2>. QED
    BY <1>2, <1>4, <2>1, <2>2
<1>7. /\ q \in Texts /\ Len(q) = Len(a \o b) + Len(c)
      /\ \A i \in 1..Len(a \o b) : q[i] = (a \o b)[i]
      /\ \A i \in 1..Len(c) : q[Len(a \o b) + i] = c[i]
  <2>1. PICK d : d = a \o b
    OBVIOUS
  <2>2. d \in Texts /\ c \in Texts
    BY <1>3, <1>6, <2>1
  <2>3. /\ d \o c \in Texts /\ Len(d \o c) = Len(d) + Len(c)
        /\ \A i \in 1..Len(d) : (d \o c)[i] = d[i]
        /\ \A i \in 1..Len(c) : (d \o c)[Len(d) + i] = c[i]
    BY <2>2, Joined
  <2>. QED
    BY <2>1, <2>3, Zenon
<1>. HIDE DEF q
<1>8. Len(q) = Len(k) + Len(v) + 5
  BY <1>2, <1>3, <1>6, <1>7
<1>9. \A i \in 1..(Len(k) + 2) : q[i] = a[i]
  BY <1>2, <1>6, <1>7
<1>10. q[1] = "key" /\ q[2] = "=" /\ \A i \in 1..Len(k) : q[2 + i] = k[i]
  <2>1. 1 \in 1..(Len(k) + 2) /\ 2 \in 1..(Len(k) + 2) /\ \A i \in 1..Len(k) : 2 + i \in 1..(Len(k) + 2)
    BY <1>2
  <2>. QED
    BY <1>2, <1>9, <2>1
<1>11. q[Len(k) + 3] = "&"
  <2>1. Len(k) + 3 \in 1..Len(a \o b)
    BY <1>2, <1>6
  <2>. QED
    BY <1>6, <1>7, <2>1
<1>12. \A i \in 1..(Len(v) + 2) : q[Len(k) + 3 + i] = c[i]
  BY <1>3, <1>6, <1>7
<1>13. q[Len(k) + 4] = "val" /\ q[Len(k) + 5] = "="
  <2>1. 1 \in 1..(Len(v) + 2) /\ 2 \in 1..(Len(v) + 2)
    BY <1>3
  <2>2. Len(k) + 3 + 1 = Len(k) + 4 /\ Len(k) + 3 + 2 = Len(k) + 5
    BY <1>2
  <2>3. q[Len(k) + 3 + 1] = c[1] /\ q[Len(k) + 3 + 2] = c[2]
    BY <1>12, <2>1
  <2>. QED
    BY <1>3, <2>2, <2>3
<1>14. ASSUME NEW i \in 1..Len(v) PROVE q[Len(k) + 5 + i] = v[i]
  <2>1. 2 + i \in 1..(Len(v) + 2) /\ Len(k) + 3 + (2 + i) = Len(k) + 5 + i
    BY <1>2, <1>3
  <2>2. q[Len(k) + 3 + (2 + i)] = c[2 + i]
    BY <1>12, <2>1
  <2>. QED
    BY <1>3, <2>1, <2>2
<1>. QED
  BY <1>2, <1>3, <1>5, <1>7, <1>8, <1>10, <1>11, <1>13, <1>14 DEF HasBoth

-----------------------------------------------------------------------------
(* Looking operands up *)

Starts(q) == {1} \cup {i + 1 : i \in {j \in DOMAIN q : q[j] = "&"}}
Named(q, names) ==
  {i \in Starts(q) : /\ Find(q, i, {"="}) < Find(q, i, {"&"})
                     /\ SubSeq(q, i, Find(q, i, {"="}) - 1) \in names}

\* The parameter of a name that only one has (liburl.c:45-69).
LEMMA LookupOnly ==
  ASSUME NEW q, NEW names, NEW i, Named(q, names) = {i}, i <= i
  PROVE  Lookup(q, names) = SubSeq(q, Find(q, i, {"="}) + 1, Find(q, i, {"&"}) - 1)
<1>1. (CHOOSE l \in {i} : \A j \in {i} : j <= l) = i
  OBVIOUS
<1>2. Named(q, names) # {}
  OBVIOUS
<1>3. Lookup(q, names) = LET last == CHOOSE l \in Named(q, names) : \A j \in Named(q, names) : j <= l
                         IN  SubSeq(q, Find(q, last, {"="}) + 1, Find(q, last, {"&"}) - 1)
  BY <1>2, Zenon DEF Lookup, Named, Starts
<1>. QED
  BY <1>1, <1>3

\* A name that no parameter has (liburl.c:45-69).
LEMMA LookupNone ==
  ASSUME NEW q, NEW names, Named(q, names) = {}
  PROVE  Lookup(q, names) = NULL
BY Zenon DEF Lookup, Named, Starts

\* A parameter's place: its name at i, = behind it, and its end at e.
LEMMA Parameter ==
  ASSUME NEW q \in Texts, NEW i \in Nat, i >= 1, i + 1 <= Len(q), q[i] \notin {"=", "&"}, q[i + 1] = "=",
         NEW e \in Nat, e >= i + 2, e <= Len(q) + 1, e <= Len(q) => q[e] = "&",
         \A l \in (i + 2)..(e - 1) : q[l] # "&"
  PROVE  /\ Find(q, i, {"="}) = i + 1 /\ Find(q, i, {"&"}) = e /\ i + 1 < e
         /\ SubSeq(q, i, i) = <<q[i]>>
         /\ SubSeq(q, i, Find(q, i, {"="}) - 1) = <<q[i]>>
<1>1. Len(q) \in Nat
  BY DEF Texts
<1>2. Find(q, i, {"="}) = i + 1
  <2>1. i + 1 \in i..Len(q) /\ i + 1 \in Nat
    BY <1>1
  <2>2. \A l \in i..((i + 1) - 1) : q[l] \notin {"="}
    <3>1. i..((i + 1) - 1) = {i}
      OBVIOUS
    <3>. QED
      BY <3>1
  <2>3. PICK j : j = i + 1
    OBVIOUS
  <2>. QED
    BY <2>1, <2>2, <2>3, FindIs
<1>3. \A l \in i..(e - 1) : q[l] \notin {"&"}
  <2>. SUFFICES ASSUME NEW l \in i..(e - 1) PROVE q[l] # "&"
    OBVIOUS
  <2>1. l = i \/ l = i + 1 \/ l \in (i + 2)..(e - 1)
    OBVIOUS
  <2>. QED
    BY <2>1
<1>4. Find(q, i, {"&"}) = e
  <2>1. CASE e <= Len(q)
    <3>1. e \in i..Len(q)
      BY <1>1, <2>1
    <3>. QED
      BY <1>3, <2>1, <3>1, FindIs
  <2>2. CASE ~(e <= Len(q))
    <3>1. e = Len(q) + 1 /\ i..(e - 1) = i..Len(q)
      BY <1>1, <2>2
    <3>. QED
      BY <1>3, <3>1, FindNone
  <2>. QED
    BY <2>1, <2>2
<1>5. SubSeq(q, i, i) = <<q[i]>>
  <2>1. q[i] \in Symbols
    BY <1>1 DEF Texts
  <2>2. <<q[i]>> \in Texts /\ Len(<<q[i]>>) = 1 /\ <<q[i]>>[1] = q[i]
    BY <2>1, Short
  <2>3. PICK t : t = <<q[i]>>
    OBVIOUS
  <2>4. t \in Texts /\ Len(t) = 1 /\ t[1] = q[i]
    BY <2>2, <2>3
  <2>5. i \in Int /\ i = i + Len(t) - 1 /\ \A j \in 1..Len(t) : q[i + j - 1] = t[j]
    BY <2>4
  <2>6. SubSeq(q, i, i) = t
    BY <2>4, <2>5, Piece
  <2>. QED
    BY <2>3, <2>6
<1>6. (i + 1) - 1 = i
  OBVIOUS
<1>. QED
  BY <1>2, <1>4, <1>5, <1>6

KeyNames == {<<"key">>, << >>}
ValNames == {<<"val">>}

\* The two names are apart.
LEMMA NamesApart ==
  <<"key">> \in KeyNames /\ <<"val">> \in ValNames /\ <<"key">> \notin ValNames /\ <<"val">> \notin KeyNames
<1>1. <<"key">>[1] = "key" /\ <<"val">>[1] = "val" /\ <<"val">> # << >>
  OBVIOUS
<1>. QED
  BY <1>1 DEF KeyNames, ValNames

\* A query of one operand gives it back, and no value (liburl.c:19-73).
LEMMA OneLookup ==
  ASSUME NEW k \in Texts, \A i \in 1..Len(k) : k[i] # "&"
  PROVE  Lookup(Query(k, NULL), KeyNames) = k /\ Lookup(Query(k, NULL), ValNames) = NULL
<1>1. PICK q : q = Query(k, NULL)
  OBVIOUS
<1>2. /\ q \in Texts /\ Len(k) \in Nat /\ Len(q) = Len(k) + 2 /\ q[1] = "key" /\ q[2] = "="
      /\ \A i \in 1..Len(k) : q[2 + i] = k[i]
  BY <1>1, OneShape
<1>3. \A l \in 1..Len(q) : q[l] # "&"
  <2>. SUFFICES ASSUME NEW l \in 1..Len(q) PROVE q[l] # "&"
    OBVIOUS
  <2>1. CASE l = 1 \/ l = 2
    BY <1>2, <2>1
  <2>2. CASE l # 1 /\ l # 2
    <3>1. l - 2 \in 1..Len(k) /\ 2 + (l - 2) = l
      BY <1>2, <2>2
    <3>. QED
      BY <1>2, <3>1
  <2>. QED
    BY <2>1, <2>2
<1>4. Starts(q) = {1}
  <2>1. DOMAIN q = 1..Len(q)
    BY <1>2 DEF Texts
  <2>. QED
    BY <1>3, <2>1 DEF Starts
<1>5. PICK i \in Nat, e \in Nat : i = 1 /\ e = Len(q) + 1
  BY <1>2
<1>6. /\ Find(q, i, {"="}) = i + 1 /\ Find(q, i, {"&"}) = e /\ i + 1 < e
      /\ SubSeq(q, i, Find(q, i, {"="}) - 1) = <<q[i]>>
  <2>1. /\ i >= 1 /\ i + 1 <= Len(q) /\ q[i] \notin {"=", "&"} /\ q[i + 1] = "="
        /\ e >= i + 2 /\ e <= Len(q) + 1 /\ ~(e <= Len(q))
    BY <1>2, <1>5
  <2>2. \A l \in (i + 2)..(e - 1) : q[l] # "&"
    BY <1>2, <1>3, <1>5
  <2>. QED
    BY <1>2, <2>1, <2>2, Parameter
<1>7. SubSeq(q, i, Find(q, i, {"="}) - 1) = <<"key">>
  BY <1>2, <1>5, <1>6
<1>8. Named(q, KeyNames) = {i} /\ Named(q, ValNames) = {}
  BY <1>4, <1>5, <1>6, <1>7, NamesApart DEF Named
<1>9. Lookup(q, KeyNames) = SubSeq(q, Find(q, i, {"="}) + 1, Find(q, i, {"&"}) - 1)
  BY <1>8, LookupOnly
<1>10. Find(q, i, {"="}) + 1 = 3 /\ Find(q, i, {"&"}) - 1 = Len(q)
  BY <1>2, <1>5, <1>6
<1>11. SubSeq(q, 3, Len(q)) = k
  <2>1. PICK a \in Nat, b \in Int : a = 3 /\ b = Len(q)
    BY <1>2
  <2>2. b = a + Len(k) - 1
    BY <1>2, <2>1
  <2>3. \A j \in 1..Len(k) : a + j - 1 = 2 + j
    BY <1>2, <2>1
  <2>4. \A j \in 1..Len(k) : q[a + j - 1] = k[j]
    BY <1>2, <2>3
  <2>5. SubSeq(q, a, b) = k
    BY <2>2, <2>4, Piece
  <2>. QED
    BY <2>1, <2>5
<1>12. Lookup(q, KeyNames) = k
  BY <1>9, <1>10, <1>11, Zenon
<1>13. Lookup(q, ValNames) = NULL
  BY <1>8, LookupNone
<1>. QED
  BY <1>1, <1>12, <1>13

\* A query of two operands gives back both (liburl.c:19-73).
LEMMA TwoLookup ==
  ASSUME NEW k \in Texts, \A i \in 1..Len(k) : k[i] # "&",
         NEW v \in Texts, v # NULL, \A i \in 1..Len(v) : v[i] # "&"
  PROVE  Lookup(Query(k, v), KeyNames) = k /\ Lookup(Query(k, v), ValNames) = v
<1>1. PICK q : q = Query(k, v)
  OBVIOUS
<1>2. /\ q \in Texts /\ Len(k) \in Nat /\ Len(v) \in Nat /\ Len(q) = Len(k) + Len(v) + 5
      /\ q[1] = "key" /\ q[2] = "=" /\ \A i \in 1..Len(k) : q[2 + i] = k[i]
      /\ q[Len(k) + 3] = "&" /\ q[Len(k) + 4] = "val" /\ q[Len(k) + 5] = "="
      /\ \A i \in 1..Len(v) : q[Len(k) + 5 + i] = v[i]
  <2>1. HasBoth(q, k, v)
    BY <1>1, TwoShape
  <2>. QED
    BY <2>1 DEF HasBoth
<1>3. ASSUME NEW l \in 1..Len(q), l # Len(k) + 3 PROVE q[l] # "&"
  <2>1. CASE l \in {1, 2, Len(k) + 4, Len(k) + 5}
    BY <1>2, <2>1
  <2>2. CASE l - 2 \in 1..Len(k)
    <3>1. PICK i \in 1..Len(k) : 2 + i = l
      BY <2>2
    <3>2. q[2 + i] = k[i] /\ k[i] # "&"
      BY <1>2
    <3>. QED
      BY <3>1, <3>2
  <2>3. CASE l - Len(k) - 5 \in 1..Len(v)
    <3>1. PICK i \in 1..Len(v) : Len(k) + 5 + i = l
      <4>1. PICK m \in Nat : m = Len(k)
        BY <1>2
      <4>2. l \in Int /\ l - m - 5 \in 1..Len(v)
        BY <2>3, <4>1
      <4>3. m + 5 + (l - m - 5) = l
        BY <4>2
      <4>. QED
        BY <4>1, <4>2, <4>3, Zenon
    <3>2. q[Len(k) + 5 + i] = v[i] /\ v[i] # "&"
      BY <1>2
    <3>. QED
      BY <3>1, <3>2
  <2>4. l \in {1, 2, Len(k) + 4, Len(k) + 5} \/ l - 2 \in 1..Len(k) \/ l - Len(k) - 5 \in 1..Len(v)
    <3>1. PICK m \in Nat, n \in Nat : m = Len(k) /\ n = Len(v)
      BY <1>2
    <3>2. l \in 1..(m + n + 5) /\ l # m + 3
      BY <1>2, <1>3, <3>1
    <3>3. l \in {1, 2, m + 4, m + 5} \/ l - 2 \in 1..m \/ l - m - 5 \in 1..n
      BY <3>2
    <3>. QED
      BY <3>1, <3>3
  <2>. QED
    BY <2>1, <2>2, <2>3, <2>4
<1>4. Starts(q) = {1, Len(k) + 4}
  <2>1. DOMAIN q = 1..Len(q)
    BY <1>2 DEF Texts
  <2>2. {j \in 1..Len(q) : q[j] = "&"} = {Len(k) + 3}
    <3>1. Len(k) + 3 \in 1..Len(q)
      BY <1>2
    <3>. QED
      BY <1>2, <1>3, <3>1
  <2>3. {j + 1 : j \in {Len(k) + 3}} = {Len(k) + 4}
    BY <1>2
  <2>. QED
    BY <2>1, <2>2, <2>3 DEF Starts
<1>5. PICK i \in Nat, e \in Nat, b \in Nat, f \in Nat :
        i = 1 /\ e = Len(k) + 3 /\ b = Len(k) + 4 /\ f = Len(q) + 1
  BY <1>2
<1>6. /\ Find(q, i, {"="}) = i + 1 /\ Find(q, i, {"&"}) = e /\ i + 1 < e
      /\ SubSeq(q, i, Find(q, i, {"="}) - 1) = <<q[i]>>
  <2>1. /\ i >= 1 /\ i + 1 <= Len(q) /\ q[i] \notin {"=", "&"} /\ q[i + 1] = "="
        /\ e >= i + 2 /\ e <= Len(q) + 1 /\ q[e] = "&"
    BY <1>2, <1>5
  <2>2. \A l \in (i + 2)..(e - 1) : q[l] # "&"
    <3>1. \A l \in (i + 2)..(e - 1) : l \in 1..Len(q) /\ l # Len(k) + 3
      BY <1>2, <1>5
    <3>. QED
      BY <1>3, <3>1
  <2>. QED
    BY <1>2, <2>1, <2>2, Parameter
<1>7. /\ Find(q, b, {"="}) = b + 1 /\ Find(q, b, {"&"}) = f /\ b + 1 < f
      /\ SubSeq(q, b, Find(q, b, {"="}) - 1) = <<q[b]>>
  <2>1. /\ b >= 1 /\ b + 1 <= Len(q) /\ b + 1 = Len(k) + 5
        /\ f >= b + 2 /\ f <= Len(q) + 1 /\ ~(f <= Len(q))
    BY <1>2, <1>5
  <2>2. q[b] \notin {"=", "&"} /\ q[b + 1] = "="
    BY <1>2, <1>5, <2>1
  <2>3. \A l \in (b + 2)..(f - 1) : q[l] # "&"
    <3>1. \A l \in (b + 2)..(f - 1) : l \in 1..Len(q) /\ l # Len(k) + 3
      BY <1>2, <1>5
    <3>. QED
      BY <1>3, <3>1
  <2>. QED
    BY <1>2, <2>1, <2>2, <2>3, Parameter
<1>8. /\ SubSeq(q, i, Find(q, i, {"="}) - 1) = <<"key">>
      /\ SubSeq(q, b, Find(q, b, {"="}) - 1) = <<"val">>
  BY <1>2, <1>5, <1>6, <1>7
<1>9. Starts(q) = {i, b}
  BY <1>4, <1>5
<1>10. Named(q, KeyNames) = {i} /\ Named(q, ValNames) = {b}
  BY <1>6, <1>7, <1>8, <1>9, NamesApart DEF Named
<1>11. Lookup(q, KeyNames) = SubSeq(q, Find(q, i, {"="}) + 1, Find(q, i, {"&"}) - 1)
  BY <1>10, LookupOnly
<1>12. Lookup(q, ValNames) = SubSeq(q, Find(q, b, {"="}) + 1, Find(q, b, {"&"}) - 1)
  BY <1>10, LookupOnly
<1>13. SubSeq(q, Find(q, i, {"="}) + 1, Find(q, i, {"&"}) - 1) = k
  <2>1. PICK a \in Nat, c \in Int : a = Find(q, i, {"="}) + 1 /\ c = Find(q, i, {"&"}) - 1
    BY <1>6
  <2>2. a = 3 /\ c = a + Len(k) - 1
    BY <1>2, <1>5, <1>6, <2>1
  <2>3. \A j \in 1..Len(k) : a + j - 1 = 2 + j
    BY <1>2, <2>2
  <2>4. \A j \in 1..Len(k) : q[a + j - 1] = k[j]
    BY <1>2, <2>3
  <2>5. SubSeq(q, a, c) = k
    BY <2>2, <2>4, Piece
  <2>. QED
    BY <2>1, <2>5
<1>14. SubSeq(q, Find(q, b, {"="}) + 1, Find(q, b, {"&"}) - 1) = v
  <2>1. PICK a \in Nat, c \in Int : a = Find(q, b, {"="}) + 1 /\ c = Find(q, b, {"&"}) - 1
    BY <1>7
  <2>2. a = Len(k) + 6 /\ c = a + Len(v) - 1
    BY <1>2, <1>5, <1>7, <2>1
  <2>3. \A j \in 1..Len(v) : a + j - 1 = Len(k) + 5 + j
    BY <1>2, <2>2
  <2>4. \A j \in 1..Len(v) : q[a + j - 1] = v[j]
    BY <1>2, <2>3
  <2>5. Holds(q, a, c, v)
    BY <2>2, <2>4 DEF Holds
  <2>6. SubSeq(q, a, c) = v
    BY <2>5, PieceHeld
  <2>. QED
    BY <2>1, <2>6
<1>. QED
  BY <1>1, <1>11, <1>12, <1>13, <1>14, Zenon

-----------------------------------------------------------------------------
(* URLs *)

\* The path, which has none of the characters that the parsers look for.
IsPath(p) == p \in Texts /\ \A i \in 1..Len(p) : p[i] \notin {"?", " ", "\n"}

Prefix(p) == (<<"/">> \o p) \o <<"?">>

\* The places of / and ? around the path (liburl.c:75-90).
LEMMA PrefixShape ==
  ASSUME NEW p, IsPath(p)
  PROVE  LET u == Prefix(p) IN
         /\ u \in Texts /\ Len(p) \in Nat /\ Len(u) = Len(p) + 2 /\ u[1] = "/" /\ u[Len(p) + 2] = "?"
         /\ \A i \in 1..Len(p) : u[1 + i] = p[i]
<1>1. "/" \in Symbols /\ "?" \in Symbols
  BY WordFacts DEF Words
<1>. DEFINE a == <<"/">>
            b == <<"?">>
<1>2. a \in Texts /\ Len(a) = 1 /\ a[1] = "/" /\ b \in Texts /\ Len(b) = 1 /\ b[1] = "?" /\ p \in Texts
  BY <1>1, Short DEF IsPath
<1>. HIDE DEF a, b
<1>3. /\ a \o p \in Texts /\ Len(p) \in Nat /\ Len(a \o p) = Len(a) + Len(p)
      /\ \A i \in 1..Len(a) : (a \o p)[i] = a[i]
      /\ \A i \in 1..Len(p) : (a \o p)[Len(a) + i] = p[i]
  BY <1>2, Joined
<1>4. PICK d : d = a \o p
  OBVIOUS
<1>5. d \in Texts /\ Len(d) = Len(p) + 1 /\ d[1] = "/" /\ \A i \in 1..Len(p) : d[1 + i] = p[i]
  BY <1>2, <1>3, <1>4
<1>6. /\ d \o b \in Texts /\ Len(d \o b) = Len(d) + Len(b)
      /\ \A i \in 1..Len(d) : (d \o b)[i] = d[i]
      /\ \A i \in 1..Len(b) : (d \o b)[Len(d) + i] = b[i]
  BY <1>2, <1>5, Joined
<1>7. PICK u : u = d \o b
  OBVIOUS
<1>8. u[1] = "/" /\ Len(u) = Len(p) + 2 /\ \A i \in 1..Len(p) : u[1 + i] = p[i]
  <2>1. 1 \in 1..Len(d) /\ \A i \in 1..Len(p) : 1 + i \in 1..Len(d)
    BY <1>3, <1>5
  <2>. QED
    BY <1>2, <1>3, <1>5, <1>6, <1>7, <2>1
<1>9. u[Len(p) + 2] = "?"
  <2>1. 1 \in 1..Len(b) /\ Len(d) + 1 = Len(p) + 2
    BY <1>2, <1>3, <1>5
  <2>. QED
    BY <1>2, <1>6, <1>7, <2>1
<1>10. u = Prefix(p)
  BY <1>4, <1>7 DEF Prefix, a, b
<1>. QED
  BY <1>3, <1>6, <1>7, <1>8, <1>9, <1>10

\* What is cut off is the last character (liburl.c:84-90).
LEMMA FrontJoined ==
  ASSUME NEW s \in Texts, NEW x \in Symbols
  PROVE  Front(s \o <<x>>) = s
<1>1. PICK t : t = <<x>>
  OBVIOUS
<1>2. t \in Texts /\ Len(t) = 1
  BY <1>1, Short
<1>3. /\ s \o t \in Texts /\ Len(s) \in Nat /\ Len(s \o t) = Len(s) + Len(t)
      /\ \A i \in 1..Len(s) : (s \o t)[i] = s[i]
  BY <1>2, Joined
<1>4. PICK u : u = s \o t
  OBVIOUS
<1>5. PICK a \in Nat, b \in Int : a = 1 /\ b = Len(u) - 1
  <2>1. Len(u) \in Nat /\ Len(u) - 1 \in Int
    BY <1>2, <1>3, <1>4
  <2>. QED
    BY <2>1
<1>6. b = a + Len(s) - 1 /\ \A i \in 1..Len(s) : u[a + i - 1] = s[i]
  <2>1. b = a + Len(s) - 1 /\ \A i \in 1..Len(s) : a + i - 1 = i
    BY <1>2, <1>3, <1>4, <1>5
  <2>. QED
    BY <1>3, <1>4, <2>1
<1>7. SubSeq(u, a, b) = s
  BY <1>6, Piece
<1>. QED
  BY <1>1, <1>4, <1>5, <1>7 DEF Front

\* The URL of a request is its path and its query (liburl.c:75-90).
LEMMA UrlIs ==
  ASSUME NEW p, IsPath(p), NEW k \in Texts, k # NULL, NEW v, v = NULL \/ v \in Texts
  PROVE  url_encode(p, k, v) = Prefix(p) \o Query(k, v)
<1>1. PICK n \in Symbols : n = "&"
  BY WordFacts DEF Words
<1>2. PICK z : z = <<n>>
  OBVIOUS
<1>3. z \in Texts /\ z = <<"&">>
  BY <1>1, <1>2, Short
<1>4. Prefix(p) \in Texts
  BY PrefixShape
<1>5. KeyPart(k) \in Texts /\ (v # NULL => ValPart(v) \in Texts)
  <2>1. "key" \in Symbols /\ "val" \in Symbols
    BY WordFacts DEF Words
  <2>. QED
    BY <2>1, PartShape DEF KeyPart, ValPart
<1>6. Param("key", k) = KeyPart(k) \o z
  BY <1>3 DEF Param, KeyPart
<1>7. CASE v = NULL
  <2>1. Param("val", v) = << >>
    BY <1>7 DEF Param
  <2>2. url_encode(p, k, v) = Front((Prefix(p) \o (KeyPart(k) \o z)) \o << >>)
    BY <1>6, <2>1 DEF url_encode, Prefix
  <2>3. Prefix(p) \o (KeyPart(k) \o z) = (Prefix(p) \o KeyPart(k)) \o z
    BY <1>3, <1>4, <1>5, ConcatAssociative DEF Texts
  <2>4. Prefix(p) \o KeyPart(k) \in Texts
    BY <1>4, <1>5, Joined
  <2>5. ((Prefix(p) \o KeyPart(k)) \o z) \o << >> = (Prefix(p) \o KeyPart(k)) \o z
    <3>1. (Prefix(p) \o KeyPart(k)) \o z \in Texts
      BY <1>3, <2>4, Joined
    <3>. QED
      BY <3>1, ConcatEmptySeq DEF Texts
  <2>6. Front((Prefix(p) \o KeyPart(k)) \o z) = Prefix(p) \o KeyPart(k)
    BY <1>1, <1>2, <2>4, FrontJoined
  <2>7. Query(k, v) = KeyPart(k)
    BY <1>7 DEF Query
  <2>. QED
    BY <2>2, <2>3, <2>5, <2>6, <2>7, Zenon
<1>8. CASE v # NULL
  <2>0. v \in Texts /\ ValPart(v) \in Texts
    BY <1>5, <1>8
  <2>1. Param("val", v) = ValPart(v) \o z
    BY <1>3, <1>8 DEF Param, ValPart
  <2>2. url_encode(p, k, v) = Front((Prefix(p) \o (KeyPart(k) \o z)) \o (ValPart(v) \o z))
    BY <1>6, <2>1 DEF url_encode, Prefix
  <2>3. PICK a, b, c : a = Prefix(p) /\ b = KeyPart(k) \o z /\ c = ValPart(v)
    OBVIOUS
  <2>4. a \in Texts /\ b \in Texts /\ c \in Texts
    BY <1>3, <1>4, <1>5, <2>0, <2>3, Joined
  <2>5. a \o b \in Texts /\ (a \o b) \o c \in Texts
    BY <2>4, Joined
  <2>6. (a \o b) \o (c \o z) = ((a \o b) \o c) \o z
    BY <1>3, <2>4, <2>5, ConcatAssociative DEF Texts
  <2>7. (a \o b) \o c = a \o (b \o c)
    BY <2>4, ConcatAssociative DEF Texts
  <2>8. Front(((a \o b) \o c) \o z) = (a \o b) \o c
    BY <1>1, <1>2, <2>5, FrontJoined
  <2>9. Query(k, v) = b \o c
    BY <1>3, <1>8, <2>3 DEF Query
  <2>. QED
    BY <2>2, <2>3, <2>6, <2>7, <2>8, <2>9, Zenon
<1>. QED
  BY <1>7, <1>8

\* The places of everything in a URL u with path p and query q.
UrlHas(u, p, q) ==
  /\ u \in Texts /\ Len(p) \in Nat /\ Len(q) \in Nat /\ Len(u) = Len(p) + 2 + Len(q)
  /\ u[1] = "/" /\ u[Len(p) + 2] = "?"
  /\ \A i \in 1..Len(p) : u[1 + i] = p[i]
  /\ \A i \in 1..Len(q) : u[Len(p) + 2 + i] = q[i]

\* Path and query put together have these places.
LEMMA UrlShape ==
  ASSUME NEW p, IsPath(p), NEW q \in Texts
  PROVE  UrlHas(Prefix(p) \o q, p, q)
<1>1. PICK a : a = Prefix(p)
  OBVIOUS
<1>2. /\ a \in Texts /\ Len(p) \in Nat /\ Len(a) = Len(p) + 2 /\ a[1] = "/" /\ a[Len(p) + 2] = "?"
      /\ \A i \in 1..Len(p) : a[1 + i] = p[i]
  BY <1>1, PrefixShape
<1>3. PICK u : u = a \o q
  OBVIOUS
<1>4. /\ u \in Texts /\ Len(q) \in Nat /\ Len(u) = Len(a) + Len(q)
      /\ \A i \in 1..Len(a) : u[i] = a[i]
      /\ \A i \in 1..Len(q) : u[Len(a) + i] = q[i]
  <2>1. a \in Texts
    BY <1>2
  <2>2. /\ a \o q \in Texts /\ Len(q) \in Nat /\ Len(a \o q) = Len(a) + Len(q)
        /\ \A i \in 1..Len(a) : (a \o q)[i] = a[i]
        /\ \A i \in 1..Len(q) : (a \o q)[Len(a) + i] = q[i]
    BY <2>1, Joined
  <2>. QED
    BY <1>3, <2>2, Zenon
<1>5. /\ 1 \in 1..Len(a) /\ Len(p) + 2 \in 1..Len(a)
      /\ \A i \in 1..Len(p) : 1 + i \in 1..Len(a)
  BY <1>2
<1>6. u[1] = "/" /\ u[Len(p) + 2] = "?" /\ \A i \in 1..Len(p) : u[1 + i] = p[i]
  BY <1>2, <1>4, <1>5
<1>7. UrlHas(u, p, q)
  BY <1>2, <1>4, <1>6 DEF UrlHas
<1>. QED
  BY <1>1, <1>3, <1>7

\* Decoding finds the path and looks the operands up in the query
\* (liburl.c:19-73).
LEMMA UrlDecodes ==
  ASSUME NEW p, IsPath(p), NEW q \in Texts, NEW u, UrlHas(u, p, q)
  PROVE  url_decode(u) = [path |-> p, key |-> Lookup(q, KeyNames), val |-> Lookup(q, ValNames)]
<1>1. p \in Texts /\ \A i \in 1..Len(p) : p[i] \notin {"?", " ", "\n"}
  BY DEF IsPath
<1>2. Len(p) \in Nat /\ Len(q) \in Nat /\ Len(u) = Len(p) + 2 + Len(q) /\ u \in Texts
  BY DEF UrlHas
<1>3. PICK n \in Nat, c \in Nat, j \in Nat, one \in Nat, e \in Nat :
        n = Len(p) /\ c = Len(q) /\ j = n + 2 /\ one = 1 /\ e = Len(u) /\ e = n + 2 + c
  BY <1>2
<1>4. /\ u[1] = "/" /\ u[n + 2] = "?"
      /\ \A i \in 1..n : u[1 + i] = p[i]
      /\ \A i \in 1..c : u[n + 2 + i] = q[i]
  BY <1>3 DEF UrlHas
<1>5. \A l \in one..(j - 1) : u[l] \notin {"?"}
  <2>. SUFFICES ASSUME NEW l \in 1..(n + 1) PROVE u[l] # "?"
    BY <1>3
  <2>1. CASE l = 1
    BY <1>4, <2>1
  <2>2. CASE l # 1
    <3>1. PICK i \in 1..n : l = 1 + i
      BY <2>2
    <3>2. u[l] = p[i]
      BY <1>4, <3>1
    <3>. QED
      BY <1>1, <1>3, <3>2
  <2>. QED
    BY <2>1, <2>2
<1>6. Find(u, one, {"?"}) = j
  <2>1. j \in one..e
    BY <1>3
  <2>2. j \in one..Len(u) /\ u[j] \in {"?"}
    BY <1>3, <1>4, <2>1
  <2>. QED
    BY <1>2, <1>5, <2>2, FindIs
<1>7. SubSeq(u, 2, j - 1) = p
  <2>1. PICK a \in Nat, b \in Int : a = 2 /\ b = j - 1
    OBVIOUS
  <2>2. b = a + n - 1 /\ \A i \in 1..n : a + i - 1 = 1 + i
    BY <1>3, <2>1
  <2>3. \A i \in 1..n : u[a + i - 1] = p[i]
    BY <1>4, <2>2
  <2>4. PICK w \in Texts : w = p
    BY <1>1
  <2>5. b = a + Len(w) - 1 /\ \A i \in 1..Len(w) : u[a + i - 1] = w[i]
    BY <1>3, <2>2, <2>3, <2>4
  <2>6. SubSeq(u, a, b) = w
    <3>1. Holds(u, a, b, w)
      BY <2>5 DEF Holds
    <3>. QED
      BY <3>1, PieceHeld
  <2>. QED
    BY <2>1, <2>4, <2>6
<1>8. SubSeq(u, j + 1, Len(u)) = q
  <2>1. PICK a \in Nat, b \in Int : a = j + 1 /\ b = e
    OBVIOUS
  <2>2. b = a + c - 1 /\ \A i \in 1..c : a + i - 1 = n + 2 + i
    BY <1>3, <2>1
  <2>3. \A i \in 1..c : u[a + i - 1] = q[i]
    BY <1>4, <2>2
  <2>4. b = a + Len(q) - 1 /\ \A i \in 1..Len(q) : u[a + i - 1] = q[i]
    BY <1>3, <2>2, <2>3
  <2>5. SubSeq(u, a, b) = q
    BY <2>4, Piece
  <2>6. b = Len(u)
    BY <1>3, <2>1
  <2>. QED
    BY <2>1, <2>5, <2>6
<1>9. Find(u, 1, {"?"}) = j
  BY <1>3, <1>6
<1>. QED
  BY <1>7, <1>8, <1>9, Zenon DEF url_decode, KeyNames, ValNames

-----------------------------------------------------------------------------
(* Requests *)

\* The text of a request with method m and URL u.
RequestHas(t, m, u) ==
  /\ t \in Texts /\ Len(u) \in Nat /\ Len(t) = Len(u) + 6
  /\ t[1] = m /\ t[2] = " " /\ t[Len(u) + 3] = " "
  /\ \A i \in 1..Len(u) : t[2 + i] = u[i]

Methods == {"GET", "PUT", "DELETE", "POST"}

\* The request line of a request, and the blank line (kvmessage.c:134-150).
LEMMA RequestShape ==
  ASSUME NEW m \in Methods, NEW u \in Texts
  PROVE  RequestHas((<<m, " ">> \o u) \o <<" ", "HTTP/1.1", "\n", "\n">>, m, u)
<1>1. PICK b \in Symbols, h \in Symbols, n \in Symbols : b = " " /\ h = "HTTP/1.1" /\ n = "\n"
  <2>1. " " \in Symbols /\ "HTTP/1.1" \in Symbols /\ "\n" \in Symbols
    BY WordFacts DEF Words
  <2>. QED
    BY <2>1
<1>2. m \in Symbols
  BY WordFacts DEF Words, Methods
<1>3. PICK x, y : x = <<m, b>> /\ y = <<b, h, n, n>>
  OBVIOUS
<1>4. /\ x \in Texts /\ Len(x) = 2 /\ x[1] = m /\ x[2] = b
      /\ y \in Texts /\ Len(y) = 4 /\ y[1] = b
  BY <1>2, <1>3 DEF Texts
<1>5. /\ x \o u \in Texts /\ Len(u) \in Nat /\ Len(x \o u) = Len(x) + Len(u)
      /\ \A i \in 1..Len(x) : (x \o u)[i] = x[i]
      /\ \A i \in 1..Len(u) : (x \o u)[Len(x) + i] = u[i]
  BY <1>4, Joined
<1>6. PICK d : d = x \o u
  OBVIOUS
<1>7. d \in Texts /\ Len(d) = Len(u) + 2 /\ d[1] = m /\ d[2] = b /\ \A i \in 1..Len(u) : d[2 + i] = u[i]
  BY <1>4, <1>5, <1>6
<1>8. /\ d \o y \in Texts /\ Len(d \o y) = Len(d) + Len(y)
      /\ \A i \in 1..Len(d) : (d \o y)[i] = d[i]
      /\ \A i \in 1..Len(y) : (d \o y)[Len(d) + i] = y[i]
  BY <1>4, <1>7, Joined
<1>9. PICK t : t = d \o y
  OBVIOUS
<1>10. PICK l \in Nat : l = Len(u)
  BY <1>5
<1>11. Len(d) = l + 2 /\ Len(y) = 4
  BY <1>4, <1>7, <1>10
<1>12. /\ t \in Texts /\ Len(t) = (l + 2) + 4 /\ \A i \in 1..(l + 2) : t[i] = d[i]
       /\ \A i \in 1..4 : t[(l + 2) + i] = y[i]
  BY <1>8, <1>9, <1>11
<1>13. /\ 1 \in 1..(l + 2) /\ 2 \in 1..(l + 2) /\ 1 \in 1..4 /\ (l + 2) + 1 = l + 3 /\ (l + 2) + 4 = l + 6
       /\ \A i \in 1..l : 2 + i \in 1..(l + 2)
  OBVIOUS
<1>14. t[1] = m /\ t[2] = b /\ \A i \in 1..l : t[2 + i] = u[i]
  BY <1>7, <1>10, <1>12, <1>13
<1>15. t[l + 3] = b
  BY <1>4, <1>12, <1>13
<1>16. RequestHas(t, m, u)
  BY <1>1, <1>10, <1>12, <1>13, <1>14, <1>15 DEF RequestHas
<1>17. t = (<<m, " ">> \o u) \o <<" ", "HTTP/1.1", "\n", "\n">>
  BY <1>1, <1>3, <1>6, <1>9
<1>. QED
  BY <1>16, <1>17

\* A URL that the parser takes whole.
IsUrl(u) ==
  u \in Texts /\ Len(u) >= 1 /\ u[1] = "/" /\ \A i \in 1..Len(u) : u[i] \notin {" ", "\n"}

\* A request is parsed once its path has come with the blank behind it, and is
\* refused before (libhttp.c:18-66).
LEMMA RequestParses ==
  ASSUME NEW m \in Methods, NEW u, IsUrl(u), NEW t, RequestHas(t, m, u), NEW s, Begins(s, t)
  PROVE  http_request_parse(s) = IF Len(s) < Len(u) + 3 THEN NULL ELSE [method |-> <<m>>, url |-> u]
<1>1. t \in Texts /\ Len(u) \in Nat /\ Len(t) = Len(u) + 6
  BY DEF RequestHas
<1>2. s \in Texts /\ Len(s) <= Len(t) /\ \A i \in 1..Len(s) : s[i] = t[i]
  BY DEF Begins
<1>3. Len(s) \in Nat
  BY <1>2 DEF Texts
<1>4. PICK n \in Nat, c \in Nat : n = Len(u) /\ c = Len(s)
  BY <1>1, <1>3
<1>5. n >= 1 /\ c <= n + 6 /\ u[1] = "/" /\ u \in Texts
  BY <1>1, <1>2, <1>4 DEF IsUrl
<1>6. t[1] = m /\ t[2] = " " /\ t[n + 3] = " " /\ \A i \in 1..n : t[2 + i] = u[i]
  BY <1>4 DEF RequestHas
<1>7. \A i \in 1..c : s[i] = t[i]
  BY <1>2, <1>4
<1>8. m \notin {" ", "\n"}
  BY DEF Methods
<1>9. \A i \in 1..n : u[i] \notin {" ", "\n"}
  BY <1>4 DEF IsUrl
<1>10. ASSUME NEW l \in 3..(n + 2), l <= c PROVE s[l] \notin {" ", "\n"}
  <2>1. PICK i \in 1..n : l = 2 + i
    OBVIOUS
  <2>2. l \in 1..c
    BY <1>10
  <2>3. s[l] = u[i]
    BY <1>6, <1>7, <2>1, <2>2
  <2>. QED
    BY <1>9, <2>3
<1>11. PICK sp, end : sp = Find(s, 1, {" "}) /\ end = Find(s, sp + 1, {" ", "\n"})
  OBVIOUS
<1>12. http_request_parse(s) =
        IF /\ sp < Len(s) /\ PathEnds(s, end) /\ s[sp + 1] = "/"
           /\ SubSeq(s, 1, sp - 1) \in {<< >>, <<"GET">>, <<"PUT">>, <<"DELETE">>, <<"POST">>, <<"P">>}
        THEN [method |-> SubSeq(s, 1, sp - 1), url |-> SubSeq(s, sp + 1, end - 1)]
        ELSE NULL
  BY <1>11, Zenon DEF http_request_parse
<1>13. CASE c < 2
  <2>1. \A l \in 1..c : l = 1
    BY <1>13
  <2>2. \A l \in 1..Len(s) : s[l] \notin {" "}
    BY <1>4, <1>6, <1>7, <1>8, <2>1
  <2>3. sp = c + 1
    BY <1>4, <1>11, <2>2, FindNone
  <2>4. ~(c + 1 < c) /\ c < n + 3
    BY <1>13
  <2>5. ~(sp < Len(s)) /\ Len(s) < Len(u) + 3
    BY <1>4, <2>3, <2>4
  <2>. QED
    BY <1>12, <2>5
<1>14. CASE ~(c < 2)
  <2>1. sp = 2
    <3>1. PICK i \in Nat, j \in Nat : i = 1 /\ j = 2
      OBVIOUS
    <3>2. j \in i..c /\ 1 \in 1..c /\ 2 \in 1..c
      BY <1>14, <3>1
    <3>3. s[1] = m /\ s[2] = " "
      BY <1>6, <1>7, <3>2
    <3>4. \A l \in i..(j - 1) : l = 1
      BY <3>1
    <3>5. s[j] \in {" "} /\ \A l \in i..(j - 1) : s[l] \notin {" "}
      BY <1>8, <3>1, <3>3, <3>4
    <3>6. j \in i..Len(s)
      BY <1>4, <3>2
    <3>7. Find(s, i, {" "}) = j
      BY <1>2, <3>5, <3>6, FindIs
    <3>. QED
      BY <1>11, <3>1, <3>7
  <2>2. end = Find(s, 3, {" ", "\n"})
    <3>1. sp + 1 = 3
      BY <2>1
    <3>. QED
      BY <1>11, <3>1
  <2>3. CASE c < n + 3
    <3>1. \A l \in 3..c : l \in 3..(n + 2) /\ l <= c
      BY <2>3
    <3>2. \A l \in 3..Len(s) : s[l] \notin {" ", "\n"}
      BY <1>4, <1>10, <3>1
    <3>3. end = c + 1
      BY <1>4, <2>2, <3>2, FindNone
    <3>4. ~(c + 1 <= c)
      OBVIOUS
    <3>5. ~PathEnds(s, end)
      BY <1>4, <3>3, <3>4 DEF PathEnds
    <3>6. Len(s) < Len(u) + 3
      BY <1>4, <2>3
    <3>. QED
      BY <1>12, <3>5, <3>6
  <2>4. CASE ~(c < n + 3)
    <3>1. PICK i \in Nat, j \in Nat : i = 3 /\ j = n + 3
      OBVIOUS
    <3>2. j \in i..c /\ j \in 1..c /\ 1 \in 1..c /\ 3 \in 1..c
      BY <2>4, <3>1
    <3>3. end = j
      <4>1. \A l \in i..(j - 1) : l \in 3..(n + 2) /\ l <= c
        BY <2>4, <3>1
      <4>2. s[j] = " "
        BY <1>6, <1>7, <3>1, <3>2
      <4>3. s[j] \in {" ", "\n"} /\ \A l \in i..(j - 1) : s[l] \notin {" ", "\n"}
        BY <1>10, <4>1, <4>2
      <4>4. j \in i..Len(s)
        BY <1>4, <3>2
      <4>5. Find(s, i, {" ", "\n"}) = j
        BY <1>2, <4>3, <4>4, FindIs
      <4>. QED
        BY <2>2, <3>1, <4>5
    <3>4. sp < Len(s) /\ PathEnds(s, end)
      <4>1. 2 < c /\ j <= c
        BY <2>4, <3>1
      <4>. QED
        BY <1>4, <2>1, <3>3, <4>1 DEF PathEnds
    <3>5. s[sp + 1] = "/"
      <4>1. 1 \in 1..n /\ 2 + 1 = 3
        BY <1>5
      <4>2. t[3] = u[1]
        BY <1>6, <4>1
      <4>3. s[3] = "/"
        BY <1>5, <1>7, <3>2, <4>2
      <4>. QED
        BY <2>1, <4>3
    <3>6. SubSeq(s, 1, sp - 1) = <<m>>
      <4>0. PICK x : x = <<m>>
        OBVIOUS
      <4>1. PICK a \in Nat, b \in Int : a = 1 /\ b = 1
        OBVIOUS
      <4>2. m \in Symbols
        BY WordFacts DEF Words, Methods
      <4>3. x \in Texts /\ Len(x) = 1 /\ x[1] = m
        BY <4>0, <4>2, Short
      <4>4. s[1] = m
        BY <1>6, <1>7, <3>2
      <4>5. b = a + Len(x) - 1 /\ \A l \in 1..Len(x) : a + l - 1 = 1 /\ l = 1
        BY <4>1, <4>3
      <4>6. \A l \in 1..Len(x) : s[a + l - 1] = x[l]
        BY <4>3, <4>4, <4>5
      <4>7. SubSeq(s, a, b) = x
        <5>1. x \in Texts /\ Holds(s, a, b, x)
          BY <4>3, <4>5, <4>6 DEF Holds
        <5>. QED
          BY <5>1, PieceHeld
      <4>8. sp - 1 = b
        BY <2>1, <4>1
      <4>. QED
        BY <4>0, <4>1, <4>7, <4>8
    <3>7. SubSeq(s, sp + 1, end - 1) = u
      <4>1. PICK a \in Nat, b \in Int : a = 3 /\ b = n + 2
        OBVIOUS
      <4>2. b = a + n - 1
        BY <4>1
      <4>3. ASSUME NEW l \in 1..n PROVE s[a + l - 1] = u[l]
        <5>1. a + l - 1 = 2 + l /\ 2 + l \in 1..c
          BY <2>4, <4>1
        <5>. QED
          BY <1>6, <1>7, <5>1
      <4>4. b = a + Len(u) - 1 /\ \A l \in 1..Len(u) : s[a + l - 1] = u[l]
        BY <1>4, <4>2, <4>3
      <4>5. SubSeq(s, a, b) = u
        BY <1>5, <4>4, Piece
      <4>6. sp + 1 = a /\ end - 1 = b
        BY <2>1, <3>1, <3>3, <4>1
      <4>. QED
        BY <4>5, <4>6
    <3>8. <<m>> \in {<< >>, <<"GET">>, <<"PUT">>, <<"DELETE">>, <<"POST">>, <<"P">>}
      BY DEF Methods
    <3>9. ~(Len(s) < Len(u) + 3)
      BY <1>4, <2>4
    <3>. QED
      BY <1>12, <3>4, <3>5, <3>6, <3>7, <3>8, <3>9, Zenon
  <2>. QED
    BY <2>3, <2>4
<1>. QED
  BY <1>13, <1>14

\* What a request of each type looks like.
RequestTypes == {"GETREQ", "PUTREQ", "DELREQ", "REGISTER", "COMMIT", "ABORT"}

\* The method and the path of every type are the parser's (kvmessage.c:102-130).
LEMMA MethodsAndPaths ==
  ASSUME NEW type \in RequestTypes
  PROVE  method_for(type) \in Methods /\ IsPath(path_for(type))
<1>1. method_for(type) \in Methods
  BY DEF RequestTypes, Methods, method_for
<1>2. path_for(type) = << >> \/ \E w \in {"register", "commit", "abort"} : path_for(type) = <<w>>
  BY DEF RequestTypes, path_for
<1>3. CASE path_for(type) = << >>
  <2>1. PICK x : x = << >>
    OBVIOUS
  <2>2. x \in Texts /\ Len(x) = 0
    BY <2>1 DEF Texts
  <2>3. \A i \in 1..Len(x) : FALSE
    BY <2>2
  <2>4. IsPath(x)
    BY <2>2, <2>3, Zenon DEF IsPath
  <2>. QED
    BY <1>1, <1>3, <2>1, <2>4, Zenon
<1>4. ASSUME NEW w \in {"register", "commit", "abort"}, path_for(type) = <<w>> PROVE IsPath(path_for(type))
  <2>1. w \in Symbols
    BY WordFacts DEF Words
  <2>2. PICK x : x = <<w>>
    OBVIOUS
  <2>3. x \in Texts /\ Len(x) = 1 /\ x[1] = w
    BY <2>1, <2>2, Short
  <2>4. \A i \in 1..Len(x) : x[i] = w
    BY <2>3
  <2>5. w \notin {"?", " ", "\n"}
    OBVIOUS
  <2>6. IsPath(x)
    BY <2>3, <2>4, <2>5 DEF IsPath
  <2>. QED
    BY <1>4, <2>2, <2>6
<1>. QED
  BY <1>1, <1>2, <1>3, <1>4

\* The server finds the type that the method and the path were chosen for
\* (kvmessage.c:13-61).
LEMMA TypeReturns ==
  ASSUME NEW type \in RequestTypes, NEW k, k # NULL, NEW v, v = NULL => type \in {"GETREQ", "DELREQ"}
  PROVE  TypeOf(<<method_for(type)>>, [path |-> path_for(type), key |-> k, val |-> v]) = type
<1>1. PICK p : p = [path |-> path_for(type), key |-> k, val |-> v]
  OBVIOUS
<1>2. p.path = path_for(type) /\ p.key = k /\ p.val = v
  BY <1>1
<1>3. /\ <<"GET">>[1] = "GET" /\ <<"PUT">>[1] = "PUT" /\ <<"DELETE">>[1] = "DELETE" /\ <<"POST">>[1] = "POST"
      /\ <<"register">>[1] = "register" /\ <<"commit">>[1] = "commit" /\ <<"abort">>[1] = "abort"
  OBVIOUS
<1>4. /\ <<"PUT">> # <<"GET">> /\ <<"DELETE">> # <<"GET">> /\ <<"DELETE">> # <<"PUT">>
      /\ <<"POST">> # <<"GET">> /\ <<"POST">> # <<"PUT">> /\ <<"POST">> # <<"DELETE">>
      /\ <<"commit">> # <<"register">> /\ <<"abort">> # <<"register">> /\ <<"abort">> # <<"commit">>
  BY <1>3
<1>5. PICK ge, pu, de, po, rg, co, ab : ge = <<"GET">> /\ pu = <<"PUT">> /\ de = <<"DELETE">> /\ po = <<"POST">>
        /\ rg = <<"register">> /\ co = <<"commit">> /\ ab = <<"abort">>
  OBVIOUS
<1>6. /\ pu # ge /\ de # ge /\ de # pu /\ po # ge /\ po # pu /\ po # de
      /\ co # rg /\ ab # rg /\ ab # co
  BY <1>4, <1>5
<1>7. ASSUME NEW method
      PROVE  TypeOf(method, p) =
               CASE method = ge -> IF p.key = NULL THEN "INDEX" ELSE "GETREQ"
                 [] method = pu /\ p.key # NULL /\ p.val # NULL -> "PUTREQ"
                 [] method = de /\ p.key # NULL -> "DELREQ"
                 [] method = po /\ p.path = rg /\ p.key # NULL /\ p.val # NULL -> "REGISTER"
                 [] method = po /\ p.path = co -> "COMMIT"
                 [] method = po /\ p.path = ab -> "ABORT"
                 [] OTHER -> "EMPTY"
  BY <1>5, Zenon DEF TypeOf
<1>8. /\ type = "GETREQ" => <<method_for(type)>> = ge
      /\ type = "PUTREQ" => <<method_for(type)>> = pu
      /\ type = "DELREQ" => <<method_for(type)>> = de
      /\ type = "REGISTER" => <<method_for(type)>> = po /\ path_for(type) = rg
      /\ type = "COMMIT" => <<method_for(type)>> = po /\ path_for(type) = co
      /\ type = "ABORT" => <<method_for(type)>> = po /\ path_for(type) = ab
  BY <1>5 DEF method_for, path_for
<1>9. PICK method : method = <<method_for(type)>>
  OBVIOUS
<1>10. TypeOf(method, p) = type
  BY <1>2, <1>6, <1>7, <1>8, <1>9 DEF RequestTypes
<1>. QED
  BY <1>1, <1>9, <1>10

\* An operand without the characters that end a parameter or the path.
IsPlain(x) == x \in Texts /\ \A i \in 1..Len(x) : x[i] \notin {"&", " ", "\n"}

\* The operands come back from their query (liburl.c:19-73).
LEMMA QueryReturns ==
  ASSUME NEW k, IsPlain(k), NEW v, v = NULL \/ IsPlain(v)
  PROVE  Lookup(Query(k, v), KeyNames) = k /\ Lookup(Query(k, v), ValNames) = v
<1>1. PICK kk \in Texts : kk = k /\ \A i \in 1..Len(kk) : kk[i] # "&"
  BY DEF IsPlain
<1>2. CASE v = NULL
  <2>1. Lookup(Query(kk, NULL), KeyNames) = kk /\ Lookup(Query(kk, NULL), ValNames) = NULL
    BY <1>1, OneLookup
  <2>. QED
    BY <1>1, <1>2, <2>1
<1>3. CASE v # NULL
  <2>1. PICK vv \in Texts : vv = v /\ vv # NULL /\ \A i \in 1..Len(vv) : vv[i] # "&"
    BY <1>3 DEF IsPlain
  <2>2. Lookup(Query(kk, vv), KeyNames) = kk /\ Lookup(Query(kk, vv), ValNames) = vv
    BY <1>1, <2>1, TwoLookup
  <2>. QED
    BY <1>1, <2>1, <2>2
<1>. QED
  BY <1>2, <1>3

\* A text without blanks and newlines.
Unbroken(x) == x \in Texts /\ \A i \in 1..Len(x) : x[i] \notin {" ", "\n"}

\* A query of such operands has neither a blank nor a newline.
LEMMA QueryPlain ==
  ASSUME NEW k, IsPlain(k), NEW v, v = NULL \/ IsPlain(v)
  PROVE  Unbroken(Query(k, v))
<1>1. k \in Texts /\ \A i \in 1..Len(k) : k[i] \notin {" ", "\n"}
  BY DEF IsPlain
<1>2. PICK kk \in Texts : kk = k
  BY <1>1
<1>3. CASE v = NULL
  <2>1. PICK q : q = Query(kk, NULL)
    OBVIOUS
  <2>2. /\ q \in Texts /\ Len(kk) \in Nat /\ Len(q) = Len(kk) + 2 /\ q[1] = "key" /\ q[2] = "="
        /\ \A i \in 1..Len(kk) : q[2 + i] = kk[i]
    BY <2>1, OneShape
  <2>3. PICK n \in Nat : n = Len(kk)
    BY <2>2
  <2>4. Len(q) = n + 2 /\ (\A i \in 1..n : q[2 + i] = kk[i]) /\ \A i \in 1..n : kk[i] \notin {" ", "\n"}
    BY <1>1, <1>2, <2>2, <2>3
  <2>5. ASSUME NEW l \in 1..(n + 2) PROVE q[l] \notin {" ", "\n"}
    <3>1. l = 1 \/ l = 2 \/ \E i \in 1..n : l = 2 + i
      <4>1. l = 1 \/ l = 2 \/ (l - 2 \in 1..n /\ l = 2 + (l - 2))
        OBVIOUS
      <4>. QED
        BY <4>1
    <3>. QED
      BY <2>2, <2>4, <3>1
  <2>. QED
    BY <1>2, <1>3, <2>1, <2>2, <2>4, <2>5 DEF Unbroken
<1>4. CASE v # NULL
  <2>1. v \in Texts /\ \A i \in 1..Len(v) : v[i] \notin {" ", "\n"}
    BY <1>4 DEF IsPlain
  <2>2. PICK vv \in Texts : vv = v /\ vv # NULL
    BY <1>4, <2>1
  <2>3. PICK q : q = Query(kk, vv)
    OBVIOUS
  <2>4. HasBoth(q, kk, vv)
    BY <2>2, <2>3, TwoShape
  <2>5. q \in Texts /\ Len(kk) \in Nat /\ Len(vv) \in Nat /\ Len(q) = Len(kk) + Len(vv) + 5
    BY <2>4 DEF HasBoth
  <2>6. PICK n \in Nat, m \in Nat : n = Len(kk) /\ m = Len(vv)
    BY <2>5
  <2>7. /\ Len(q) = n + m + 5 /\ q[1] = "key" /\ q[2] = "=" /\ \A i \in 1..n : q[2 + i] = kk[i]
        /\ q[n + 3] = "&" /\ q[n + 4] = "val" /\ q[n + 5] = "=" /\ \A i \in 1..m : q[n + 5 + i] = vv[i]
    BY <2>4, <2>6 DEF HasBoth
  <2>8. (\A i \in 1..n : kk[i] \notin {" ", "\n"}) /\ \A i \in 1..m : vv[i] \notin {" ", "\n"}
    BY <1>1, <1>2, <2>1, <2>2, <2>6
  <2>9. ASSUME NEW l \in 1..(n + m + 5) PROVE q[l] \notin {" ", "\n"}
    <3>1. l \in {1, 2, n + 3, n + 4, n + 5} \/ (\E i \in 1..n : l = 2 + i) \/ \E i \in 1..m : l = n + 5 + i
      <4>1. \/ l \in {1, 2, n + 3, n + 4, n + 5} \/ (l - 2 \in 1..n /\ l = 2 + (l - 2))
            \/ l - n - 5 \in 1..m /\ l = n + 5 + (l - n - 5)
        OBVIOUS
      <4>. QED
        BY <4>1
    <3>. QED
      BY <2>7, <2>8, <3>1
  <2>. QED
    BY <1>2, <2>2, <2>3, <2>5, <2>7, <2>9 DEF Unbroken
<1>. QED
  BY <1>3, <1>4

\* A URL is made of a path and a query that have neither.
LEMMA UrlPlain ==
  ASSUME NEW p, IsPath(p), NEW q, Unbroken(q), NEW u, UrlHas(u, p, q)
  PROVE  IsUrl(u)
<1>1. Len(p) \in Nat /\ Len(q) \in Nat /\ Len(u) = Len(p) + 2 + Len(q) /\ u \in Texts
  BY DEF UrlHas
<1>2. PICK n \in Nat, c \in Nat : n = Len(p) /\ c = Len(q)
  BY <1>1
<1>3. /\ Len(u) = n + 2 + c /\ u[1] = "/" /\ u[n + 2] = "?"
      /\ \A i \in 1..n : u[1 + i] = p[i]
      /\ \A i \in 1..c : u[n + 2 + i] = q[i]
  BY <1>2 DEF UrlHas
<1>4. (\A i \in 1..n : p[i] \notin {" ", "\n"}) /\ \A i \in 1..c : q[i] \notin {" ", "\n"}
  BY <1>2 DEF IsPath, Unbroken
<1>5. ASSUME NEW l \in 1..(n + 2 + c) PROVE u[l] \notin {" ", "\n"}
  <2>1. l = 1 \/ l = n + 2 \/ (\E i \in 1..n : l = 1 + i) \/ \E i \in 1..c : l = n + 2 + i
    <3>1. \/ l = 1 \/ l = n + 2 \/ (l - 1 \in 1..n /\ l = 1 + (l - 1))
          \/ l - n - 2 \in 1..c /\ l = n + 2 + (l - n - 2)
      OBVIOUS
    <3>. QED
      BY <3>1
  <2>. QED
    BY <1>3, <1>4, <2>1
<1>6. n + 2 + c >= 1
  OBVIOUS
<1>. QED
  BY <1>1, <1>3, <1>5, <1>6 DEF IsUrl

\* The operands of a request are texts, and the key is never missing.
LEMMA RequestParts ==
  ASSUME NEW r \in Requests
  PROVE  /\ r.type \in RequestTypes /\ r.key \in Texts /\ r.key # NULL
         /\ r.val = NULL \/ r.val \in Texts
         /\ r.val = NULL => r.type \in {"GETREQ", "DELREQ"}
         /\ r = Request(r.type, r.key, r.val)
<1>1. (\A x \in Keys : x \in Texts /\ x # NULL) /\ \A x \in Vals : x \in Texts /\ x # NULL
  BY MessageAssumption DEF Texts
<1>2. CASE r \in {Request(type, k, v) : type \in {"PUTREQ", "REGISTER", "COMMIT", "ABORT"}, k \in Keys, v \in Vals}
  <2>1. PICK type \in {"PUTREQ", "REGISTER", "COMMIT", "ABORT"}, k \in Keys, v \in Vals : r = Request(type, k, v)
    BY <1>2
  <2>2. r.type = type /\ r.key = k /\ r.val = v
    BY <2>1 DEF Request
  <2>. QED
    BY <1>1, <2>1, <2>2 DEF RequestTypes
<1>3. CASE r \in {Request(type, k, NULL) : type \in {"GETREQ", "DELREQ"}, k \in Keys}
  <2>1. PICK type \in {"GETREQ", "DELREQ"}, k \in Keys : r = Request(type, k, NULL)
    BY <1>3
  <2>2. r.type = type /\ r.key = k /\ r.val = NULL
    BY <2>1 DEF Request
  <2>. QED
    BY <1>1, <2>1, <2>2 DEF RequestTypes
<1>. QED
  BY <1>2, <1>3 DEF Requests

\* What a request says on the wire, whatever its operands.
UrlOf(r) == url_encode(path_for(r.type), r.key, r.val)

\* The text of a request is a text (kvmessage.c:134-150).
LEMMA RequestTextIs ==
  ASSUME NEW r \in Requests
  PROVE  /\ UrlOf(r) = Prefix(path_for(r.type)) \o Query(r.key, r.val)
         /\ UrlOf(r) \in Texts /\ Query(r.key, r.val) \in Texts
         /\ UrlHas(UrlOf(r), path_for(r.type), Query(r.key, r.val))
         /\ RequestHas(RequestText(r), method_for(r.type), UrlOf(r))
<1>1. /\ r.type \in RequestTypes /\ r.key \in Texts /\ r.key # NULL /\ (r.val = NULL \/ r.val \in Texts)
  BY RequestParts
<1>2. PICK p, k, v, m : p = path_for(r.type) /\ k = r.key /\ v = r.val /\ m = method_for(r.type)
  OBVIOUS
<1>3. IsPath(p) /\ m \in Methods /\ k \in Texts /\ k # NULL /\ (v = NULL \/ v \in Texts)
  BY <1>1, <1>2, MethodsAndPaths
<1>4. UrlOf(r) = Prefix(p) \o Query(k, v)
  <2>1. url_encode(p, k, v) = Prefix(p) \o Query(k, v)
    BY <1>3, UrlIs
  <2>. QED
    BY <1>2, <2>1 DEF UrlOf
<1>5. Query(k, v) \in Texts
  <2>1. CASE v = NULL
    BY <1>3, <2>1, OneShape
  <2>2. CASE v # NULL
    <3>1. v \in Texts
      BY <1>3, <2>2
    <3>2. HasBoth(Query(k, v), k, v)
      BY <1>3, <2>2, <3>1, TwoShape
    <3>. QED
      BY <3>2 DEF HasBoth
  <2>. QED
    BY <2>1, <2>2
<1>6. UrlHas(UrlOf(r), p, Query(k, v))
  BY <1>3, <1>4, <1>5, UrlShape
<1>7. UrlOf(r) \in Texts
  BY <1>6 DEF UrlHas
<1>8. RequestHas((<<m, " ">> \o UrlOf(r)) \o <<" ", "HTTP/1.1", "\n", "\n">>, m, UrlOf(r))
  BY <1>3, <1>7, RequestShape
<1>9. RequestText(r) = (<<m, " ">> \o UrlOf(r)) \o <<" ", "HTTP/1.1", "\n", "\n">>
  BY <1>2 DEF RequestText, UrlOf
<1>. QED
  BY <1>2, <1>4, <1>5, <1>6, <1>7, <1>8, <1>9

\* However much of a request arrives, it is decoded to what was sent, or
\* refused; and all of it is never refused.
LEMMA RequestDecodes ==
  ASSUME NEW r \in Requests, IsPlain(r.key), r.val = NULL \/ IsPlain(r.val), NEW s, Begins(s, RequestText(r))
  PROVE  \/ kvrequest_recieve(s) = r
         \/ kvrequest_recieve(s) = NULL /\ s # RequestText(r)
<1>1. /\ r.type \in RequestTypes /\ r.key # NULL /\ (r.val = NULL => r.type \in {"GETREQ", "DELREQ"})
      /\ r = Request(r.type, r.key, r.val)
  BY RequestParts
<1>2. PICK p, k, v, m, q, u, t :
        /\ p = path_for(r.type) /\ k = r.key /\ v = r.val /\ m = method_for(r.type)
        /\ q = Query(k, v) /\ u = UrlOf(r) /\ t = RequestText(r)
  OBVIOUS
<1>3. q \in Texts /\ u \in Texts /\ UrlHas(u, p, q) /\ RequestHas(t, m, u)
  BY <1>2, RequestTextIs
<1>4. IsPath(p) /\ m \in Methods
  BY <1>1, <1>2, MethodsAndPaths
<1>5. Unbroken(q)
  BY <1>2, QueryPlain
<1>6. IsUrl(u)
  BY <1>3, <1>4, <1>5, UrlPlain
<1>7. Begins(s, t)
  BY <1>2
<1>8. http_request_parse(s) = IF Len(s) < Len(u) + 3 THEN NULL ELSE [method |-> <<m>>, url |-> u]
  BY <1>3, <1>4, <1>6, <1>7, RequestParses
<1>9. CASE Len(s) < Len(u) + 3
  <2>1. kvrequest_recieve(s) = NULL
    BY <1>8, <1>9, Zenon DEF kvrequest_recieve
  <2>2. s # t
    <3>1. Len(t) = Len(u) + 6 /\ Len(u) \in Nat
      BY <1>3 DEF RequestHas
    <3>2. ~(Len(t) < Len(u) + 3)
      BY <3>1
    <3>. QED
      BY <1>9, <3>2
  <2>. QED
    BY <1>2, <2>1, <2>2
<1>10. CASE ~(Len(s) < Len(u) + 3)
  <2>1. PICK h : h = [method |-> <<m>>, url |-> u]
    OBVIOUS
  <2>2. h # NULL
    <3>1. m \in Symbols
      BY <1>4, WordFacts DEF Words, Methods
    <3>2. PICK x : x = <<m>>
      OBVIOUS
    <3>3. x \in Seq(Symbols) /\ u \in Seq(Symbols)
      BY <1>3, <3>1, <3>2, Short DEF Texts
    <3>4. h \in [method : Seq(Symbols), url : Seq(Symbols)]
      BY <2>1, <3>2, <3>3
    <3>. QED
      BY <3>4, MessageAssumption
  <2>3. h.method = <<m>> /\ h.url = u
    BY <2>1
  <2>4. PICK d : d = [path |-> p, key |-> k, val |-> v]
    OBVIOUS
  <2>5. url_decode(h.url) = d
    <3>1. url_decode(u) = [path |-> p, key |-> Lookup(q, KeyNames), val |-> Lookup(q, ValNames)]
      BY <1>3, <1>4, UrlDecodes
    <3>2. Lookup(q, KeyNames) = k /\ Lookup(q, ValNames) = v
      BY <1>2, QueryReturns
    <3>. QED
      BY <2>3, <2>4, <3>1, <3>2, Zenon
  <2>6. TypeOf(h.method, d) = r.type
    <3>1. TypeOf(<<method_for(r.type)>>, [path |-> path_for(r.type), key |-> r.key, val |-> r.val]) = r.type
      BY <1>1, TypeReturns
    <3>. QED
      BY <1>2, <2>3, <2>4, <3>1, Zenon
  <2>7. d.key = k /\ d.val = v /\ r.type # "EMPTY"
    BY <1>1, <2>4 DEF RequestTypes
  <2>8. http_request_parse(s) = h
    BY <1>8, <1>10, <2>1, Zenon
  <2>9. kvrequest_recieve(s) = Request(r.type, k, v)
    <3>1. kvrequest_recieve(s) =
            IF TypeOf(h.method, url_decode(h.url)) = "EMPTY" THEN NULL
            ELSE Request(TypeOf(h.method, url_decode(h.url)), url_decode(h.url).key, url_decode(h.url).val)
      BY <2>2, <2>8, Zenon DEF kvrequest_recieve
    <3>. QED
      BY <2>5, <2>6, <2>7, <3>1, Zenon
  <2>. QED
    BY <1>1, <1>2, <2>9
<1>. QED
  BY <1>9, <1>10

\* Whatever is sent, what is not refused has its operands (kvmessage.c:23-46).
LEMMA OperandsHere ==
  ASSUME NEW s, kvrequest_recieve(s) # NULL
  PROVE  LET r == kvrequest_recieve(s) IN
         /\ r.type \in RequestTypes \cup {"INDEX"}
         /\ r.type \in {"GETREQ", "DELREQ", "PUTREQ", "REGISTER"} => r.key # NULL
         /\ r.type \in {"PUTREQ", "REGISTER"} => r.val # NULL
<1>1. PICK h, p, type : h = http_request_parse(s) /\ p = url_decode(h.url) /\ type = TypeOf(h.method, p)
  OBVIOUS
<1>2. type # "EMPTY" /\ kvrequest_recieve(s) = Request(type, p.key, p.val)
  <2>1. h # NULL /\ type # "EMPTY"
    BY <1>1, Zenon DEF kvrequest_recieve
  <2>. QED
    BY <1>1, <2>1, Zenon DEF kvrequest_recieve
<1>3. PICK r : r = kvrequest_recieve(s)
  OBVIOUS
<1>4. r.type = type /\ r.key = p.key /\ r.val = p.val
  BY <1>2, <1>3 DEF Request
<1>5. /\ type \in RequestTypes \cup {"INDEX"}
      /\ type \in {"GETREQ", "DELREQ", "PUTREQ", "REGISTER"} => p.key # NULL
      /\ type \in {"PUTREQ", "REGISTER"} => p.val # NULL
  <2>1. PICK ge, pu, de, po, rg, co, ab : ge = <<"GET">> /\ pu = <<"PUT">> /\ de = <<"DELETE">> /\ po = <<"POST">>
        /\ rg = <<"register">> /\ co = <<"commit">> /\ ab = <<"abort">>
    OBVIOUS
  <2>2. PICK method : method = h.method
    OBVIOUS
  <2>3. type = CASE method = ge -> IF p.key = NULL THEN "INDEX" ELSE "GETREQ"
                 [] method = pu /\ p.key # NULL /\ p.val # NULL -> "PUTREQ"
                 [] method = de /\ p.key # NULL -> "DELREQ"
                 [] method = po /\ p.path = rg /\ p.key # NULL /\ p.val # NULL -> "REGISTER"
                 [] method = po /\ p.path = co -> "COMMIT"
                 [] method = po /\ p.path = ab -> "ABORT"
                 [] OTHER -> "EMPTY"
    BY <1>1, <2>1, <2>2, Zenon DEF TypeOf
  <2>. QED
    BY <1>2, <2>3 DEF RequestTypes
<1>. QED
  BY <1>3, <1>4, <1>5

\* The answers of the handlers are of the types that the client knows
\* (kvserver.c:125-200, tpcleader.c:45-103).
LEMMA AnswersKnown ==
  ASSUME NEW type \in RequestTypes, NEW x \in Responses(type)
  PROVE  x.type \in Types /\ Text(x.body) \in Texts
<1>1. << >> \in Texts /\ \A w \in Words : <<w>> \in Texts
  BY WordFacts DEF Texts
<1>2. \A b \in Bodies : b \in Texts
  BY MessageAssumption DEF Texts
<1>. DEFINE IsBody(b) == b = NULL \/ b \in Bodies \/ \E w \in {"no key", "commit", "full"} : b = <<w>>
<1>3. \E t, b : t \in Types /\ x = Response(t, b) /\ IsBody(b)
  BY DEF Responses, RequestTypes, Types
<1>4. PICK t, b : t \in Types /\ x = Response(t, b) /\ IsBody(b)
  BY <1>3
<1>5. x.type = t /\ x.body = b
  BY <1>4 DEF Response
<1>6. {"no key", "commit", "full"} \subseteq Words
  BY DEF Words
<1>7. b = NULL \/ b \in Texts
  BY <1>1, <1>2, <1>4, <1>6
<1>8. Text(b) \in Texts
  BY <1>1, <1>7 DEF Text
<1>. QED
  BY <1>4, <1>5, <1>8

-----------------------------------------------------------------------------
(* A text under way *)

\* w has been written of T, and o has yet to be.
Rest(w, o, T) ==
  /\ w \in Texts /\ o \in Texts /\ Len(T) = Len(w) + Len(o)
  /\ \A i \in 1..Len(w) : w[i] = T[i]
  /\ \A i \in 1..Len(o) : o[i] = T[Len(w) + i]

\* Before the first write.
LEMMA RestStarts ==
  ASSUME NEW T \in Texts
  PROVE  Rest(<< >>, T, T) /\ Begins(<< >>, T)
<1>1. PICK e : e = << >>
  OBVIOUS
<1>2. e \in Texts /\ Len(e) = 0
  BY <1>1 DEF Texts
<1>3. PICK n \in Nat : n = Len(T)
  BY DEF Texts
<1>4. n = 0 + n /\ 0 <= n /\ (\A i \in 1..n : i = 0 + i) /\ \A i \in 1..0 : FALSE
  BY <1>3
<1>5. Len(T) = Len(e) + Len(T) /\ Len(e) <= Len(T) /\ (\A i \in 1..Len(T) : T[i] = T[Len(e) + i])
      /\ \A i \in 1..Len(e) : FALSE
  BY <1>2, <1>3, <1>4
<1>6. Rest(e, T, T) /\ Begins(e, T)
  BY <1>2, <1>5, Zenon DEF Rest, Begins
<1>. QED
  BY <1>1, <1>6, Zenon

\* What has been written is a beginning.
LEMMA RestBegins ==
  ASSUME NEW T, NEW w, NEW o, Rest(w, o, T)
  PROVE  Begins(w, T)
<1>1. w \in Texts /\ o \in Texts /\ Len(T) = Len(w) + Len(o) /\ \A i \in 1..Len(w) : w[i] = T[i]
  BY DEF Rest
<1>2. Len(w) \in Nat /\ Len(o) \in Nat
  BY <1>1 DEF Texts
<1>3. Len(w) <= Len(w) + Len(o)
  BY <1>2
<1>. QED
  BY <1>1, <1>3 DEF Begins

\* A write moves symbols from what is left to what has been written
\* (libhttp.c:259-278).
LEMMA RestMoves ==
  ASSUME NEW T, NEW w, NEW o, Rest(w, o, T), NEW n \in 0..Len(o)
  PROVE  Rest(w \o SubSeq(o, 1, n), SubSeq(o, n + 1, Len(o)), T)
<1>1. w \in Texts /\ o \in Texts /\ Len(T) = Len(w) + Len(o)
  BY DEF Rest
<1>2. Len(w) \in Nat /\ Len(o) \in Nat
  BY <1>1 DEF Texts
<1>3. PICK a \in Nat, c \in Nat : a = Len(w) /\ c = Len(o)
  BY <1>2
<1>4. n \in Nat /\ n <= c /\ n \in 0..c
  BY <1>3
<1>5. (\A i \in 1..a : w[i] = T[i]) /\ \A i \in 1..c : o[i] = T[a + i]
  BY <1>3 DEF Rest
<1>6. PICK one \in Nat, m \in Nat : one = 1 /\ m = n + 1
  BY <1>4
<1>7. PICK x, y : x = SubSeq(o, one, n) /\ y = SubSeq(o, m, c)
  OBVIOUS
<1>8. x \in Texts /\ Len(x) = n /\ \A i \in 1..n : x[i] = o[i]
  <2>1. one >= 1 /\ n \in 0..Len(o) /\ n >= one - 1
    BY <1>3, <1>4, <1>6
  <2>2. /\ SubSeq(o, one, n) \in Texts /\ Len(SubSeq(o, one, n)) = n - one + 1
        /\ \A i \in 1..(n - one + 1) : SubSeq(o, one, n)[i] = o[one + i - 1]
    BY <1>1, <2>1, Cut
  <2>3. n - one + 1 = n /\ \A i \in 1..n : one + i - 1 = i
    BY <1>4, <1>6
  <2>. QED
    BY <1>7, <2>2, <2>3
<1>9. y \in Texts /\ Len(y) = c - n /\ \A i \in 1..(c - n) : y[i] = o[n + i]
  <2>1. m >= 1 /\ c \in 0..c /\ c >= m - 1
    BY <1>4, <1>6
  <2>2. c \in 0..Len(o)
    BY <1>3, <2>1
  <2>3. /\ SubSeq(o, m, c) \in Texts /\ Len(SubSeq(o, m, c)) = c - m + 1
        /\ \A i \in 1..(c - m + 1) : SubSeq(o, m, c)[i] = o[m + i - 1]
    BY <1>1, <2>1, <2>2, Cut
  <2>4. c - m + 1 = c - n /\ \A i \in 1..(c - n) : m + i - 1 = n + i
    BY <1>4, <1>6
  <2>. QED
    BY <1>7, <2>3, <2>4
<1>10. PICK z : z = w \o x
  OBVIOUS
<1>11. /\ w \o x \in Texts /\ Len(w \o x) = Len(w) + Len(x)
       /\ \A i \in 1..Len(w) : (w \o x)[i] = w[i]
       /\ \A i \in 1..Len(x) : (w \o x)[Len(w) + i] = x[i]
  BY <1>1, <1>8, Joined
<1>12. /\ z \in Texts /\ Len(z) = a + n /\ (\A i \in 1..a : z[i] = w[i])
       /\ \A i \in 1..n : z[a + i] = x[i]
  BY <1>3, <1>8, <1>10, <1>11
<1>13. ASSUME NEW i \in 1..(a + n) PROVE z[i] = T[i]
  <2>1. i \in 1..a \/ \E j \in 1..n : i = a + j
    <3>1. i \in 1..a \/ (i - a \in 1..n /\ i = a + (i - a))
      BY <1>4
    <3>. QED
      BY <3>1
  <2>2. CASE i \in 1..a
    BY <1>5, <1>12, <2>2
  <2>3. ASSUME NEW j \in 1..n, i = a + j PROVE z[i] = T[i]
    <3>1. j \in 1..c
      BY <1>4
    <3>. QED
      BY <1>5, <1>8, <1>12, <2>3, <3>1
  <2>. QED
    BY <2>1, <2>2, <2>3
<1>14. ASSUME NEW i \in 1..(c - n) PROVE y[i] = T[(a + n) + i]
  <2>1. n + i \in 1..c /\ a + (n + i) = (a + n) + i
    BY <1>4
  <2>. QED
    BY <1>5, <1>9, <2>1
<1>15. a + c = (a + n) + (c - n)
  BY <1>4
<1>16. Rest(z, y, T)
  <2>1. Len(T) = Len(z) + Len(y)
    BY <1>1, <1>3, <1>9, <1>12, <1>15
  <2>2. \A i \in 1..Len(z) : z[i] = T[i]
    BY <1>12, <1>13
  <2>3. \A i \in 1..Len(y) : y[i] = T[Len(z) + i]
    BY <1>9, <1>12, <1>14
  <2>. QED
    BY <1>9, <1>12, <2>1, <2>2, <2>3 DEF Rest
<1>. QED
  BY <1>3, <1>6, <1>7, <1>10, <1>16

\* What either side may write next is some of what is left.
LEMMA SegmentsFit ==
  ASSUME NEW o \in Texts, NEW unread, NEW read, NEW n \in Segments(o, unread, read)
  PROVE  n \in 0..Len(o) /\ Len(o) \in Nat /\ (unread = << >> /\ read = << >> => n >= 1)
<1>1. Len(o) \in Nat
  BY DEF Texts
<1>2. CASE unread = << >> /\ read = << >>
  <2>1. n \in 1..Len(o)
    BY <1>2 DEF Segments
  <2>. QED
    BY <1>1, <2>1
<1>3. CASE ~(unread = << >> /\ read = << >>)
  <2>1. n = Len(o)
    BY <1>3 DEF Segments
  <2>. QED
    BY <1>1, <1>3, <2>1
<1>. QED
  BY <1>2, <1>3

-----------------------------------------------------------------------------
(* The exchange *)

\* Where the two sides are, and what that leaves empty.
Control ==
  /\ cl \in {"idle", "write", "read", "gone"} /\ sv \in {"read", "write", "closed"}
  /\ msg \in Requests \cup {NULL} /\ out \in Texts /\ wire \in Texts
  /\ cl = "idle" => sv = "read" /\ wire = << >> /\ out = << >>
  /\ sv = "read" => reqText = << >> /\ res = NULL /\ resWire = << >> /\ resText = << >>
  /\ cl = "read" /\ sv = "read" => wire # << >>
  /\ cl # "write" /\ out # << >> => sv = "closed"

\* Until the server reads, the request lies on the wire and with the client;
\* what the server has read is a beginning of it.
RequestKept ==
  msg # NULL =>
    /\ sv = "read" => Begins(wire, RequestText(msg))
    /\ sv = "read" /\ cl = "write" => Rest(wire, out, RequestText(msg))
    /\ sv # "read" => Begins(reqText, RequestText(msg))

\* The same for the response.
ResponseKept ==
  res # NULL =>
    /\ res.type \in Types /\ Text(res.body) \in Texts
    /\ sv = "write" => Rest(resWire, resOut, ResponseText(res))
    /\ sv = "closed" => Begins(resWire, ResponseText(res))
    /\ Begins(resText, ResponseText(res))

MessageInv == Control /\ RequestKept /\ ResponseKept

\* The text of a request is a text.
LEMMA RequestTextType ==
  ASSUME NEW r \in Requests
  PROVE  RequestText(r) \in Texts
<1>1. RequestHas(RequestText(r), method_for(r.type), UrlOf(r))
  BY RequestTextIs
<1>. QED
  BY <1>1 DEF RequestHas

\* The exchange starts with nothing sent.
LEMMA InitMessage ==
  Init => MessageInv
<1>1. << >> \in Texts
  BY DEF Texts
<1>. QED
  BY <1>1 DEF Init, MessageInv, Control, RequestKept, ResponseKept

\* Neither side moves: the exchange stands as it was.
LEMMA KeptStutter ==
  MessageInv /\ UNCHANGED vars => MessageInv'
BY DEF MessageInv, Control, RequestKept, ResponseKept, vars

\* kvrequest_send puts the text of the request where its write loop finds it.
LEMMA KeptSendRequest ==
  MessageInv /\ SendRequest => MessageInv'
<1>. SUFFICES ASSUME MessageInv, SendRequest PROVE MessageInv'
  OBVIOUS
<1>1. /\ cl = "idle" /\ sv = "read" /\ wire = << >> /\ out = << >> /\ wire \in Texts
      /\ reqText = << >> /\ res = NULL /\ resWire = << >> /\ resText = << >>
  BY DEF MessageInv, Control, SendRequest
<1>2. wire' = wire /\ sv' = sv /\ reqText' = reqText /\ res' = res /\ resWire' = resWire /\ resText' = resText
  BY DEF SendRequest, server
<1>3. << >> \in Texts
  BY DEF Texts
<1>4. ASSUME NEW r \in Requests, msg' = r,
             \/ out' = RequestText(r) /\ cl' = "write"
             \/ out' = << >> /\ cl' = "gone"
      PROVE  MessageInv'
  <2>1. RequestText(r) \in Texts
    BY RequestTextType
  <2>2. Rest(<< >>, RequestText(r), RequestText(r)) /\ Begins(<< >>, RequestText(r))
    BY <2>1, RestStarts
  <2>3. Control'
    BY <1>1, <1>2, <1>3, <1>4, <2>1 DEF Control
  <2>4. RequestKept'
    BY <1>1, <1>2, <1>4, <2>2 DEF RequestKept
  <2>5. ResponseKept'
    BY <1>1, <1>2 DEF ResponseKept
  <2>. QED
    BY <2>3, <2>4, <2>5 DEF MessageInv
<1>5. ASSUME NEW text \in Foreign, msg' = NULL, out' = text, cl' = "write"
      PROVE  MessageInv'
  <2>1. text \in Texts
    BY MessageAssumption DEF Texts
  <2>2. Control'
    BY <1>1, <1>2, <1>3, <1>5, <2>1 DEF Control
  <2>3. RequestKept'
    BY <1>5 DEF RequestKept
  <2>4. ResponseKept'
    BY <1>1, <1>2 DEF ResponseKept
  <2>. QED
    BY <2>2, <2>3, <2>4 DEF MessageInv
<1>6. \/ \E r \in Requests : msg' = r /\ (\/ out' = RequestText(r) /\ cl' = "write"
                                          \/ out' = << >> /\ cl' = "gone")
      \/ \E text \in Foreign : msg' = NULL /\ out' = text /\ cl' = "write"
  BY Zenon DEF SendRequest
<1>. QED
  BY <1>4, <1>5, <1>6

\* A write moves symbols of the request to the wire; the last one ends the
\* loop, and so does a server that has closed (libhttp.c:259-278).
LEMMA KeptWriteRequest ==
  MessageInv /\ WriteRequest => MessageInv'
<1>. SUFFICES ASSUME MessageInv, WriteRequest PROVE MessageInv'
  OBVIOUS
<1>1. /\ cl = "write" /\ msg' = msg /\ sv' = sv /\ reqText' = reqText /\ res' = res /\ resOut' = resOut
      /\ resWire' = resWire /\ resText' = resText
  BY DEF WriteRequest, server
<1>2. ResponseKept'
  BY <1>1 DEF MessageInv, ResponseKept
<1>3. ASSUME sv # "closed", NEW n \in Segments(out, wire, reqText),
             wire' = wire \o SubSeq(out, 1, n), out' = SubSeq(out, n + 1, Len(out)),
             cl' = IF n = Len(out) THEN "read" ELSE "write"
      PROVE  MessageInv'
  <2>1. out \in Texts /\ wire \in Texts /\ (sv = "read" => reqText = << >>)
    BY DEF MessageInv, Control
  <2>2. n \in 0..Len(out) /\ Len(out) \in Nat /\ (wire = << >> /\ reqText = << >> => n >= 1)
    BY <2>1, SegmentsFit
  <2>3. Rest(wire, out, wire \o out)
    <3>1. /\ wire \o out \in Texts /\ Len(wire \o out) = Len(wire) + Len(out)
          /\ \A i \in 1..Len(wire) : (wire \o out)[i] = wire[i]
          /\ \A i \in 1..Len(out) : (wire \o out)[Len(wire) + i] = out[i]
      BY <2>1, Joined
    <3>. QED
      BY <2>1, <3>1 DEF Rest
  <2>4. Rest(wire', out', wire \o out)
    BY <1>3, <2>2, <2>3, RestMoves
  <2>5. wire' \in Texts /\ out' \in Texts
    BY <2>4 DEF Rest
  <2>6. n = Len(out) => out' = << >>
    <3>. SUFFICES ASSUME n = Len(out) PROVE out' = << >>
      OBVIOUS
    <3>0. PICK e : e = << >>
      OBVIOUS
    <3>1. PICK a \in Nat, b \in Int : a = n + 1 /\ b = n
      <4>1. n \in Nat
        BY <2>2
      <4>2. n + 1 \in Nat /\ n \in Int
        BY <4>1
      <4>. QED
        BY <4>2, Zenon
    <3>2. e \in Texts /\ Len(e) = 0
      BY <3>0 DEF Texts
    <3>3. b = a + Len(e) - 1 /\ \A i \in 1..Len(e) : out[a + i - 1] = e[i]
      BY <3>1, <3>2
    <3>4. SubSeq(out, a, b) = e
      BY <3>2, <3>3, Piece
    <3>. QED
      BY <1>3, <3>0, <3>1, <3>4
  <2>7. sv = "read" => wire' # << >>
    <3>. SUFFICES ASSUME sv = "read", wire' = << >> PROVE FALSE
      OBVIOUS
    <3>1. /\ SubSeq(out, 1, n) \in Texts /\ Len(SubSeq(out, 1, n)) = n
      <4>1. PICK a \in Nat : a = 1
        OBVIOUS
      <4>2. a >= 1 /\ n >= a - 1 /\ n - a + 1 = n
        BY <2>2, <4>1
      <4>3. SubSeq(out, a, n) \in Texts /\ Len(SubSeq(out, a, n)) = n - a + 1
        BY <2>1, <2>2, <4>2, Cut
      <4>. QED
        BY <4>1, <4>2, <4>3
    <3>2. PICK x : x = SubSeq(out, 1, n)
      OBVIOUS
    <3>3. Len(wire) \in Nat /\ Len(wire \o x) = Len(wire) + Len(x)
      BY <2>1, <3>1, <3>2, Joined
    <3>4. Len(<< >>) = 0
      OBVIOUS
    <3>5. Len(wire') = 0
      BY <3>4
    <3>6. Len(wire) + n = 0 /\ n \in Nat
      BY <1>3, <2>2, <3>1, <3>2, <3>3, <3>5
    <3>7. Len(wire) = 0 /\ n = 0
      BY <3>3, <3>6
    <3>8. wire = << >>
      BY <2>1, <3>7 DEF Texts
    <3>. QED
      BY <2>1, <2>2, <3>7, <3>8
  <2>8. Control'
    <3>1. cl' \in {"read", "write"} /\ (cl' = "read" => out' = << >>)
      BY <1>3, <2>6
    <3>. QED
      BY <1>1, <2>5, <2>7, <3>1 DEF MessageInv, Control
  <2>9. RequestKept'
    <3>. SUFFICES ASSUME msg # NULL PROVE RequestKept'
      BY <1>1 DEF RequestKept
    <3>1. sv # "read" => Begins(reqText, RequestText(msg))
      BY DEF MessageInv, RequestKept
    <3>2. CASE sv = "read"
      <4>1. Rest(wire, out, RequestText(msg))
        BY <1>1, <3>2 DEF MessageInv, RequestKept
      <4>2. Rest(wire', out', RequestText(msg))
        BY <1>3, <2>2, <4>1, RestMoves
      <4>3. Begins(wire', RequestText(msg))
        BY <4>2, RestBegins
      <4>. QED
        BY <1>1, <3>2, <4>2, <4>3 DEF RequestKept
    <3>. QED
      BY <1>1, <3>1, <3>2 DEF RequestKept
  <2>. QED
    BY <1>2, <2>8, <2>9 DEF MessageInv
<1>4. ASSUME sv = "closed", cl' \in {"read", "gone"}, out' = out, wire' = wire
      PROVE  MessageInv'
  <2>1. Control'
    BY <1>1, <1>4 DEF MessageInv, Control
  <2>2. RequestKept'
    BY <1>1, <1>4 DEF MessageInv, RequestKept
  <2>. QED
    BY <1>2, <2>1, <2>2 DEF MessageInv
<1>. QED
  BY <1>3, <1>4 DEF WriteRequest

\* kvserver_handle reads what there is and prepares its answer
\* (kvserver.c:203-228).
LEMMA KeptServerReads ==
  MessageInv /\ ServerReads => MessageInv'
<1>. SUFFICES ASSUME MessageInv, ServerReads PROVE MessageInv'
  OBVIOUS
<1>1. /\ sv = "read" /\ reqText' = wire /\ wire' = << >> /\ sv' = "write" /\ cl' = cl /\ msg' = msg
      /\ out' = out /\ resWire' = resWire /\ resText' = resText /\ (wire # << >> \/ cl = "gone")
  BY DEF ServerReads, ServerMayRead
<1>2. resWire = << >> /\ resText = << >> /\ << >> \in Texts
  BY <1>1 DEF MessageInv, Control, Texts
<1>3. Control'
  BY <1>1, <1>2 DEF MessageInv, Control
<1>4. RequestKept'
  BY <1>1 DEF MessageInv, RequestKept
<1>5. ResponseKept'
  <2>1. ASSUME res' # NULL, res'.type \in Types, Text(res'.body) \in Texts, resOut' = ResponseText(res')
        PROVE  ResponseKept'
    <3>1. ResponseText(res') \in Texts
      BY <2>1, ResponseShape
    <3>2. Rest(<< >>, resOut', ResponseText(res')) /\ Begins(<< >>, ResponseText(res'))
      BY <2>1, <3>1, RestStarts
    <3>. QED
      BY <1>1, <1>2, <2>1, <3>2 DEF ResponseKept
  <2>2. PICK r : r = kvrequest_recieve(wire)
    OBVIOUS
  <2>3. CASE r = NULL /\ res' = Response("ERROR", <<"invalid">>) /\ resOut' = ResponseText(res')
    <3>1. "invalid" \in Symbols
      BY WordFacts DEF Words
    <3>2. <<"invalid">> \in Texts /\ << >> \in Texts
      BY <3>1, Short
    <3>3. res'.type = "ERROR" /\ res'.body = <<"invalid">>
      BY <2>3 DEF Response
    <3>4. Text(res'.body) \in Texts
      BY <3>2, <3>3 DEF Text
    <3>5. res'.type \in Types
      BY <3>3 DEF Types
    <3>. QED
      BY <2>1, <2>3, <3>4, <3>5 DEF ResponseKept
  <2>4. CASE res' = NULL
    BY <2>4 DEF ResponseKept
  <2>5. CASE r # NULL /\ r.type # "INDEX" /\ res' \in Responses(r.type) /\ resOut' = ResponseText(res')
    <3>1. r.type \in RequestTypes
      BY <2>2, <2>5, OperandsHere
    <3>2. res'.type \in Types /\ Text(res'.body) \in Texts
      BY <2>5, <3>1, AnswersKnown
    <3>. QED
      BY <2>1, <2>5, <3>2 DEF ResponseKept
  <2>. QED
    BY <2>2, <2>3, <2>4, <2>5, Zenon DEF ServerReads
<1>. QED
  BY <1>3, <1>4, <1>5 DEF MessageInv

\* kvresponse_send moves symbols of the response to its wire.
LEMMA KeptWriteResponse ==
  MessageInv /\ WriteResponse => MessageInv'
<1>. SUFFICES ASSUME MessageInv, WriteResponse PROVE MessageInv'
  OBVIOUS
<1>1. /\ sv = "write" /\ sv' \in {"write", "closed"} /\ cl' = cl /\ msg' = msg /\ out' = out /\ wire' = wire
      /\ reqText' = reqText /\ res' = res /\ resText' = resText
  BY DEF WriteResponse
<1>2. Control'
  BY <1>1 DEF MessageInv, Control
<1>3. RequestKept'
  BY <1>1 DEF MessageInv, RequestKept
<1>4. ResponseKept'
  <2>. SUFFICES ASSUME res # NULL PROVE ResponseKept'
    BY <1>1 DEF ResponseKept
  <2>1. /\ res.type \in Types /\ Text(res.body) \in Texts /\ Begins(resText, ResponseText(res))
        /\ Rest(resWire, resOut, ResponseText(res))
    BY <1>1 DEF MessageInv, ResponseKept
  <2>2. ASSUME NEW n \in Segments(resOut, resWire, resText), resWire' = resWire \o SubSeq(resOut, 1, n),
               resOut' = SubSeq(resOut, n + 1, Len(resOut))
        PROVE  Rest(resWire', resOut', ResponseText(res))
    <3>1. resOut \in Texts
      BY <2>1 DEF Rest
    <3>2. n \in 0..Len(resOut)
      BY <3>1, SegmentsFit
    <3>. QED
      BY <2>1, <2>2, <3>2, RestMoves
  <2>3. Rest(resWire', resOut', ResponseText(res))
    <3>1. CASE resOut' = resOut /\ resWire' = resWire
      BY <2>1, <3>1
    <3>. QED
      BY <2>2, <3>1 DEF WriteResponse
  <2>4. Begins(resWire', ResponseText(res))
    BY <2>3, RestBegins
  <2>. QED
    BY <1>1, <2>1, <2>3, <2>4 DEF ResponseKept
<1>. QED
  BY <1>2, <1>3, <1>4 DEF MessageInv

\* The client reads once, or gives up (kvmessage.c:152-184).
LEMMA KeptReadResponse ==
  MessageInv /\ (ReadResponse \/ TimesOut) => MessageInv'
<1>. SUFFICES ASSUME MessageInv, ReadResponse \/ TimesOut PROVE MessageInv'
  OBVIOUS
<1>1. /\ cl = "read" /\ cl' = "gone" /\ msg' = msg /\ out' = out /\ wire' = wire /\ sv' = sv /\ reqText' = reqText
      /\ res' = res /\ resOut' = resOut /\ resWire' = resWire
      /\ resText' = << >> \/ (resWire # << >> /\ resText' = resWire)
  BY DEF ReadResponse, TimesOut, server
<1>2. Control'
  BY <1>1 DEF MessageInv, Control
<1>3. RequestKept'
  BY <1>1 DEF MessageInv, RequestKept
<1>4. ResponseKept'
  <2>. SUFFICES ASSUME res # NULL PROVE ResponseKept'
    BY <1>1 DEF ResponseKept
  <2>1. /\ res.type \in Types /\ Text(res.body) \in Texts /\ sv \in {"write", "closed"}
        /\ sv = "write" => Rest(resWire, resOut, ResponseText(res))
        /\ sv = "closed" => Begins(resWire, ResponseText(res))
    BY DEF MessageInv, ResponseKept, Control
  <2>2. ResponseText(res) \in Texts
    BY <2>1, ResponseShape
  <2>3. Begins(<< >>, ResponseText(res))
    BY <2>2, RestStarts
  <2>4. Begins(resWire, ResponseText(res))
    BY <2>1, RestBegins
  <2>5. Begins(resText', ResponseText(res))
    BY <1>1, <2>3, <2>4
  <2>. QED
    BY <1>1, <2>1, <2>5 DEF ResponseKept
<1>. QED
  BY <1>2, <1>3, <1>4 DEF MessageInv

\* Every step of the exchange keeps it.
LEMMA MessageStep ==
  MessageInv /\ [Next]_vars => MessageInv'
BY KeptStutter, KeptSendRequest, KeptWriteRequest, KeptServerReads, KeptWriteResponse, KeptReadResponse
DEF Next

\* However the two sides are scheduled, what each has read is a beginning of
\* what the other sent (kvmessage.c, libhttp.c:18-141, 259-278).
THEOREM MessageInvariance ==
  Spec => []MessageInv
BY InitMessage, MessageStep, PTL DEF Spec

\* What RequestExact says of a request that the server has read.
LEMMA InvRequestExact ==
  MessageInv => RequestExact
<1>. SUFFICES ASSUME MessageInv, sv # "read", msg # NULL, Plain(msg.key), Plain(msg.val)
              PROVE  \/ kvrequest_recieve(reqText) = msg
                     \/ kvrequest_recieve(reqText) = NULL /\ reqText # RequestText(msg)
  BY DEF RequestExact
<1>1. msg \in Requests /\ Begins(reqText, RequestText(msg))
  BY DEF MessageInv, Control, RequestKept
<1>2. msg.key \in Texts /\ msg.key # NULL /\ (msg.val = NULL \/ msg.val \in Texts)
  BY <1>1, RequestParts
<1>3. ASSUME NEW x \in Texts, x # NULL, Plain(x) PROVE IsPlain(x)
  <2>1. DOMAIN x = 1..Len(x)
    BY DEF Texts
  <2>2. \A i \in DOMAIN x : x[i] \notin {"&", " ", "\n"}
    BY <1>3 DEF Plain
  <2>. QED
    BY <2>1, <2>2 DEF IsPlain
<1>4. IsPlain(msg.key) /\ (msg.val = NULL \/ IsPlain(msg.val))
  BY <1>2, <1>3
<1>. QED
  BY <1>1, <1>4, RequestDecodes

\* However a request is cut on its way, the server decodes it to what was sent
\* or refuses it, and never refuses one that it read in full: for every path,
\* key and value without &, blanks and newlines (kvmessage.c:13-61, 134-150,
\* liburl.c:19-90, libhttp.c:18-66).
THEOREM RequestsExact ==
  Spec => []RequestExact
BY MessageInvariance, InvRequestExact, PTL

\* Whatever is sent, a request that is not refused has the operands that its
\* handler dereferences (kvmessage.c:23-46, kvserver.c:125-192).
THEOREM OperandsAlwaysPresent ==
  Spec => []OperandsPresent
<1>1. OperandsPresent
  BY OperandsHere DEF OperandsPresent
<1>. QED
  BY <1>1, PTL

\* What ResponseExact says of a response that the client has read.
LEMMA InvResponseExact ==
  MessageInv => ResponseExact
<1>. SUFFICES ASSUME MessageInv, cl = "gone", resText # << >>, res # NULL
              PROVE  LET got == kvresponse_recieve(resText) IN
                     /\ got # NULL => got.type = res.type /\ IsPrefix(got.body, Text(res.body))
                     /\ resText = ResponseText(res) => got = Response(res.type, Text(res.body))
  BY DEF ResponseExact
<1>1. res.type \in Types /\ Text(res.body) \in Texts /\ Begins(resText, ResponseText(res))
  BY DEF MessageInv, ResponseKept
<1>. QED
  BY <1>1, ResponseDecodes

\* A response is never taken for one of another type, one that is read in full
\* has its body, and one that is cut has a beginning of it at most
\* (kvmessage.c:65-100, 152-184, libhttp.c:77-141).
THEOREM ResponsesExact ==
  Spec => []ResponseExact
BY MessageInvariance, InvResponseExact, PTL

\* What NeverBothWait says of the places of the two sides.
LEMMA InvNeverBothWait ==
  MessageInv => NeverBothWait
<1>. SUFFICES ASSUME MessageInv PROVE NeverBothWait
  OBVIOUS
<1>1. TypeOK
  BY DEF MessageInv, Control, ResponseKept, Types, TypeOK
<1>2. cl = "read" /\ resWire = << >> => sv # "read" \/ ServerMayRead
  BY DEF MessageInv, Control, ServerMayRead
<1>. QED
  BY <1>1, <1>2 DEF NeverBothWait

\* No exchange needs the timeout to end: while the client waits for the
\* response, the server never waits for more of the request
\* (libhttp.c:22-24, 81-83, 259-278).
THEOREM TheyNeverBothWait ==
  Spec => []NeverBothWait
BY MessageInvariance, InvNeverBothWait, PTL
=============================================================================
