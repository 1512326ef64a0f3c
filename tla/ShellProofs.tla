----------------------------- MODULE ShellProofs -----------------------------
(***************************************************************************)
(* Theorems about Shell, for any number of children and any set of         *)
(* commands.  The invariant follows each child from fork to exec: what its *)
(* record holds is what get_toks and the child's own parsing make of the   *)
(* line that was typed.                                                    *)
(***************************************************************************)
EXTENDS Shell, TLAPS

States == {"none", "forked", "ready", "runs", "ended"}

JobRec ==
  [st : States, typed : Commands \cup {NULL}, argv : Seq(Words), redir : {"none", ">", "<", "failed"},
   bg : BOOLEAN, stopped : BOOLEAN, doomed : BOOLEAN]

\* The redirection that a child with these tokens may have set up.
MayRedirect(toks, redir) ==
  IF Redirects(toks) THEN redir \in {toks[Len(toks) - 1], "failed"} ELSE redir = "none"

\* A child's record: signals are pending only where they can be, and its
\* arguments are what the line it was forked for becomes by then.
Right(r) ==
  /\ r \in JobRec
  /\ r.stopped => r.st \in {"ready", "runs"}
  /\ r.doomed => r.stopped \/ r.st = "ended"
  /\ r.st = "forked" =>
       /\ r.typed \in Commands
       /\ r.argv = get_toks(Tokens(r.typed)) /\ r.bg = InBackground(r.argv)
  /\ r.st \in {"ready", "runs"} =>
       /\ r.typed \in Commands
       /\ \E toks \in Seq(Words) :
            /\ toks = get_toks(Tokens(r.typed))
            /\ r.argv = Argv(toks) /\ r.bg = InBackground(toks) /\ MayRedirect(toks, r.redir)

\* The shell reads, or has not begun, only while no child is in its foreground.
NoneInFront == pc \in {"start", "read"} => \A j \in Jobs : Alive(j) => job[j].bg

ShellInv ==
  /\ pc \in {"start", "read", "wait", "exited", "crashed"}
  /\ fronted \in BOOLEAN /\ (pc # "start" => fronted)
  /\ cwd \in Words
  /\ job \in [Jobs -> JobRec]
  /\ \A j \in Jobs : Right(job[j])
  /\ NoneInFront

-----------------------------------------------------------------------------
(* Lines and their tokens *)

\* The tokens of a line, cut at MAXTOKS, are words (parse.c:16-33).
LEMMA TokensType ==
  ASSUME NEW t \in Commands
  PROVE  get_toks(Tokens(t)) \in Seq(Words)
<1>1. t.argv \in Seq(Words) /\ t.redir \in {"none", ">", "<"} /\ t.bg \in BOOLEAN /\ MaxToks \in Nat
  BY ShellAssumption
<1> DEFINE re == IF t.redir = "none" THEN << >> ELSE <<t.redir, "file">>
           am == IF t.bg THEN <<"&">> ELSE << >>
<1>2. re \in Seq(Words) /\ am \in Seq(Words)
  <2>1. (t.redir # "none" => t.redir \in Words) /\ "file" \in Words /\ "&" \in Words
    BY <1>1, ShellAssumption
  <2>2. (t.redir # "none" => <<t.redir, "file">> \in Seq(Words)) /\ <<"&">> \in Seq(Words) /\ << >> \in Seq(Words)
    BY <2>1
  <2> QED
    BY <2>2, Zenon
<1>3. Tokens(t) = (t.argv \o re) \o am
  BY DEF Tokens
<1> HIDE DEF re, am
<1>4. Tokens(t) \in Seq(Words)
  BY <1>1, <1>2, <1>3
<1> QED
  BY <1>1, <1>4 DEF get_toks

\* So are a child's arguments (shell.c:158-208).
LEMMA ArgvType ==
  ASSUME NEW toks \in Seq(Words)
  PROVE  Argv(toks) \in Seq(Words)
  BY DEF Argv, Redirects, InBackground

\* A line short enough that does not both redirect and run in the background
\* gives its child exactly the arguments, place and redirection it means.
LEMMA ParsedAsMeant ==
  ASSUME NEW t \in Commands, NEW toks \in Seq(Words), toks = get_toks(Tokens(t)),
         t.argv # << >>, ~(t.bg /\ t.redir # "none"), Len(Tokens(t)) <= MaxToks
  PROVE  /\ Argv(toks) = t.argv /\ InBackground(toks) = t.bg
         /\ \A redir : MayRedirect(toks, redir) =>
              redir = t.redir \/ (redir = "failed" /\ t.redir # "none")
<1>1. /\ t.argv \in Seq(Words) /\ t.redir \in {"none", ">", "<"} /\ t.bg \in BOOLEAN
      /\ MaxToks \in Nat
  BY ShellAssumption
<1>2. \A i \in 1..Len(t.argv) : t.argv[i] \notin {"&", ">", "<"}
  BY <1>1, WordsAssumption
<1> DEFINE n == Len(t.argv)
<1>3. n \in Nat /\ n > 0
  BY <1>1
<1>w. (t.redir # "none" => t.redir \in Words) /\ "file" \in Words /\ "&" \in Words
  BY <1>1, ShellAssumption
<1>b. InBackground(toks) \in BOOLEAN
  BY DEF InBackground
<1>4. CASE t.redir = "none" /\ ~t.bg
  <2>1. Tokens(t) = t.argv
    BY <1>1, <1>4 DEF Tokens
  <2>2. toks = t.argv
    BY <1>1, <2>1 DEF get_toks
  <2>3. toks[n] # "&" /\ (n > 2 => toks[n - 1] \notin {">", "<"})
    BY <1>2, <1>3, <2>2
  <2>4. ~InBackground(toks) /\ ~Redirects(toks)
    BY <2>2, <2>3 DEF InBackground, Redirects
  <2>5. Argv(toks) = t.argv
    BY <1>1, <2>2, <2>4 DEF Argv
  <2> QED
    BY <1>1, <1>b, <1>4, <2>4, <2>5, Zenon DEF MayRedirect
<1>5. CASE t.redir # "none" /\ ~t.bg
  <2>1. Tokens(t) = t.argv \o <<t.redir, "file">>
    BY <1>1, <1>5 DEF Tokens
  <2> DEFINE u == t.argv \o <<t.redir, "file">>
  <2>2. u \in Seq(Words) /\ Len(u) = n + 2 /\ u[n + 1] = t.redir /\ u[n + 2] = "file"
    <3>1. <<t.redir, "file">> \in Seq(Words)
      BY <1>w, <1>5
    <3> QED
      BY <1>1, <1>3, <3>1
  <2>3. toks = u
    BY <1>1, <2>1, <2>2 DEF get_toks
  <2>4. SubSeq(u, 1, n) = t.argv
    BY <1>1, <1>3
  <2> HIDE DEF u
  <2>5. ~InBackground(toks)
    BY <1>3, <2>2, <2>3 DEF InBackground
  <2>6. Redirects(toks) /\ toks[Len(toks) - 1] = t.redir
    BY <1>1, <1>3, <1>5, <2>2, <2>3 DEF Redirects
  <2>7. Len(toks) - 2 = n
    BY <1>3, <2>2, <2>3
  <2>8. Argv(toks) = t.argv
    BY <2>3, <2>4, <2>6, <2>7 DEF Argv
  <2> QED
    BY <1>1, <1>b, <1>5, <2>5, <2>6, <2>8, Zenon DEF MayRedirect
<1>6. CASE t.redir = "none" /\ t.bg
  <2>1. Tokens(t) = t.argv \o <<"&">>
    BY <1>1, <1>6 DEF Tokens
  <2> DEFINE u == t.argv \o <<"&">>
  <2>2. u \in Seq(Words) /\ Len(u) = n + 1 /\ u[n] = t.argv[n] /\ u[n + 1] = "&"
    <3>1. <<"&">> \in Seq(Words)
      BY <1>w
    <3> QED
      BY <1>1, <1>3, <3>1
  <2>3. toks = u
    BY <1>1, <2>1, <2>2 DEF get_toks
  <2>4. SubSeq(u, 1, n) = t.argv
    BY <1>1, <1>3
  <2> HIDE DEF u
  <2>5. InBackground(toks)
    BY <1>3, <2>2, <2>3 DEF InBackground
  <2>6. Len(toks) - 1 = n
    BY <1>3, <2>2, <2>3
  <2>7. ~Redirects(toks)
    BY <1>2, <1>3, <2>2, <2>3, <2>6 DEF Redirects
  <2>8. Argv(toks) = t.argv
    BY <2>3, <2>4, <2>5, <2>6, <2>7 DEF Argv
  <2> QED
    BY <1>1, <1>b, <1>6, <2>5, <2>7, <2>8, Zenon DEF MayRedirect
<1> QED
  BY <1>1, <1>4, <1>5, <1>6

-----------------------------------------------------------------------------
(* A child's record, step by step *)

\* A child that ends, by itself or by a signal.
LEMMA EndedRight ==
  ASSUME NEW r, Right(r)
  PROVE  /\ Right([r EXCEPT !.st = "ended", !.stopped = FALSE])
         /\ ~r.stopped => Right([r EXCEPT !.st = "ended"])
  BY DEF Right, JobRec, States

\* ^C and ^Z on a child that takes signals, and SIGCONT.
LEMMA SignalledRight ==
  ASSUME NEW r, Right(r)
  PROVE  /\ r.stopped => Right([r EXCEPT !.doomed = TRUE])
         /\ r.st \in {"ready", "runs"} => Right([r EXCEPT !.stopped = TRUE])
         /\ ~(r.st \in {"forked", "ready", "runs"} /\ r.doomed) => Right([r EXCEPT !.stopped = FALSE])
  BY DEF Right, JobRec, States

\* fork: the child starts with the tokens of the line (shell.c:160-176).
LEMMA ForkedRight ==
  ASSUME NEW r, Right(r), r.st = "none", NEW t \in Commands, NEW toks, toks = get_toks(Tokens(t))
  PROVE  Right([r EXCEPT !.st = "forked", !.typed = t, !.bg = InBackground(toks), !.argv = toks])
<1>1. toks \in Seq(Words)
  BY TokensType
<1>2. InBackground(toks) \in BOOLEAN
  BY DEF InBackground
<1> DEFINE b == InBackground(toks)
           s == [r EXCEPT !.st = "forked", !.typed = t, !.bg = b, !.argv = toks]
<1>3. s.st = "forked" /\ s.typed = t /\ s.bg = b /\ s.argv = toks /\ s.stopped = r.stopped /\ s.doomed = r.doomed
  BY DEF Right, JobRec
<1>4. s \in JobRec
  <2> HIDE DEF b
  <2> QED
    BY <1>1, <1>2 DEF Right, JobRec, States, b
<1>5. ~r.stopped /\ ~r.doomed
  BY DEF Right
<1> HIDE DEF s
<1>6. Right(s)
  BY <1>3, <1>4, <1>5 DEF Right
<1> QED
  BY <1>6 DEF s

\* The child parses the redirection and cuts its arguments (shell.c:178-208).
LEMMA SetUpRight ==
  ASSUME NEW r, Right(r), r.st = "forked", NEW redir, MayRedirect(r.argv, redir)
  PROVE  Right([r EXCEPT !.st = "ready", !.argv = Argv(r.argv), !.redir = redir])
<1>1. r.argv \in Seq(Words) /\ Argv(r.argv) \in Seq(Words)
  BY ArgvType DEF Right, JobRec
<1>2. redir \in {"none", ">", "<", "failed"}
  BY DEF MayRedirect, Redirects
<1> DEFINE a == Argv(r.argv)
           s == [r EXCEPT !.st = "ready", !.argv = a, !.redir = redir]
<1>3. /\ s.st = "ready" /\ s.typed = r.typed /\ s.bg = r.bg /\ s.argv = a /\ s.redir = redir
      /\ s.stopped = r.stopped /\ s.doomed = r.doomed
  BY DEF Right, JobRec
<1>4. s \in JobRec
  <2> HIDE DEF a
  <2> QED
    BY <1>1, <1>2 DEF Right, JobRec, States, a
<1>5. ~r.stopped /\ ~r.doomed /\ r.typed \in Commands
      /\ r.argv = get_toks(Tokens(r.typed)) /\ r.bg = InBackground(r.argv)
  BY DEF Right
<1> HIDE DEF s
<1>6. Right(s)
  BY <1>1, <1>3, <1>4, <1>5 DEF Right
<1> QED
  BY <1>6 DEF s

\* execv succeeds (shell.c:209-229).
LEMMA ExecRight ==
  ASSUME NEW r, Right(r), r.st = "ready"
  PROVE  Right([r EXCEPT !.st = "runs"])
  BY DEF Right, JobRec, States

-----------------------------------------------------------------------------
(* The invariant *)

\* The invariant is about the records of children that exist.
LEMMA JobFacts ==
  ASSUME ShellInv, NEW j \in Jobs
  PROVE  job[j] \in JobRec /\ Right(job[j])
  BY DEF ShellInv

\* The shell starts without children.
LEMMA ShellInitInv == Init => ShellInv
<1> SUFFICES ASSUME Init PROVE ShellInv
  OBVIOUS
<1>1. Right(NoJob)
  BY DEF Right, JobRec, States, NoJob
<1>2. \A j \in Jobs : job[j] = NoJob /\ ~Alive(j)
  BY DEF Init, Alive, NoJob
<1>3. job \in [Jobs -> JobRec]
  BY <1>1 DEF Init, Right
<1>4. cwd \in Words
  BY ShellAssumption DEF Init
<1>5. \A j \in Jobs : Right(job[j])
  BY <1>1, <1>2, Zenon
<1> QED
  BY <1>2, <1>3, <1>4, <1>5 DEF Init, ShellInv, NoneInFront

\* A step that changes records one by one, to right ones, keeps the invariant
\* when none of them comes to life in the foreground.
LEMMA JobsChange ==
  ASSUME ShellInv, UNCHANGED <<pc, fronted, cwd>>, DOMAIN job' = Jobs, job' = [j \in Jobs |-> job'[j]],
         \A j \in Jobs : Right(job'[j]),
         \A j \in Jobs : /\ job'[j].bg = job[j].bg
                         /\ job'[j].st \in {"forked", "ready", "runs"} => Alive(j)
  PROVE  ShellInv'
<1>1. job' \in [Jobs -> JobRec]
  BY DEF Right
<1>2. NoneInFront'
  BY DEF ShellInv, NoneInFront, Alive
<1> QED
  BY <1>1, <1>2 DEF ShellInv

\* The shell's own steps that leave the children alone.
LEMMA ShellKeeps ==
  ASSUME ShellInv, Startup \/ BroughtForward \/ EndOfInput \/ Wait
  PROVE  ShellInv'
<1>1. UNCHANGED <<cwd, job>>
  BY DEF Startup, BroughtForward, EndOfInput, Wait
<1>2. pc' \in {"start", "read", "wait", "exited", "crashed"} /\ fronted' \in BOOLEAN /\ (pc' # "start" => fronted')
  BY DEF ShellInv, Startup, BroughtForward, EndOfInput, Wait
<1>3. NoneInFront'
  <2>1. CASE Wait
    BY <2>1, <1>1 DEF Wait, NoneInFront, Alive
  <2>2. CASE Startup \/ BroughtForward \/ EndOfInput
    BY <2>2, <1>1 DEF ShellInv, Startup, BroughtForward, EndOfInput, NoneInFront, Alive
  <2> QED
    BY <2>1, <2>2
<1> QED
  BY <1>1, <1>2, <1>3 DEF ShellInv

\* A line is read and obeyed (shell.c:145-239).
LEMMA ReadLineKeeps ==
  ASSUME ShellInv, ReadLine
  PROVE  ShellInv'
<1>1. PICK t \in Commands, toks \in Seq(Words) :
        /\ toks = get_toks(Tokens(t))
        /\ Builtin(toks) \/ Launch(t, toks) \/ Overrun(toks)
  BY TokensType DEF ReadLine
<1>2. pc = "read" /\ fronted /\ fronted' = fronted
  BY DEF ReadLine, ShellInv
<1>3. CASE Builtin(toks)
  <2>1. cwd' \in Words
    <3>1. CASE UNCHANGED cwd
      BY <3>1 DEF ShellInv
    <3>2. CASE Len(toks) > 1 /\ cwd' = toks[2]
      <4>1. 2 \in 1..Len(toks)
        BY <1>1, <3>2
      <4> QED
        BY <1>1, <3>2, <4>1
    <3> QED
      BY <1>3, <3>1, <3>2 DEF Builtin
  <2>2. UNCHANGED job /\ pc' \in {"read", "exited"}
    BY <1>3 DEF Builtin
  <2>3. NoneInFront'
    BY <1>2, <2>2 DEF ShellInv, NoneInFront, Alive
  <2> QED
    BY <1>2, <2>1, <2>2, <2>3 DEF ShellInv
<1>4. CASE Overrun(toks)
  <2>1. UNCHANGED <<cwd, job>> /\ pc' = "crashed"
    BY <1>4 DEF Overrun
  <2> QED
    BY <1>2, <2>1 DEF ShellInv, NoneInFront
<1>5. CASE Launch(t, toks)
  <2>1. UNCHANGED cwd /\ pc' = IF InBackground(toks) THEN "read" ELSE "wait"
    BY <1>5 DEF Launch
  <2>2. CASE UNCHANGED job
    <3>1. NoneInFront'
      BY <1>2, <2>2 DEF ShellInv, NoneInFront, Alive
    <3> QED
      BY <1>2, <2>1, <2>2, <3>1 DEF ShellInv
  <2>3. ASSUME NEW j \in Jobs, job[j].st = "none",
               job' = [job EXCEPT ![j].st = "forked", ![j].typed = t, ![j].bg = InBackground(toks),
                                  ![j].argv = toks]
        PROVE  ShellInv'
    <3> DEFINE b == InBackground(toks)
    <3>1. /\ job'[j] = [job[j] EXCEPT !.st = "forked", !.typed = t, !.bg = b, !.argv = toks]
          /\ job'[j].bg = b
          /\ \A k \in Jobs \ {j} : job'[k] = job[k]
          /\ job' = [k \in Jobs |-> job'[k]]
      BY <2>3, JobFacts DEF ShellInv, JobRec
    <3>2. Right(job'[j])
      BY <1>1, <2>3, <3>1, JobFacts, ForkedRight
    <3>3. \A k \in Jobs : Right(job'[k])
      BY <3>1, <3>2, JobFacts
    <3>4. job' \in [Jobs -> JobRec]
      BY <3>1, <3>3 DEF Right
    <3>5. NoneInFront'
      <4> SUFFICES ASSUME pc' = "read", NEW k \in Jobs, Alive(k)' PROVE job'[k].bg
        BY <2>1 DEF NoneInFront
      <4>1. b
        BY <2>1
      <4>2. CASE k = j
        BY <3>1, <4>1, <4>2
      <4>3. CASE k # j
        BY <1>2, <3>1, <4>3 DEF ShellInv, NoneInFront, Alive
      <4> QED
        BY <4>2, <4>3
    <3> QED
      BY <1>2, <2>1, <3>3, <3>4, <3>5 DEF ShellInv
  <2> QED
    BY <1>5, <2>2, <2>3 DEF Launch
<1> QED
  BY <1>1, <1>3, <1>4, <1>5

\* The terminal's signals (shell.c:178-183).
LEMMA SignalsKeep ==
  ASSUME ShellInv, CtrlC \/ CtrlZ
  PROVE  ShellInv'
<1>1. UNCHANGED <<pc, fronted, cwd>>
  BY DEF CtrlC, CtrlZ, Terminal
<1>2. job' = [j \in Jobs |-> job'[j]] /\ DOMAIN job' = Jobs
  BY DEF CtrlC, CtrlZ, Terminal
<1>3. ASSUME NEW j \in Jobs
      PROVE  /\ Right(job'[j]) /\ job'[j].bg = job[j].bg
             /\ job'[j].st \in {"forked", "ready", "runs"} => Alive(j)
  <2>1. job[j] \in JobRec /\ Right(job[j])
    BY JobFacts
  <2>2. CASE CtrlC
    <3>1. CASE Heeds(j) /\ job[j].stopped
      <4>1. job'[j] = [job[j] EXCEPT !.doomed = TRUE]
        BY <2>2, <3>1 DEF CtrlC, Terminal
      <4> QED
        BY <2>1, <3>1, <4>1, SignalledRight DEF JobRec, Alive
    <3>2. CASE Heeds(j) /\ ~job[j].stopped
      <4>1. job'[j] = [job[j] EXCEPT !.st = "ended"]
        BY <2>2, <3>2 DEF CtrlC, Terminal
      <4> QED
        <5>1. Right(job'[j])
          BY <2>1, <3>2, <4>1, EndedRight
        <5> QED
          BY <2>1, <4>1, <5>1 DEF JobRec
    <3>3. CASE ~Heeds(j)
      <4>1. job'[j] = job[j]
        BY <2>2, <3>3 DEF CtrlC, Terminal
      <4> QED
        BY <2>1, <4>1 DEF Alive
    <3> QED
      BY <3>1, <3>2, <3>3
  <2>3. CASE CtrlZ
    <3>1. CASE Heeds(j)
      <4>1. job'[j] = [job[j] EXCEPT !.stopped = TRUE]
        BY <2>3, <3>1 DEF CtrlZ, Terminal
      <4> QED
        <5>1. Right(job'[j])
          BY <2>1, <3>1, <4>1, SignalledRight DEF Heeds
        <5> QED
          BY <2>1, <3>1, <4>1, <5>1 DEF JobRec, Alive, Heeds
    <3>2. CASE ~Heeds(j)
      <4>1. job'[j] = job[j]
        BY <2>3, <3>2 DEF CtrlZ, Terminal
      <4> QED
        BY <2>1, <4>1 DEF Alive
    <3> QED
      BY <3>1, <3>2
  <2> QED
    BY <2>2, <2>3
<1> QED
  BY <1>1, <1>2, <1>3, JobsChange

\* A child finds its program or not, and ends (shell.c:209-229).
LEMMA ExecEndKeep ==
  ASSUME ShellInv, NEW j \in Jobs, Exec(j) \/ End(j)
  PROVE  ShellInv'
<1>1. UNCHANGED <<pc, fronted, cwd>>
  BY DEF Exec, End
<1>2. PICK s \in {"runs", "ended"} : job' = [job EXCEPT ![j].st = s] /\ (s = "runs" => job[j].st = "ready")
  BY DEF Exec, End
<1>3. ~job[j].stopped /\ Alive(j)
  BY DEF Exec, End, CanRun
<1>4. /\ job'[j] = [job[j] EXCEPT !.st = s]
      /\ \A k \in Jobs \ {j} : job'[k] = job[k]
      /\ job' = [k \in Jobs |-> job'[k]] /\ DOMAIN job' = Jobs
  BY <1>2 DEF ShellInv
<1>5. Right(job'[j]) /\ job'[j].bg = job[j].bg
  <2>1. job[j] \in JobRec /\ Right(job[j])
    BY JobFacts
  <2> QED
    BY <1>2, <1>3, <1>4, <2>1, EndedRight, ExecRight DEF JobRec
<1>6. ASSUME NEW k \in Jobs
      PROVE  /\ Right(job'[k]) /\ job'[k].bg = job[k].bg
             /\ job'[k].st \in {"forked", "ready", "runs"} => Alive(k)
  <2>1. CASE k = j
    BY <1>3, <1>5, <2>1
  <2>2. CASE k # j
    BY <1>4, <2>2, JobFacts DEF Alive
  <2> QED
    BY <2>1, <2>2
<1> QED
  BY <1>1, <1>4, <1>6, JobsChange

\* A child sets itself up and, in the background, continues its group
\* (shell.c:178-208).
LEMMA SetUpKeeps ==
  ASSUME ShellInv, NEW j \in Jobs, SetUp(j)
  PROVE  ShellInv'
<1>1. UNCHANGED <<pc, fronted, cwd>> /\ job[j].st = "forked"
  BY DEF SetUp
<1> DEFINE toks == job[j].argv
<1>2. PICK redir :
        /\ MayRedirect(toks, redir)
        /\ LET mine == [job EXCEPT ![j].st = "ready", ![j].argv = Argv(toks), ![j].redir = redir]
           IN  job' = IF job[j].bg THEN Continued(mine) ELSE mine
  <2>1. PICK ok \in BOOLEAN :
          LET mine == [job EXCEPT ![j].st = "ready", ![j].argv = Argv(toks),
                               ![j].redir = CASE ~Redirects(toks) -> "none"
                                              [] Redirects(toks) /\ ~ok -> "failed"
                                              [] OTHER -> toks[Len(toks) - 1]]
          IN  job' = IF job[j].bg THEN Continued(mine) ELSE mine
    BY Zenon DEF SetUp
  <2> DEFINE re == CASE ~Redirects(toks) -> "none"
                     [] Redirects(toks) /\ ~ok -> "failed"
                     [] OTHER -> toks[Len(toks) - 1]
  <2>2. MayRedirect(toks, re)
    BY DEF MayRedirect
  <2>3. LET mine == [job EXCEPT ![j].st = "ready", ![j].argv = Argv(toks), ![j].redir = re]
        IN  job' = IF job[j].bg THEN Continued(mine) ELSE mine
    BY <2>1, Zenon
  <2> HIDE DEF re
  <2> QED
    BY <2>2, <2>3, Zenon
<1> DEFINE mine == [job EXCEPT ![j].st = "ready", ![j].argv = Argv(toks), ![j].redir = redir]
<1>3. /\ mine[j] = [job[j] EXCEPT !.st = "ready", !.argv = Argv(toks), !.redir = redir]
      /\ \A k \in Jobs \ {j} : mine[k] = job[k]
      /\ mine = [k \in Jobs |-> mine[k]] /\ DOMAIN mine = Jobs
  BY DEF ShellInv
<1>4. Right(mine[j])
  BY <1>1, <1>2, <1>3, JobFacts, SetUpRight
<1>5. mine[j].st = "ready" /\ mine[j].bg = job[j].bg /\ ~mine[j].doomed
  BY <1>1, <1>3, JobFacts DEF JobRec, Right
<1>6. ASSUME NEW k \in Jobs
      PROVE  Right(mine[k]) /\ mine[k].bg = job[k].bg /\ (mine[k].st \in {"forked", "ready", "runs"} <=> Alive(k))
  <2>1. CASE k = j
    BY <1>1, <1>4, <1>5, <2>1 DEF Alive
  <2>2. CASE k # j
    BY <1>3, <2>2, JobFacts DEF Alive
  <2> QED
    BY <2>1, <2>2
<1>7. job' = IF job[j].bg THEN Continued(mine) ELSE mine
  BY <1>2, Zenon
<1> HIDE DEF mine
<1>8. job' = [k \in Jobs |-> job'[k]] /\ DOMAIN job' = Jobs
  BY <1>3, <1>7 DEF Continued
<1>9. ASSUME NEW k \in Jobs
      PROVE  /\ Right(job'[k]) /\ job'[k].bg = job[k].bg
             /\ job'[k].st \in {"forked", "ready", "runs"} => Alive(k)
  <2>1. CASE ~job[j].bg
    BY <1>6, <1>7, <2>1
  <2>2. CASE job[j].bg /\ Alive(k) /\ mine[k].doomed
    <3>1. job'[k] = [mine[k] EXCEPT !.st = "ended", !.stopped = FALSE]
      BY <1>7, <2>2 DEF Continued
    <3>2. Right(mine[k])
      BY <1>6
    <3>3. Right(job'[k])
      BY <3>1, <3>2, EndedRight
    <3> QED
      BY <1>6, <3>1, <3>2, <3>3 DEF Right, JobRec
  <2>3. CASE job[j].bg /\ ~(Alive(k) /\ mine[k].doomed)
    <3>1. job'[k] = [mine[k] EXCEPT !.stopped = FALSE]
      BY <1>7, <2>3 DEF Continued
    <3>2. Right(job'[k])
      <4>1. Right(mine[k]) /\ ~(mine[k].st \in {"forked", "ready", "runs"} /\ mine[k].doomed)
        BY <1>6, <2>3
      <4> QED
        BY <3>1, <4>1, SignalledRight
    <3> QED
      BY <1>6, <3>1, <3>2 DEF Right, JobRec
  <2> QED
    BY <2>1, <2>2, <2>3
<1> QED
  BY <1>1, <1>8, <1>9, JobsChange

\* Every step of the shell, its children and its user keeps the invariant.
LEMMA ShellNextInv == ShellInv /\ Next => ShellInv'
<1> SUFFICES ASSUME ShellInv, Next PROVE ShellInv'
  OBVIOUS
<1>1. CASE Startup \/ BroughtForward \/ EndOfInput \/ Wait
  BY <1>1, ShellKeeps
<1>2. CASE ReadLine
  BY <1>2, ReadLineKeeps
<1>3. CASE CtrlC \/ CtrlZ
  BY <1>3, SignalsKeep
<1>4. ASSUME NEW j \in Jobs, ChildStep(j) \/ End(j) PROVE ShellInv'
  BY <1>4, SetUpKeeps, ExecEndKeep DEF ChildStep
<1> QED
  BY <1>1, <1>2, <1>3, <1>4 DEF Next

\* So does a step that changes nothing.
LEMMA ShellStutters == ShellInv /\ UNCHANGED vars => ShellInv'
  BY DEF vars, ShellInv, NoneInFront, Alive

\* The inductive invariant: every child's record is what its line made of it,
\* and the shell reads only when nothing is in its foreground.
THEOREM ShellInvariant == Spec => []ShellInv
<1>1. Init => ShellInv
  BY ShellInitInv
<1>2. ShellInv /\ [Next]_vars => ShellInv'
  BY ShellNextInv, ShellStutters
<1> QED
  BY <1>1, <1>2, PTL DEF Spec

\* The types; children are stopped only once they have restored their signals,
\* and the loop runs only in the foreground group (shell.c:113-132, 178-183).
THEOREM ShellTypes == Spec => []TypeOK
<1>1. ShellInv => TypeOK
  BY DEF ShellInv, TypeOK, Right, JobRec, States, Heeds
<1> QED
  BY <1>1, ShellInvariant, PTL

\* The shell reads the next line only when its foreground command is over,
\* whatever background children, signals and failed forks there were
\* (shell.c:232-236).
THEOREM ForegroundStaysFirst == Spec => []ForegroundFirst
<1>1. ShellInv => ForegroundFirst
  BY DEF ShellInv, NoneInFront, ForegroundFirst
<1> QED
  BY <1>1, ShellInvariant, PTL

\* Every program runs with the arguments, redirection and place that were
\* typed, for every set of commands and every token limit (shell.c:158-208).
THEOREM AlwaysLaunchedAsTyped == Spec => []LaunchedAsTyped
<1>1. ShellInv => LaunchedAsTyped
  <2> SUFFICES ASSUME ShellInv, NEW j \in Jobs, NEW t, t = job[j].typed,
                      job[j].st \in {"ready", "runs"}, t.argv # << >>, ~(t.bg /\ t.redir # "none"),
                      Len(Tokens(t)) <= MaxToks
               PROVE  /\ job[j].argv = t.argv /\ job[j].bg = t.bg
                      /\ job[j].redir = t.redir \/ (job[j].redir = "failed" /\ t.redir # "none")
    BY DEF LaunchedAsTyped
  <2>1. t \in Commands
    BY JobFacts DEF Right
  <2>2. PICK toks \in Seq(Words) :
          /\ toks = get_toks(Tokens(t))
          /\ job[j].argv = Argv(toks) /\ job[j].bg = InBackground(toks) /\ MayRedirect(toks, job[j].redir)
    BY JobFacts DEF Right
  <2> QED
    BY <2>1, <2>2, ParsedAsMeant
<1> QED
  BY <1>1, ShellInvariant, PTL

=============================================================================
