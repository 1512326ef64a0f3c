-------------------------------- MODULE Shell --------------------------------
(***************************************************************************)
(* The shell of hw1: the read loop (shell.c), the tokens of a line         *)
(* (parse.c) and the children it starts, with the signals of the terminal. *)
(*                                                                         *)
(* Children stay in the shell's process group, so ^C and ^Z reach all of   *)
(* them; the shell ignores both.  It ignores SIGCHLD too: children leave   *)
(* no zombie, and wait returns only when none of them is left.  The user   *)
(* types structured commands (what they mean is thus known); the shell     *)
(* sees their tokens.                                                      *)
(***************************************************************************)
EXTENDS Naturals, Sequences, FiniteSets

CONSTANTS
  Jobs,      \* children, in all: a bound
  Words,     \* what a token or a directory's name can be
  Commands,  \* what the user types: records of argv, redir and bg
  Programs,  \* names that some directory of PATH has
  MaxToks,   \* MAXTOKS of parse.h
  NULL

ASSUME ShellAssumption ==
  /\ \A t \in Commands : /\ t.argv \in Seq(Words)
                         /\ t.redir \in {"none", ">", "<"} /\ t.bg \in BOOLEAN
  /\ {"file", "&", ">", "<", "home"} \subseteq Words
  /\ MaxToks \in Nat /\ NULL \notin Jobs

\* There is no quoting: a word that is an operator is never an argument.
ASSUME WordsAssumption ==
  \A t \in Commands : \A i \in DOMAIN t.argv : t.argv[i] \notin {"&", ">", "<"}

VARIABLES
  pc,        \* where the shell is
  fronted,   \* the terminal's foreground group is the shell's
  cwd,       \* the shell's directory
  job        \* the child processes

vars == <<pc, fronted, cwd, job>>

-----------------------------------------------------------------------------
(* The line *)

Tokens(t) ==
  t.argv \o (IF t.redir = "none" THEN << >> ELSE <<t.redir, "file">>)
         \o (IF t.bg THEN <<"&">> ELSE << >>)

\* Tokens beyond the array are dropped.
get_toks(toks) == SubSeq(toks, 1, IF Len(toks) < MaxToks THEN Len(toks) ELSE MaxToks)

Builtins == {"?", "quit", "pwd", "cd"}

lookup(toks) == IF toks # << >> /\ toks[1] \in Builtins THEN toks[1] ELSE "none"

InBackground(toks) == Len(toks) >= 2 /\ toks[Len(toks)] = "&"

Redirects(toks) == Len(toks) > 2 /\ toks[Len(toks) - 1] \in {">", "<"}

\* Mutation: the redirection is not cut off.
Argv_KeepsOperator(toks) ==
  IF InBackground(toks) THEN SubSeq(toks, 1, Len(toks) - 1) ELSE toks

\* The arguments end where a token was replaced by NULL.
Argv(toks) ==
  SubSeq(toks, 1, CASE Redirects(toks) -> Len(toks) - 2
                    [] ~Redirects(toks) /\ InBackground(toks) -> Len(toks) - 1
                    [] OTHER -> Len(toks))

-----------------------------------------------------------------------------
Alive(j) == job[j].st \in {"forked", "ready", "runs"}
NoJob == [st |-> "none", typed |-> NULL, argv |-> << >>, redir |-> "none", bg |-> FALSE,
          stopped |-> FALSE, doomed |-> FALSE]

Init ==
  /\ pc = "start"
  /\ fronted \in BOOLEAN
  /\ cwd = "home"
  /\ job = [j \in Jobs |-> NoJob]

\* Mutation: the terminal is taken without waiting for it.
Startup_AtOnce ==
  /\ pc = "start"
  /\ pc' = "read"
  /\ UNCHANGED <<fronted, cwd, job>>

\* init_shell: a shell started in the background stops itself until it is
\* brought forward; the read loop begins with the terminal's signals ignored.
Startup ==
  /\ pc = "start" /\ fronted
  /\ pc' = "read"
  /\ UNCHANGED <<fronted, cwd, job>>

BroughtForward ==
  /\ ~fronted
  /\ fronted' = TRUE
  /\ UNCHANGED <<pc, cwd, job>>

\* pwd and ? only print; a cd that fails is only reported.
Builtin(toks) ==
  /\ lookup(toks) # "none"
  /\ pc' = IF lookup(toks) = "quit" THEN "exited" ELSE "read"
  /\ \/ UNCHANGED cwd
     \/ lookup(toks) = "cd" /\ Len(toks) > 1 /\ cwd' = toks[2]
  /\ UNCHANGED job

\* fork, or its failure; the shell waits unless the line ends in &.
Launch(t, toks) ==
  /\ lookup(toks) = "none"
  /\ \/ \E j \in Jobs :
          /\ job[j].st = "none"
          /\ job' = [job EXCEPT ![j].st = "forked", ![j].typed = t, ![j].bg = InBackground(toks),
                                ![j].argv = toks]
     \/ UNCHANGED job
  /\ pc' = IF InBackground(toks) THEN "read" ELSE "wait"
  /\ UNCHANGED cwd

\* A full token array has no NULL at its end: the count of line 161 runs past it.
Overrun(toks) ==
  /\ lookup(toks) = "none" /\ Len(toks) = MaxToks
  /\ pc' = "crashed"
  /\ UNCHANGED <<cwd, job>>

ReadLine ==
  /\ pc = "read"
  /\ \E t \in Commands :
       LET toks == get_toks(Tokens(t)) IN Builtin(toks) \/ Launch(t, toks) \/ Overrun(toks)
  /\ UNCHANGED fronted

EndOfInput ==
  /\ pc = "read"
  /\ pc' = "exited"
  /\ UNCHANGED <<fronted, cwd, job>>

\* Mutation: wait returns for any child that has ended, a background one too.
Wait_AnyChild ==
  /\ pc = "wait" /\ ((\E j \in Jobs : job[j].st = "ended") \/ \A j \in Jobs : ~Alive(j))
  /\ pc' = "read"
  /\ UNCHANGED <<fronted, cwd, job>>

\* Mutation: a wait that fails is called again.
Wait_Retries ==
  /\ pc = "wait" /\ \A j \in Jobs : ~Alive(j)
  /\ UNCHANGED vars

\* With SIGCHLD ignored wait blocks until the last child has gone, then fails.
Wait ==
  /\ pc = "wait" /\ \A j \in Jobs : ~Alive(j)
  /\ pc' = "read"
  /\ UNCHANGED <<fronted, cwd, job>>

-----------------------------------------------------------------------------
(* The children *)

CanRun(j) == Alive(j) /\ ~job[j].stopped

\* SIGCONT to the process group: a signal that came while stopped is now taken.
Continued(js) ==
  [j \in Jobs |-> IF Alive(j) /\ js[j].doomed THEN [js[j] EXCEPT !.st = "ended", !.stopped = FALSE]
                  ELSE [js[j] EXCEPT !.stopped = FALSE]]

\* The child takes signals again, redirects (a file that cannot be opened goes
\* unnoticed) and, in the background, continues its whole group.
SetUp(j) ==
  /\ job[j].st = "forked"
  /\ \E ok \in BOOLEAN :
       LET toks == job[j].argv
           mine == [job EXCEPT ![j].st = "ready", ![j].argv = Argv(toks),
                               ![j].redir = CASE ~Redirects(toks) -> "none"
                                              [] Redirects(toks) /\ ~ok -> "failed"
                                              [] OTHER -> toks[Len(toks) - 1]]
       IN  job' = IF job[j].bg THEN Continued(mine) ELSE mine
  /\ UNCHANGED <<pc, fronted, cwd>>

\* execv, by name and along PATH; a child that finds no program leaves main.
Exec(j) ==
  /\ job[j].st = "ready" /\ CanRun(j)
  /\ LET found == job[j].argv # << >> /\ job[j].argv[1] \in Programs
     IN  job' = [job EXCEPT ![j].st = IF found THEN "runs" ELSE "ended"]
  /\ UNCHANGED <<pc, fronted, cwd>>

End(j) ==
  /\ job[j].st = "runs" /\ CanRun(j)
  /\ job' = [job EXCEPT ![j].st = "ended"]
  /\ UNCHANGED <<pc, fronted, cwd>>

\* ^C and ^Z: a child that has not restored its signals yet ignores them.
Terminal(js) == fronted /\ job' = js /\ UNCHANGED <<pc, fronted, cwd>>
Heeds(j) == job[j].st \in {"ready", "runs"}

CtrlC == Terminal([j \in Jobs |-> CASE Heeds(j) /\ job[j].stopped -> [job[j] EXCEPT !.doomed = TRUE]
                                    [] Heeds(j) /\ ~job[j].stopped -> [job[j] EXCEPT !.st = "ended"]
                                    [] OTHER -> job[j]])

CtrlZ == Terminal([j \in Jobs |-> IF Heeds(j) THEN [job[j] EXCEPT !.stopped = TRUE] ELSE job[j]])

-----------------------------------------------------------------------------
ChildStep(j) == SetUp(j) \/ Exec(j)

Next ==
  \/ Startup \/ BroughtForward \/ ReadLine \/ EndOfInput \/ Wait \/ CtrlC \/ CtrlZ
  \/ \E j \in Jobs : ChildStep(j) \/ End(j)

\* The shell and its children run; the user need not type and programs need
\* not end.
Spec ==
  /\ Init /\ [][Next]_vars
  /\ WF_vars(Startup \/ Wait) /\ \A j \in Jobs : WF_vars(ChildStep(j))

-----------------------------------------------------------------------------
(* Properties *)

\* The types; only children that have restored their signals can be stopped,
\* and the loop runs in the terminal's foreground group (shell.c:113-132, 178-183).
TypeOK ==
  /\ pc \in {"start", "read", "wait", "exited", "crashed"}
  /\ fronted \in BOOLEAN /\ (pc # "start" => fronted)
  /\ cwd \in Words
  /\ \A j \in Jobs : /\ job[j].st \in {"none", "forked", "ready", "runs", "ended"}
                     /\ job[j].typed \in Commands \cup {NULL}
                     /\ job[j].stopped => Heeds(j)
                     /\ job[j].doomed => job[j].stopped \/ job[j].st = "ended"

\* The shell reads the next line only when the command it ran in the
\* foreground is over, whatever background children ended meanwhile
\* (shell.c:232-236).
ForegroundFirst == pc = "read" => \A j \in Jobs : Alive(j) => job[j].bg

\* A program gets the arguments, redirection and place that were typed, for
\* every line short enough that does not both redirect and run in the
\* background (shell.c:158-208, parse.c:16-33).
LaunchedAsTyped ==
  \A j \in Jobs :
    LET t == job[j].typed IN
    /\ job[j].st \in {"ready", "runs"}
    /\ t.argv # << >> /\ ~(t.bg /\ t.redir # "none") /\ Len(Tokens(t)) <= MaxToks
    => /\ job[j].argv = t.argv /\ job[j].bg = t.bg
       /\ job[j].redir = t.redir \/ (job[j].redir = "failed" /\ t.redir # "none")

\* If programs end by themselves, the shell comes back from every wait, also
\* when fork failed or the child had gone before; only a child that ^Z has
\* stopped, and that nobody continues, keeps it waiting (shell.c:232-239).
PromptReturns ==
  (\A j \in Jobs : WF_vars(End(j))) => (pc = "wait" ~> (pc = "read" \/ \E j \in Jobs : job[j].stopped))
=============================================================================
