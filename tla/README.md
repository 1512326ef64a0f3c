# Verification of the cs162 code: key-value store, thread pool, allocator, web server, shell

This directory holds TLA+ models of the programs in this repository, the TLC
configurations that check them and TLAPS proofs about them. The largest program,
and the one with the most concurrency and failures, is the replicated key-value
store of `hw4`; the shell of `hw1`, the web server of `hw2` and the memory allocator
of `hw3` are modelled too.

## 1. The system

### Replicated key-value store (`hw4/src`)

A **leader** process accepts client requests (GET, PUT, DELETE) and registrations
of followers. It keeps the followers in a circular list sorted by ID. A key belongs
to its *primary* (the first follower whose ID is above the key's hash) and the
`redundancy - 1` followers after it. PUT and DELETE run two-phase commit over
those replicas; GET asks them one after the other.

A **follower** process logs every two-phase-commit message, keeps one pending
transaction, and stores entries in files.

| component | source | state | operations | hard part |
|---|---|---|---|---|
| follower list of the leader | `tpcleader.c` 15-133 | `followers_head`, `next`/`prev`, `follower_count`, `follower_lock` | register, get_primary, get_successor | capacity checks outside the lock; walks interleave with insertions |
| two-phase commit and GET | `tpcleader.c` 135-303 | locals of each worker thread | handle_tpc, handle_get, handle | timeouts of one second, endless retry in phase 2, several threads at once |
| KVServer | `kvserver.c` | `pending_msg/key/value` | handle_tpc, get, put, del, rebuild_state | no lock around the pending fields; crash at any step |
| TPCLog | `tpclog.c` | the files `N.log`, `nextid` | log, iterate, load | file created before it is written |
| KVStore | `kvstore.c` | one file per entry, chains of equal hash, a read-write lock | get, put, del | search and change under two different lock periods, by three workers; crash between open and write |
| work queue, socket server | `wq.c`, `socket_server.c` | the list, its size, mutex, condvar, `listening` | wq_push, wq_pop, accept loop, worker loop, server_stop | lost wakeups, stop while blocked |
| messages | `kvmessage.c`, `libhttp.c`, `liburl.c` | none | encode, decode | each side reads once, whatever TCP has delivered; operands are not escaped |

The leader talks to followers over one connection per message (`connect_to`, send,
receive, close). In both processes the accept loop queues connections and
`max_threads` workers handle them. A follower that restarts rebuilds its pending
transaction from the log and registers again, for which it needs a free leader thread.

What makes each part correct: the list stays one sorted cycle with an exact count;
both phases address the same replicas; nobody stores what was not voted for; the
replicas of a key agree when nothing is in progress; a GET returns a value that was
current while it ran; a request is answered; a restarted follower waits for the
decision it had voted on; the store is a map that survives a crash; every accepted
connection is handled once and in order.

### Other programs

* `hw3/mm_alloc.c`: malloc, realloc and free over `sbrk` with splitting and
  coalescing. Correct when blocks tile the heap and callers keep their data.
* `hw2/httpserver.c`: a parent that accepts and forks; a child per connection serves
  one file or relays bytes between its client and the proxy target. State: the
  descriptors of every process, the bytes in every buffer. Hard: blocking writes in
  both directions, ends of streams, descriptors inherited by fork, requests that
  arrive in parts. Correct when answers are whole, no byte of a relay is lost or
  doubled, and every connection comes to an end that its client sees.
* `hw1/shell.c`: a read loop that runs built-ins or forks children, with redirections
  and background jobs. State: where the shell is, its children, whether they are
  stopped. Hard: `wait` with other children about, signals of the terminal at any
  moment. Correct when the prompt comes back exactly when the foreground command is
  over and programs get what was typed.
* `hw0`, the vendored `uthash.h` and `md5.c`, the static page: not modelled.

`PROJECT.json` lists every component with its status, the source lines of every
definition, and the hazards each property is aimed at.

## 2. Modules

| module | models | composed of |
|---|---|---|
| `FollowerRing` | the leader's follower list and the walks over it | |
| `FollowerRingProofs` | theorems about `FollowerRing` | `FollowerRing` |
| `KVServer` | the followers: workers, log, pending transaction, crash, rebuild | |
| `TPCSystem` | the leader's threads, together with the followers | `KVServer` |
| `TPCSystemProofs` | theorems about `KVServer` (part I) and `TPCSystem` (part II) | `TPCSystem` |
| `WorkQueue` | accept loop, queue, workers, stop | implements `JobQueue` |
| `JobQueue` | abstract: a FIFO queue that gives each job to one worker once | |
| `KVStore` | the files and the read-write lock of a follower's store | implements `KVMap` |
| `KVMap` | abstract: a map on which calls act in one step | |
| `WorkQueueProofs`, `KVStoreProofs` | theorems about the two, the refinements among them | `WorkQueue`, `KVStore` |
| `KVMessage` | one exchange of messages: encoding, parsing, split texts | |
| `MMAlloc` | the allocator of `hw3` | |
| `MMAllocProofs` | theorems about `MMAlloc` | `MMAlloc` |
| `HttpServer` | parent, children, clients and proxy target of `hw2` | |
| `Shell` | read loop and children of `hw1`, with the terminal | |
| `KVMessageProofs`, `HttpServerProofs`, `ShellProofs` | theorems about the three | `KVMessage`, `HttpServer`, `Shell` |
| `MC...` | constants, bounds and symmetry for TLC | |

Definitions with a name of the form `X_Suffix`, introduced as "Mutation", are
deliberately wrong versions of `X`. No specification uses them: each is put in
place of `X` to confirm that the property aimed at it is then violated.

### FollowerRing

One thread step is one unlocked read or one iteration of a loop under
`follower_lock`. `next[n] = NULL` means that `n` is not listed. `RegisterRefused`
and `RegisterAdmitted` are the capacity check, `RegisterLock`, `RegisterScan`,
`RegisterCount` and `RegisterEnd` the critical section, in which the insertion and the
increment of `follower_count` are two steps that unlocked readers can run between; `PrimaryCheck`, `PrimaryLock` and `PrimaryScan`
are `tpcleader_get_primary`; `Visit`, `Successor`, `GetHit` and `GetMiss` the walks.
What followers answer is left open. `alive` becomes FALSE where the code
dereferences the NULL that `get_primary` returns for a list that is not full.

### KVServer

A worker takes a connection (`Take`), logs it (`LogOpen`, `LogWrite`), acts on it
(`ActPut`, `ActDel`, `ActCommit`, `ActAbort`, `ActGet`) and answers (`Reply`). The
assignments to the three pending fields are separate steps (`SetKey`, `SetVal`,
`ClrKey`, `ClrVal`, `ClrMsg`), because other workers can run between them.

* `kvserver_handle_tpc` copies the log descriptor, so `nextid` never advances in a
  running process and all messages of one process go to one file. That file has
  mode 0400: only the followers in `Privileged` can open it again, the others log
  the first message of each life and no other.
* A new process registers with the leader before it serves (`Restart`): in `TPCSystem`
  that takes a living leader with a free thread (`CanRegister`).
* `strayed` remembers of each follower what the code does not cope with: two workers with
  messages of transactions in hand at once (`mixed`), a message that could not be logged
  (`unlogged`), and a restart after that (`forgot`).
* The pending fields of a new process are uninitialised: `Garbage` is the choice of
  what they may read as; `Wild` is a pointer read from there.
* `saved` and `promised` are history variables for two properties.

### TPCSystem

`Send`, `Phase1`, `Phase2`, `Get` and `Done` are the steps of a leader thread. A
wait ends with an answer, a reset (the follower died) or a timeout at any time, at
most `MaxTimeouts` times. A request whose client has gone is still handled by the
follower. The list of followers is full and fixed. `agreed` and `seen` are history
variables, and so is `crossed`: whether two writes were ever in progress at once.

Each process of the code runs three workers over fields that nothing protects, and the
promises of `tpcleader.h` do not survive every schedule of them (section 6). The system is
`Orderly` up to the first of three events: two writes in progress at once, two workers of one
follower with messages of transactions in hand at once, a restart from a log with a gap. It is
`Undisturbed` up to the first of these or a crash. Neither is an assumption about the system:
every behaviour is in the model, with any number of workers and writers, and the properties
say what holds in each of them until then. What happens afterwards is what `AlwaysReplicated`
and the run `tpc_late` are about.

### WorkQueue

The list is modelled with its links: `DL_APPEND` and `DL_DELETE` are the macros of
`utlist.h`. `pthread_cond_wait` may return spuriously, at most `MaxSpurious` times. The
connections in `Silent` may keep their handler for ever: a read of a request has no
timeout, and phase 2 of the leader may not end.

### KVStore

`files[h]` maps chain positions to entries. A put is a search under the read lock,
an `fopen` that empties the file and a write; `Empty` is what a crash between the
last two leaves. A search that meets an empty file reads uninitialised memory: it
goes on, or the process dies (`FindFaults`). Any thread puts, deletes and gets. A put or
delete that acts on a position that is no longer the one its search would find (`Stale`)
does to the files what the code does, and `strayed` remembers it.

### MMAlloc

Memory is word by word, headers included, because headers that were merged away
keep their words and stale `prev` pointers lead to them. Sizes are whole words of
eight bytes, a header is four of them. The model ends where a stale `prev` makes
`combine_block` write outside free memory (`strayed`). Writes are `Over` and `Put`, plain
function definitions that the provers can expand, which the operators of the `TLC` module
are not.

### KVMessage

Texts are sequences of `Symbols`: the words of the protocol (`Words`), the characters the
parsers look for, and whatever operands are made of.
`RequestText` and `ResponseText` build them, `kvrequest_recieve` and
`kvresponse_recieve` parse what one `read` returned. A text reaches its reader in one
or two segments, cut between any two symbols (`Segments`). The client is a program of
the repository or one that sends any text of `Foreign`. `TPCSystem` and `KVServer`
use the requests and responses as records: `RequestExact` and `ResponseExact` are
what justifies that, up to the exceptions listed in section 6.

### HttpServer

`Accept`, `Fork`, `ParentCloses`, `ForkFails` and `Interrupt` are the parent. A child
starts (`Start`), then either parses its request and answers (`Parse`,
`WriteClient`, `Close`) or relays (`ConnectTarget`, `Select`, `WriteClient`,
`WriteTarget`, `Close`). `held` and `listens` say which processes have which sockets
open, because a connection ends for its client only when the last of them closes
it. Bytes are counted in units; `io[c]` says how many are where. Clients and the
target are ordinary programs: a client sends and reads as it can, the target answers a request
that it has in full, or, if it is in `Early`, one of which it has the first part; both may go
away. A request may be longer than every buffer, so that writes to the target block too.
A connection that is closed before its request was read to the end is reset, and the reset
may overtake the answer (`ResetArrives`). What becomes of
a request (`Outcomes`) includes the crashes of the error paths: a request that does
not parse, a file that cannot be opened, an unchecked `stat`, a list of a directory
that overflows, a path appended to the string of the argument.

### Shell

The user types structured commands, the shell sees their tokens. `ReadLine` runs a
built-in, forks (`Launch`) or overruns a full token array (`Overrun`); a child restores its
signals and redirects (`SetUp`), executes (`Exec`) and ends. Children stay in the
shell's process group (the `tcsetpgrp` and `kill` of a child are called with the 0
that fork returned to it), so ^C and ^Z reach all of them and a background child's
SIGCONT continues all of them. SIGCHLD is ignored, so `wait` returns only when no child is left.

## 3. Runs

| run | bounds | checks |
|---|---|---|
| `ring` | 2 threads, 4 followers, capacity 3, redundancy 2, 2 key hashes | `TypeOK`, `RingSorted`, `CountIsExact`, `ThreadsInPlace`, `PollsReplicas`, `PhasesAgree`, `LockReleased` |
| `follower_commit` | 1 follower, 1 worker, 2 keys (one refused), 2 values, 2 crashes, 3 log files | `CommitFinished`, violated |
| `tpc` | 2 followers with 2 workers each, 2 leader threads, 1 writer, 2 readers, 3 requests, 1 timeout | `SystemTypeOK`, `SuccessIsStored`, `ReplicasAgree`, `GetIsCurrent`, `RequestsAnswered` |
| `tpc_crash` | 2 followers with 2 workers each, one of them privileged, 1 leader thread, 2 keys with different primaries (one refused), 2 requests, 2 crashes, 1 timeout | `CommitHasOperands`, `OnlyCommittedWrites`, `PreparedRestored` |
| `tpc_late` | 2 followers with 2 workers each, 1 leader thread that writes, 1 key, 2 values, 2 requests, 1 timeout, no crash | `AlwaysReplicated`, violated |
| `wq` | 3 jobs, 2 of them silent, 2 workers, 2 spurious wakeups | `ListIsChain`, `TakesAreSafe`, `QueueIsFifo`, `AcceptedIsHandled`, `StopSettles` |
| `kvstore` | 3 colliding keys, 1 value, 2 threads that put, delete and get, 1 crash | `ChainsComplete`, `StoreIsMap` |
| `mm` | 22 words, requests of 0, 1, 2 and 6 words | `HeapTiled`, `DataKept`, `NothingElseLost` |
| `mm_twice` | the same, harmless data | `OwnedIsNotFree`, violated |
| `message` | 6 keys, 4 values, 168 foreign texts, each text in one or two segments | `RequestExact`, `OperandsPresent`, `ResponseExact`, `NeverBothWait` |
| `http` | 2 clients, buffers of 1 unit; one, which may leave, with a request of 3 units, a response of 2 and an early target; one with a request of 1 and a response of 2 | `TypeOK`, `AnswerIsWhole`, `BytesConserved`, `EndIsSeen`, `QueuedAreReset`, `ConversationsEnd` |
| `shell` | 2 children, 5 tokens a line | `TypeOK`, `ForegroundFirst`, `LaunchedAsTyped`, `PromptReturns` |

The type invariants of `WorkQueue`, `KVStore`, `MMAlloc` and `KVMessage` are conjuncts
of `ListIsChain`, `ChainsComplete`, `HeapTiled` and `NeverBothWait`.

Run one with `tlc -config MCFollowerRing.cfg MCFollowerRing`.

Why the bounds suffice:

* `ring`: four followers at capacity three let two registrations race for the last
  slot and overfill the list; two hashes reach both ways in which a search ends; two
  replicas of three followers let a walk wrap.
* `follower_commit`: a queue bound of one and three log files (`Bounded` in
  `MCKVServer`) keep the state finite.
* `tpc`: the late vote, the repeated decision and the orphaned request each need one
  timeout; the second thread's GET runs beside every step of the first thread's PUT, and
  a DELETE can follow it. One value is enough for the first run, since a follower that holds a
  value it should not have differs from one that holds none; the two values of a late PUT are in
  `tpc_late`.
* `tpc_crash`: two crashes allow a crash of a rebuilt process, or one of each
  replica; the second key is voted for and cannot be stored; one follower can reopen its log
  and the other cannot.
* `tpc`, `tpc_crash`: the code runs three workers in a follower (`main/kvfollower.c:50`). The
  properties speak of behaviours up to the moment when a second worker takes a message of a
  transaction while another has one in hand, so that a third can add only further GETs before
  it, which change nothing; the proofs are for any number. `CONSTRAINT Orderly` stops TLC
  where the properties that are checked have become true for good: `Orderly` is a
  conjunct of the premise of each safety property, its negation is an outcome of
  `RequestsAnswered`, and it is never restored. `CommitHasOperands` needs less, and the part
  that the constraint leaves out (two writers, a restart from a log with a gap) is in its
  proof.
* `tpc_late`: two workers, two requests and one timeout are the least that the violation takes.
* `kvstore`: three colliding keys are the least for which the last file of a chain
  is not the one behind the deleted one. Two threads are what it takes for a position to go
  stale, and `CONSTRAINT NotStrayed` stops where one was used. One value distinguishes a stored
  key from an absent one, and the keys distinguish the entries; the proof is for any values.
* `mm`: six words are the least that is split into two usable blocks of one word,
  and 22 words hold a split block with neighbours. In `mm` every word that callers
  store equals the free flag, the worst case for a stale `prev`. A word of a merged
  header that exceeds the heap's size is not followed further (`Bounded`).
* `wq`: two silent connections can hold both workers; the third job is then never taken,
  which `AcceptedIsHandled` allows, and with one of them a single worker must do.
* `message`: the operands contain each character that ends or separates something,
  the foreign texts every method (a prefix, none and an unknown one too), path and
  combination of missing, empty and misnamed parameters. Since each side reads once,
  a third segment would be as unread as the second.
* `http`: no request or response of more than a unit fits into a buffer of one, so that
  writes block in both directions and in the middle; the request line of two units can be
  cut. Two clients are enough for one connection to outlive or to hold up another. The wait
  that `ConversationsEnd` excepts (`EachWaits`) is reached.
* `shell`: two children are a foreground and a background one; five tokens hold a
  command with an argument and a redirection, and a sixth is dropped.

Deadlock is not checked where the system may stop: a leader that died, bounds on
requests that are used up, a server that was stopped, a heap that strayed, an
exchange that is over, clients and users that do nothing.

## 4. Fairness

* `FollowerRing`: weak fairness of the work of each thread. The lock is not assumed
  to be fair: `LockReleased` says that its holder gives it back.
* `TPCSystem`: weak fairness of leader threads and of follower workers; none for
  clients, crashes and timeouts, which are finitely many. Without a bound on
  timeouts phase 2 may retry for ever; `RequestsAnswered` shows that it does only
  then, when a follower stays down, or after a disturbance (a follower that dies of a
  repeated COMMIT).
* `WorkQueue`: weak fairness of the acceptor, of each worker and of the second half
  of `server_stop`, but none that a handler of a silent connection returns; none for clients
  or spurious wakeups. `AcceptedIsHandled` and `StopSettles` say what is left when workers
  are held: connections wait only if in the end every worker is in a handler that never returns.
* `HttpServer`: weak fairness of the parent and of each child. `ConversationsEnd`
  assumes in addition, as its premise, that the client of the connection goes on
  sending its request and reading its answer and that the target goes on reading and answering:
  without that the relay waits for ever, rightly. Nothing is assumed of other clients. Its
  one exception is a relay and an early target that write to each other with full buffers.
* `Shell`: weak fairness of the shell's own steps and of a child until it runs its
  program. `PromptReturns` has as its premise that programs that run and are not
  stopped end.
* `KVMessage` has safety properties only; `NeverBothWait` is the absence of a
  deadlock that only a timeout would end.

Each is what a scheduler gives that eventually runs every runnable thread.

## 5. Proofs

Every safety property that a passing run checks is also a theorem; so are both
refinements. A theorem holds for every value of the constants that meets the named
assumptions of its module, which TLC evaluates on every run. Check one module with `tlapm KVStoreProofs.tla`.

| module | theorems | inductive invariant |
|---|---|---|
| `FollowerRingProofs` | `TypeOK`, `RingSorted`, `CountIsExact`, `ThreadsInPlace`, `PollsReplicas`, `PhasesAgree` | `Inv`, then `PhaseInv` |
| `TPCSystemProofs`, part I | `TypeOK`, `CommitHasOperands` of the followers alone | `ServerInv`, `SingleInv` |
| `TPCSystemProofs`, part II | `SystemTypeOK`, `CommitHasOperands`, `OnlyCommittedWrites`, `PreparedRestored`, `ReplicasAgree`, `SuccessIsStored`, `GetIsCurrent` | `SystemInv`, then `TransactionInv`, then `RestoreInv`, and `StoreInv` and `GetInv` |
| `WorkQueueProofs` | `ListIsChain`, `TakesAreSafe`, `QueueIsFifo` (refinement of `JobQueue`) | `Inv` |
| `KVStoreProofs` | `ChainsComplete`, `StoreIsMap` (refinement of `KVMap`) | `StoreInv` |
| `MMAllocProofs` | `HeapTiled`, `DataKept`, `NothingElseLost` | `HeapInv` |
| `KVMessageProofs` | `RequestExact`, `OperandsPresent`, `ResponseExact`, `NeverBothWait` | `MessageInv` |
| `HttpServerProofs` | `TypeOK`, `BytesConserved`, `AnswerIsWhole` | `HttpInv` |
| `ShellProofs` | `TypeOK`, `ForegroundFirst`, `LaunchedAsTyped` | `ShellInv` |

### FollowerRing

For any finite set of followers, any threads and keys, any capacity and redundancy.
`RingAssumption`: IDs are numbers and finitely many, capacity and redundancy are
positive, NULL is none of the values.

`RingSorted` alone is not inductive: an insertion keeps the order only if the search
that led to it passed only smaller IDs (`pc = "reg_scan"` in `ThreadsInPlace`), and
only if no other thread changed the list meanwhile (the lock is held exactly in the
critical sections). `CountIsExact` needs the list to be well formed to know that a
splice adds exactly one follower, and says that the list is one ahead of the count exactly
while a thread is between the two. `SpliceLinks` says what a splice does to the links;
`InsertInside` and `InsertAtEnd` that it keeps the ring sorted at both insertion sites.

`PhasesAgree` and `PollsReplicas` are about walks that hold no lock. They start at a
full list, so one that is exactly full at the end has not changed since
(`PhaseInPlace`). That the polled followers are distinct is the fact that a chain of
successors shorter than the ring never returns to where it started, proved from the
least ID rather than by induction.

### KVServer and TPCSystem

For any followers, workers, clients, keys and values, any number of crashes and any
choice of uninitialised fields. `ServerAssumption` and `PointerAssumption` keep the
special values apart from the data; `SystemAssumption` says that no follower is twice
on the leader's list.

`ServerInv` says where every connection, worker, log entry and log file is; a part of it is
that a torn log file is one that is being written (`TornIsBeingWritten`). `SingleInv`
adds, for a follower that is not `mixed`, that the pending fields are those of the message in
hand. `SystemInv` says of each
leader thread that the message it waits for is queued, being handled, answered or
lost with its follower.

No theorem assumes how many workers or writers there are. Those on the data are about every
behaviour up to its first disturbance, which is part of the property and so of what the
runs check:

* `Orderly` for `OnlyCommittedWrites` and `PreparedRestored`. Afterwards a COMMIT reaches a
  transaction that it was not sent for: the run `tpc_late` shows it. Any number of readers is
  allowed, any number of crashes, and any number of workers that handle GETs beside a
  transaction. That order is never restored (`OrderlyBack`) is what makes `Orderly => ...`
  inductive.
* `Undisturbed` for `ReplicasAgree`, `SuccessIsStored` and `GetIsCurrent`: in addition, no
  crash. A crash between the log and the store loses a decision: the run
  `follower_commit` shows it.
* `PreparedRestored` excepts a follower that could not log one of its messages (the 0400 file),
  and `SuccessIsStored` a key in `BadKeys`, because the result of `kvserver_put_check` is
  ignored and a key that cannot be stored is voted for.

`TransactionInv` gives each replica the place in the transaction that the leader's
position implies: not yet asked, prepared (`Prepared`: voted for, and pending even after
a crash), or done. It holds through late votes and repeated decisions because the
message that the leader waits for is the last one in its follower's queue
(`AwaitedIsLast`) and nothing is in flight at replicas of no current transaction.
`RestoreInv` is for `PreparedRestored`: a follower that is between messages and has a PUT
pending has that PUT as its last log entry. A DELETE endangers it, because it is logged
before it is refused and does not touch the pending fields; it is safe because a
transaction begins only where no replica has a PUT left (`NoPut`), which in turn needs the
acknowledgements of the one before. With clients that send anything at any time the
property fails, so it is a theorem of the system and not of `KVServer`.
`StoreInv` and `GetInv` follow the values: during the second phase the replicas up to
the leader's position have the new value, the others the old one, and a GET has seen
one of the values that were current since it began.

### WorkQueue

For any finite set of connections, any workers and spurious wakeups. `Inv` joins the
chain of links to the mutex (`TakesAreSafe`) and to the place of each connection
(`JobsInOnePlace`). `ListIsChain` says that there is an order of the nodes that the
links follow; the abstract queue is the one such order, and that it is only one is
proved at the least place where two would differ. The refinement maps each step of
`WorkQueue` to one of `JobQueue` or to none.

### KVStore

For any keys, values, hash function, threads and crashes, up to the first call that acts on a
position that another thread has moved (`strayed`). `StoreInv` says that each chain
has files at 0 to n - 1 and each key at most once, and that a put has open the only file of its
key. A step that is not `Stale` acts on the position that a search would find now, although the
thread gave the lock back since its own: from there the chain stays complete.
`ImplementsMap` maps the files to a map: a put takes effect when it opens its file and
returns when it has written it, a delete at its remove (or at its search when the key is
absent), a get where its search ends. Steps that leave `strayed` true are outside of the
refinement. A crash between the open and the write, or a fault on
the emptied file, loses the key being written.

### MMAlloc

For a heap of any size at any address but NULL, callers that ask for any sizes and store
any words, and every sequence of calls up to the first free that strays
(`HeapAssumption`). The split threshold, the header and first fit are those of the code.

The properties speak of the walk along `next` (`Blocks`), which says nothing of the memory
between the blocks. `HeapInv` is stated without the walk: some set of blocks tiles the heap
(`Tiled`: each ends where its next begins or at `brk`, each but the first begins where
another ends, no two overlap, and `prev`, stale or not, is NULL or leads to room for a header
in front of the block), and every pointer of a caller leads to a block in use that holds
what was stored (`Holds`). The clause on `prev` is needed for what a free that strays may
write; the one on overlap is what keeps a write to one block away from the others
(`OthersAlone`).

`BlocksAre` ties the two together: the walk reaches the tiles and nothing else, because the
least tile that it misses would begin where a tile that it reaches ends. `FirstFit` and
`LastFacts` are what `free_block_or_nah` finds. `Merged`, `Split` and `Grown` are the three
ways in which the code changes a tiling; `TakeFacts`, `SplitFacts`, `ExtendFacts`,
`ForwardFacts` and `BackwardFacts` show that each branch of `mm_malloc` and `mm_free` is one
of them and keeps the other blocks in use. `ReallocStep` puts a malloc, a copy and a free in
a row. `Proceeds` is what every call keeps: a tiling for the new heap, and no block in use
without an owner that had one before, unless the call is a realloc to size zero.

### KVMessage

For any operands, response bodies and foreign texts over any set of symbols that has the
words of the protocol (`MessageAssumption`), any size of the URL buffer and any cut.
`MessageInv`: until the server reads, what is on the wire and what the client has left
make up the request (`Rest`), and what a side has read is a beginning of what the other
sent. The rest is about the parsers: `RequestDecodes` and `ResponseDecodes` say what they
return for every beginning of a text that the encoders build. Since `Find` and `Lookup`
are defined by least and greatest positions, no induction is needed: the lemmas give the
position of each separator in `url_encode`'s output and show that there is no other.

### HttpServer and Shell

`HttpInv` (any clients, buffer size, lengths of requests and responses, and early targets) says
where the bytes of each connection are in terms of its child's place: `BytesConserved`
and `AnswerIsWhole` are sums over those places. `ShellInv` (any commands, children and
limit of tokens) says that each child is what its line made of it. `WordsAssumption` of
`Shell`: no argument is one of the operators, since the shell has no quoting and would
take it for one.

### Only model-checked

* Liveness: `LockReleased`, `RequestsAnswered`, `AcceptedIsHandled`, `StopSettles`, `EndIsSeen`,
  `QueuedAreReset`, `ConversationsEnd`, `PromptReturns`. Fairness is out of the prover's reach.
* What the runs `follower_commit`, `tpc_late` and `mm_twice` refute: those are counterexamples.

Nothing needs induction over data: where a proof would use it, it takes the least or the
greatest place at which the claim fails (`Least` of `MMAllocProofs`, the orders of
`WorkQueueProofs`, the positions of `KVMessageProofs`).

## 6. Where the code and its documents disagree

Shown by runs:

* `follower_commit`: a logged COMMIT is lost by a crash (`kvserver.c:283` against the
  comment at `kvserver.c:231`).
* `tpc_late`: one writer and one timeout leave replicas with different values although the
  client was answered SUCCESS, because a second worker of a follower lets the PUT of an aborted
  transaction replace the pending one (`kvserver.c:141` against `tpcleader.h:12-15`).
* `mm_twice`: a free merges a block that a caller owns (`mm_alloc.c:53` against
  `mm_alloc.h:4`).

Seen while modelling, part of the models, without a run of their own:

* Two registrations that both pass the unlocked capacity check overfill the list
  (`tpcleader.c:46` against "There can never be more followers than the LEADER's
  follower_capacity", `tpcleader.c:41`); `ring` reaches these states.
* A GET before the list is full, or whose follower does not answer in time, kills
  the leader (`tpcleader.c:147`, `156`).
* A follower that registers again when the list is full is answered ERROR although
  it is listed (`tpcleader.c:46`).
* A list over capacity refuses every later PUT and DELETE (`tpcleader.c:182`).
* Two writes at once share the single pending slot of a follower, with the same outcome as
  in `tpc_late` (`kvserver.c:141-143` against `tpcleader.h:12-15`).
* A COMMIT that is sent again while the follower still handles the first one is taken by
  another worker: one clears the key between the test and the put of the other, the
  process dies of the NULL key (`kvserver.c:163-168`), and phase 2 retries for ever. Likewise
  a late PUT can be committed that was never voted for, and a GET can then return a value that
  no reader could have seen.
* All messages of a process go to one file, since `tpclog_log` advances `nextid` in a copy
  (`kvserver.c:129`, `tpclog.c:42-81`), against "The first entry has a filename of "0.log", the
  second has a filename of "1.log"" (`tpclog.h:11-14`).
* The log file is created with mode 0400 (`tpclog.c:51`): the follower of an ordinary user
  logs only the first message of each life and does not know after a restart what it had
  voted for, against `kvserver.c:121-123` and `kvserver.c:228-231`.
* A follower that restarts waits for a leader thread without a timeout (`kvserver.c:57`,
  `main/kvfollower.c:57-70`). If every leader thread is retrying phase 2 for that follower,
  neither goes on; if the leader cannot be reached the process ends. What the leader answers
  to the registration is not looked at: `kvserver_register_leader` returns 0 or 1, and its
  caller tests for a negative result.
* A refused DELETE was logged already, and is pending after a restart
  (`kvserver.c:131`).
* The result of `kvserver_put_check` is ignored: a key that cannot be stored is
  voted for (`kvserver.c:140`).
* A crash between the creation and the write of a log file leaves a file that no
  later start survives (`tpclog.c:51`).
* With two writers, `kvstore_put` and `kvstore_del` use positions that another
  thread has changed (`kvstore.c:131`, `185`), against the word "thread-safe" of
  `kvstore.h:45`; `StoreIsMap` and `ChainsComplete` speak of the time before.
* `realloc(ptr, 0)` returns NULL and frees nothing (`mm_alloc.c:166`).
* Workers that wait in `wq_pop` when the server stops never end
  (`socket_server.c:39`); connections still queued when the last worker ends are
  never answered. A client that connects and sends nothing holds its worker for ever
  (`libhttp.c:23`).
* A key or value with `&`, a blank or a newline does not survive `url_encode` and
  `url_decode` (`liburl.c:82`); a URL of more than 128 bytes, its trailing `&` and NUL included, overruns a buffer
  (`liburl.c:76-84`); every prefix of `key`, the empty one too, passes for it
  (`liburl.c:12`).
* A response whose body arrives in a second segment is taken for one with a shorter
  body: `Content-Length` is parsed and not compared (`libhttp.c:138`). A request cut
  after its path is accepted, one cut before is refused.
* `hw2`: a request line in two segments, a malformed request or an unreadable file
  kills the child (`httpserver.c:53`, `135`), against "Send a 404 Not Found response"
  (`httpserver.c:40`); a missing path is answered by whatever `st_mode` held
  (`httpserver.c:61`). A client that shuts down its sending side loses the rest of its
  response in proxy mode (`httpserver.c:246`). `index.html` is measured with `strlen`
  in a buffer without an end (`httpserver.c:102`). Paths are appended to the string of the
  argument vector (`httpserver.c:53`). The request is read once (`libhttp.c:23`): what is still
  unread when the child closes makes the kernel reset the connection, and the client may lose
  the end of its answer. The relay and a target that answers a long request before it has
  read it can wait for each other for ever, each writing into a full buffer
  (`httpserver.c:228`, `240`), and the answer of a target that closes while it is
  still written to is dropped. Children are never waited for.
* `hw1`: a foreground command returns only when all background children have ended
  too (`shell.c:127`, `235`); a child stopped by ^Z holds the shell for ever; in a
  line that redirects and ends in `&` the redirection becomes arguments
  (`shell.c:186`); the prompt is printed when standard input is a terminal, against
  the comment at `shell.c:144`.

## 7. Not modelled

* `kvserver_clean`, `kvstore_clean` and `tpclog_clear_log`, which nothing calls; the
  length checks of `kvstore_put_check` are a set of refused keys (`BadKeys`).
* `put_process_in_foreground`, `is_direct_tok` and `fprint_tok` of `hw1`, which nothing calls;
  the shell without a terminal, which differs only in the prompt.
* The wording of headers, mime types, and the size of what a request asks for.
* Writes of the relay that place fewer bytes than asked for and go on: its sockets block and no
  signal of a child has a handler, so this happens only when the peer has gone, which `Gone`
  covers.
* File descriptors (`connect_to` leaks one for every refused connection) and
  memory exhaustion.
* `hw0`, vendored code and the static page.

## 8. Plan

Done, in this order: the models `FollowerRing`, `KVServer`, `TPCSystem`, `WorkQueue`, `KVStore`,
`MMAlloc`, `HttpServer`, `Shell`, `KVMessage`; the proofs of `FollowerRing`, `WorkQueue`,
`KVServer`, `TPCSystem`, `HttpServer`, `Shell`, `KVStore`, `KVMessage`, `MMAlloc`.

Next: `TPCSystem` without `MaxCrashes = 0`: which parts of `SuccessIsStored` survive crashes;
and what still holds of one key when a disturbance concerned another.
