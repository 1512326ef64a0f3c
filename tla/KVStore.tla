------------------------------ MODULE KVStore ------------------------------
(***************************************************************************)
(* The persistent store of a follower (hw4/src/kvstore.c): one file per    *)
(* entry, named by the hash of its key and its position in the chain of    *)
(* that hash.                                                              *)
(*                                                                         *)
(* kvstore_put and kvstore_del look their key up under the read lock,      *)
(* release it, and act on the position they found under the write lock.    *)
(* A put opens its file for writing, which empties it, before it writes    *)
(* the entry: a process that dies in between leaves an empty file.         *)
(* Any number of threads may write.  A call that acts on a position which  *)
(* another thread has changed since the search makes the store stray.      *)
(***************************************************************************)
EXTENDS Naturals, FiniteSets

CONSTANTS
  Keys, Vals,
  Hashes,
  Hash,       \* strhash64: the hash of each key
  Threads,    \* the threads that call put, del and get
  MaxCrashes, \* bound: crashes of the process that nothing in it causes
  Empty,      \* the content of a file that was opened and not yet written
  NULL

ASSUME StoreAssumption ==
  /\ Hash \in [Keys -> Hashes]
  /\ MaxCrashes \in Nat
  /\ NULL \notin Nat /\ NULL \notin Keys \cup Vals \cup Threads /\ Empty \notin [key : Keys, val : Vals]

VARIABLES
  files,   \* the files of each chain: a function from positions to contents
  lock,    \* the thread that holds store->lock for writing, or NULL
  pc,      \* where each thread is in its call
  call,    \* the call it is in, or NULL
  pos,     \* the position its search returned, or NULL
  result,  \* what its last call returned
  crashes, \* crashes so far
  strayed  \* whether a call ever acted on a position that was stale

vars == <<files, lock, pc, call, pos, result, crashes, strayed>>

Init ==
  /\ files = [h \in Hashes |-> << >>]
  /\ lock = NULL
  /\ pc = [t \in Threads |-> "idle"]
  /\ call = [t \in Threads |-> NULL]
  /\ pos = [t \in Threads |-> NULL]
  /\ result = [t \in Threads |-> NULL]
  /\ crashes = 0
  /\ strayed = FALSE

-----------------------------------------------------------------------------
(* The files *)

Entry(k, v) == [key |-> k, val |-> v]

\* The first position from P on that no file of the chain has.
FirstFree(chain, p) ==
  CHOOSE n \in p..(p + Cardinality(DOMAIN chain)) :
    n \notin DOMAIN chain /\ \A m \in p..(n - 1) : m \in DOMAIN chain

\* The positions a search for k stops at: those of its entries that the walk
\* from position 0 reaches.
Matches(chain, k) ==
  {p \in DOMAIN chain : p < FirstFree(chain, 0) /\ chain[p] # Empty /\ chain[p].key = k}

\* find_entry.
Position(chain, k) ==
  LET found == Matches(chain, k)
  IN  IF found = {} THEN NULL ELSE CHOOSE p \in found : \A q \in found : p <= q

\* The positions the search opens before the one it returns.
Walked(chain, k) ==
  LET p == Position(chain, k)
  IN  0..((IF p = NULL THEN FirstFree(chain, 0) ELSE p) - 1)

\* The chain with content e at position p; and without position p.
With(chain, p, e) == [q \in DOMAIN chain \cup {p} |-> IF q = p THEN e ELSE chain[q]]
Without(chain, p) == [q \in DOMAIN chain \ {p} |-> chain[q]]

Chain(t) == files[Hash[call[t].key]]
SetChain(t, chain) == files' = [files EXCEPT ![Hash[call[t].key]] = chain]

-----------------------------------------------------------------------------
(* The calls *)

Calls == [op : {"get", "del"}, key : Keys, val : {NULL}] \cup [op : {"put"}, key : Keys, val : Vals]

ASSUME CallAssumption == NULL \notin Calls

Invoke(t) ==
  /\ pc[t] = "idle"
  /\ \E c \in Calls : call' = [call EXCEPT ![t] = c]
  /\ pc' = [pc EXCEPT ![t] = "find"]
  /\ UNCHANGED <<files, lock, pos, result, crashes, strayed>>

Return(t, res) ==
  /\ pc' = [pc EXCEPT ![t] = "idle"]
  /\ call' = [call EXCEPT ![t] = NULL]
  /\ pos' = [pos EXCEPT ![t] = NULL]
  /\ result' = [result EXCEPT ![t] = res]

At(t, label, op) == pc[t] = label /\ call[t].op = op

\* kvstore_get is a search that also reads the value.
Get(t) ==
  /\ At(t, "find", "get") /\ lock = NULL
  /\ LET p == Position(Chain(t), call[t].key)
     IN  Return(t, IF p = NULL THEN "ERRNOKEY" ELSE Chain(t)[p].val)
  /\ UNCHANGED <<files, lock, crashes, strayed>>

\* The search that opens kvstore_put: what it finds is used after the unlock.
PutFind(t) ==
  /\ At(t, "find", "put") /\ lock = NULL
  /\ pos' = [pos EXCEPT ![t] = Position(Chain(t), call[t].key)]
  /\ pc' = [pc EXCEPT ![t] = "act"]
  /\ UNCHANGED <<files, lock, call, result, crashes, strayed>>

\* Mutation: the end of the chain is not searched for.
PutPlace_First(t) == IF pos[t] # NULL THEN pos[t] ELSE 0

\* Where the entry goes: over the old one, else at the end of the chain.
PutPlace(t) == IF pos[t] # NULL THEN pos[t] ELSE FirstFree(Chain(t), 0)

\* What the search found is not so any more: another put or del came between.
Stale(t) == pos[t] # Position(Chain(t), call[t].key)

\* fopen(filename, "w") under the write lock.
PutOpen(t) ==
  /\ At(t, "act", "put") /\ lock = NULL
  /\ lock' = t
  /\ pos' = [pos EXCEPT ![t] = PutPlace(t)]
  /\ SetChain(t, With(Chain(t), PutPlace(t), Empty))
  /\ pc' = [pc EXCEPT ![t] = "write"]
  /\ strayed' = (strayed \/ Stale(t))
  /\ UNCHANGED <<call, result, crashes>>

\* The entry is written and the lock released.
PutWrite(t) ==
  /\ At(t, "write", "put")
  /\ SetChain(t, With(Chain(t), pos[t], Entry(call[t].key, call[t].val)))
  /\ lock' = NULL
  /\ Return(t, "OK")
  /\ UNCHANGED <<crashes, strayed>>

\* The search that opens kvstore_del.
DelFind(t) ==
  /\ At(t, "find", "del") /\ lock = NULL
  /\ LET p == Position(Chain(t), call[t].key)
     IN  \/ /\ p = NULL
            /\ Return(t, "ERRNOKEY")
         \/ /\ p # NULL
            /\ pos' = [pos EXCEPT ![t] = p]
            /\ pc' = [pc EXCEPT ![t] = "act"]
            /\ UNCHANGED <<call, result>>
  /\ UNCHANGED <<files, lock, crashes, strayed>>

\* Mutation: the file is removed and the chain is not reconnected.
Deleted_NoSwap(chain, p) == Without(chain, p)

\* The chain after its position p is deleted: the last file takes its place.
Deleted(chain, p) ==
  LET last == FirstFree(chain, p + 1) - 1
  IN  IF last = p THEN Without(chain, p) ELSE Without(With(chain, p, chain[last]), last)

\* Under the write lock, the file at the position found is removed; when another
\* thread has removed it meanwhile, remove fails with ENOENT.
DelRemove(t) ==
  /\ At(t, "act", "del") /\ lock = NULL
  /\ SetChain(t, Deleted(Chain(t), pos[t]))
  /\ Return(t, IF pos[t] \in DOMAIN Chain(t) \/ FirstFree(Chain(t), pos[t] + 1) > pos[t] + 1
               THEN "OK" ELSE "ENOENT")
  /\ strayed' = (strayed \/ Stale(t))
  /\ UNCHANGED <<lock, crashes>>

-----------------------------------------------------------------------------
(* Failures *)

\* The process ends and is started again on the same directory.
Restart ==
  /\ lock' = NULL
  /\ pc' = [t \in Threads |-> "idle"]
  /\ call' = [t \in Threads |-> NULL]
  /\ pos' = [t \in Threads |-> NULL]
  /\ result' = [t \in Threads |-> NULL]
  /\ UNCHANGED <<files, strayed>>

Crash == crashes < MaxCrashes /\ crashes' = crashes + 1 /\ Restart

\* The header of an empty file is uninitialised memory, and so is the buffer of
\* the length it gives, which starts with words of the allocator and equals no
\* key: the search goes on to the next file, as Position has it, or the process
\* dies.
FindFaults(t) ==
  /\ pc[t] = "find" /\ lock = NULL
  /\ \E q \in Walked(Chain(t), call[t].key) : Chain(t)[q] = Empty
  /\ Restart
  /\ UNCHANGED crashes

-----------------------------------------------------------------------------
Step(t) ==
  \/ Invoke(t) \/ Get(t) \/ PutFind(t) \/ PutOpen(t) \/ PutWrite(t)
  \/ DelFind(t) \/ DelRemove(t) \/ FindFaults(t)

Next == Crash \/ \E t \in Threads : Step(t)

Spec == Init /\ [][Next]_vars

-----------------------------------------------------------------------------
(* Properties *)

Contents == [key : Keys, val : Vals] \cup {Empty}

\* The types; the write lock is held exactly while a put has its file open, and
\* so is released on every way out (kvstore.c:132-160).
TypeOK ==
  /\ DOMAIN files = Hashes
  /\ \A h \in Hashes : DOMAIN files[h] \subseteq Nat /\ \A p \in DOMAIN files[h] : files[h][p] \in Contents
  /\ lock \in Threads \cup {NULL}
  /\ pc \in [Threads -> {"idle", "find", "act", "write"}]
  /\ call \in [Threads -> Calls \cup {NULL}]
  /\ \A t \in Threads : pos[t] \in Nat \cup {NULL}
  /\ result \in [Threads -> Vals \cup {"OK", "ERRNOKEY", "ENOENT", NULL}]
  /\ crashes \in 0..MaxCrashes
  /\ \A t \in Threads : lock = t <=> pc[t] = "write"

\* kvstore.h:30-32: chains are always complete, so that the walk of find_entry
\* reaches every entry; and no key has two entries.  So it is as long as no call
\* acts on a position that another thread has made stale (kvstore.c:120-215).
ChainsComplete ==
  ~strayed =>
    /\ TypeOK
    /\ \A h \in Hashes :
         /\ DOMAIN files[h] = 0..(FirstFree(files[h], 0) - 1)
         /\ \A k \in Keys : Cardinality(Matches(files[h], k)) <= 1

\* The chains as they are once the put that holds the lock has written.
Written ==
  IF lock = NULL THEN files
  ELSE [files EXCEPT ![Hash[call[lock].key]] =
          With(@, pos[lock], Entry(call[lock].key, call[lock].val))]

View == [k \in Keys |-> LET chain == Written[Hash[k]]
                            p == Position(chain, k)
                        IN  IF p = NULL THEN NULL ELSE chain[p].val]

Abstract == INSTANCE KVMap WITH map <- View, writing <- lock

\* Whatever threads put, delete and get at once, the files are a map on which
\* every call acts in one step, and a crash loses at most the key being written,
\* up to the first call that acts on a stale position (kvstore.c:36-215).
StoreIsMap ==
  /\ Abstract!Init
  /\ [][~strayed' => Abstract!Next \/ UNCHANGED Abstract!vars]_vars
=============================================================================
