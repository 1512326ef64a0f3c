------------------------------- MODULE KVMap -------------------------------
(***************************************************************************)
(* What the store of hw4/src/kvstore.h promises: a map from keys to values *)
(* that survives a crash.  A call takes effect in one step between its     *)
(* invocation and its return.  The one thing a crash may take is the key   *)
(* whose entry was being written.                                          *)
(***************************************************************************)
CONSTANTS Keys, Vals, Threads, NULL

VARIABLES
  map,     \* the value of each key, or NULL
  call,    \* the call each thread is in, or NULL
  result,  \* what each thread's last call returned
  writing  \* the thread whose entry is being written, or NULL

vars == <<map, call, result, writing>>

Calls == [op : {"get", "del"}, key : Keys, val : {NULL}]
           \cup [op : {"put"}, key : Keys, val : Vals]

Init ==
  /\ map = [k \in Keys |-> NULL]
  /\ call = [t \in Threads |-> NULL]
  /\ result = [t \in Threads |-> NULL]
  /\ writing = NULL

In(t, op) == call[t] # NULL /\ call[t].op = op

Invoke(t) ==
  /\ call[t] = NULL
  /\ \E c \in Calls : call' = [call EXCEPT ![t] = c]
  /\ UNCHANGED <<map, result, writing>>

Get(t) ==
  /\ In(t, "get") /\ writing = NULL
  /\ result' = [result EXCEPT ![t] = IF map[call[t].key] = NULL THEN "ERRNOKEY" ELSE map[call[t].key]]
  /\ call' = [call EXCEPT ![t] = NULL]
  /\ UNCHANGED <<map, writing>>

Del(t) ==
  /\ In(t, "del") /\ writing = NULL
  /\ result' = [result EXCEPT ![t] = IF map[call[t].key] = NULL THEN "ERRNOKEY" ELSE "OK"]
  /\ map' = [map EXCEPT ![call[t].key] = NULL]
  /\ call' = [call EXCEPT ![t] = NULL]
  /\ UNCHANGED writing

Put(t) ==
  /\ In(t, "put") /\ writing = NULL
  /\ map' = [map EXCEPT ![call[t].key] = call[t].val]
  /\ writing' = t
  /\ UNCHANGED <<call, result>>

PutReturns(t) ==
  /\ writing = t
  /\ result' = [result EXCEPT ![t] = "OK"]
  /\ call' = [call EXCEPT ![t] = NULL]
  /\ writing' = NULL
  /\ UNCHANGED map

Crash ==
  /\ map' = IF writing = NULL THEN map ELSE [map EXCEPT ![call[writing].key] = NULL]
  /\ call' = [t \in Threads |-> NULL]
  /\ result' = [t \in Threads |-> NULL]
  /\ writing' = NULL

Next == Crash \/ \E t \in Threads : Invoke(t) \/ Get(t) \/ Del(t) \/ Put(t) \/ PutReturns(t)

Spec == Init /\ [][Next]_vars
=============================================================================
