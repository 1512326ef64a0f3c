----------------------------- MODULE MCKVServer -----------------------------
(* Instances of KVServer for TLC: one follower whose clients send anything.  *)
EXTENDS KVServer

CONSTANTS
  MaxQueue, \* bound: connections waiting for a worker
  MaxFiles  \* bound: log files, so lives of the process that handled a message

Bounded == \A f \in Followers : Len(wq[f]) <= MaxQueue /\ Len(log[f]) <= MaxFiles
=============================================================================
