---------------------------- MODULE MCWorkQueue ----------------------------
(* The thread pool for TLC: connections and workers are model values.        *)
EXTENDS WorkQueue
=============================================================================
