----------------------------- MODULE MCPouchUplink -----------------------------
(* Instances of PouchUplink for TLC: small sets and bounds for its constants. *)
EXTENDS PouchUplink, TLC

(* The threads of the application run the same code. *)
ThreadSymmetry == Permutations(Threads)
================================================================================
