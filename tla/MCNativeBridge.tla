--------------------------- MODULE MCNativeBridge ---------------------------
(* Small instances of NativeBridge for TLC.                                *)
EXTENDS NativeBridge, TLC

(* Threads, ids and pairs are interchangeable.                             *)
BridgeSymmetry == Permutations(Worker) \cup Permutations(RequestId) \cup Permutations(Pair)
=============================================================================
