---------------------------- MODULE MCNativeWire ----------------------------
(* A small frame, one the writer accepts and the reader refuses, one the   *)
(* writer refuses, and a thread that competes with the first.              *)
EXTENDS NativeWire, TLC

CONSTANTS a, b, c, d

MCSize == (a :> 1) @@ (b :> 2) @@ (c :> 3) @@ (d :> 4)
=============================================================================
