---------------------------- MODULE MCStreaming ----------------------------
(***************************************************************************)
(* Streaming with equal requests, which differ in their cache control.      *)
(***************************************************************************)
EXTENDS Streaming

CONSTANTS k1

\* All ask the same.
AllTheSame == [s \in Streams |-> k1]
=============================================================================
