----------------------------- MODULE MCPipeline -----------------------------
(* A line of three stages: the second makes two values of one, and the channels
   are shorter than what passes through them. *)
EXTENDS Pipeline

MCSource == <<1, 2>>
MCOuts ==
  [i \in 2..3 |-> IF i = 2 THEN <<<<1, 2>>, <<3>>, <<>>>> ELSE <<<<1>>, <<2>>, <<3>>>>]
=============================================================================
