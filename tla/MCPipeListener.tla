--------------------------- MODULE MCPipeListener ---------------------------
(***************************************************************************)
(* PipeListener with two acceptors, two dialers and three pipes.  Two of   *)
(* each goroutine let an Accept and a Dialer overlap with another one and  *)
(* with Close; the third pipe lets a dialer dial again after it hung up.   *)
(***************************************************************************)
EXTENDS PipeListener

CONSTANTS a1, a2, d1, d2, c1, c2, c3

MCAcceptors == {a1, a2}
MCDialers == {d1, d2}
MCPipes == {c1, c2, c3}
=============================================================================
