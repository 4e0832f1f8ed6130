---------------------------- MODULE MCHttpServer ----------------------------
(* HttpServer for TLC: one busy connection, and others with one request.   *)
EXTENDS HttpServer

CONSTANT Busy

MCMaxRequests == [c \in Conns |-> IF c = Busy THEN 2 ELSE 1]
=============================================================================
