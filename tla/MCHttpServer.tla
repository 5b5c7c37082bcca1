---------------------------- MODULE MCHttpServer ----------------------------
(* An instance of HttpServer for TLC. *)
EXTENDS HttpServer

CONSTANTS r1, r2, r3

MCClients == 1 .. 2
MCRequestIds == {r1, r2, r3}
=============================================================================
