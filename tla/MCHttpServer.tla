---------------------------- MODULE MCHttpServer ----------------------------
(* One HTTP server with a few connections.                                   *)
EXTENDS HttpServer
=============================================================================
