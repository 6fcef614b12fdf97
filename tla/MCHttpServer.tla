---------------------------- MODULE MCHttpServer ----------------------------
(* An HTTP service with its pprof sidecar, for TLC. *)
EXTENDS HttpServer

CONSTANTS main, pprof, mainBase, pprofBase

MCBaseOf == [s \in Servers |-> IF s = main THEN mainBase ELSE pprofBase]
MCSidecarOf == [s \in Servers |-> IF s = main THEN pprof ELSE NoServer]
=============================================================================
