--------------------------- MODULE MCGrpcService ---------------------------
(* A gRPC service with health checks and the pprof sidecar, for TLC. *)
EXTENDS GrpcService

CONSTANT pprofBase

MCBaseOf == [s \in Servers |-> pprofBase]
MCSidecarOf == [s \in Servers |-> NoServer]
=============================================================================
