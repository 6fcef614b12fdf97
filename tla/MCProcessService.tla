-------------------------- MODULE MCProcessService --------------------------
(* One process and its sidecar, for TLC. *)
EXTENDS ProcessService

MCBaseOf == [s \in Servers |-> Base]
MCSidecarOf == [s \in Servers |-> NoServer]
=============================================================================
