------------------------------ MODULE MCTools ------------------------------
(***************************************************************************)
(* Small instances of the helpers that share no state: a behavior is one   *)
(* of FileQueue, WasmModule and EnvLoad, and the other two stay in one of  *)
(* their initial states.                                                   *)
(***************************************************************************)
EXTENDS FileQueue, WasmModule, EnvLoad

VARIABLE tool

toolVars == <<dirVars, wasmVars, envVars, tool>>

\* The tools that do not run start in one state.
Init ==
  /\ tool \in {"dir", "wasm", "env"}
  /\ DirInit /\ WasmInit /\ EnvInit
  /\ tool = "env" \/ defines["process"] = {}

Next ==
  \/ tool = "dir" /\ DirNext /\ UNCHANGED <<wasmVars, envVars, tool>>
  \/ tool = "wasm" /\ WasmNext /\ UNCHANGED <<dirVars, envVars, tool>>
  \/ tool = "env" /\ EnvNext /\ UNCHANGED <<dirVars, wasmVars, tool>>

Spec == Init /\ [][Next]_toolVars

\* The names of files are random, and a directory that has the same files under
\* other names is the same.
Symmetry == Permutations(Files)
=============================================================================
