----------------------------- MODULE WasmModule -----------------------------
(***************************************************************************)
(* runtimes/wasm: a runtime with its compilation cache, a module made from *)
(* it, and the calls of Module.Run, which puts the parameter and a struct  *)
(* for the result into memory it allocates in the guest, and frees them    *)
(* and the string that the guest returns.  One goroutine runs a module; a  *)
(* call into the guest may trap, or end the guest: WithCloseOnContextDone  *)
(* closes it when the context of the call is done.  The guest's malloc and *)
(* free do what they promise, and free nothing when the pointer is none of *)
(* theirs; its other functions may do with the memory what they like.  The *)
(* log callback only reads guest memory and is left out; a panic ends the  *)
(* model, with the deferred calls that it runs.                            *)
(***************************************************************************)
EXTENDS Naturals

CONSTANTS
  MaxBlock,  \* the guest's malloc can hand out this many blocks
  MaxRuns    \* calls of Run

ASSUME WasmAssumption == MaxBlock \in Nat /\ MaxRuns \in Nat

Blocks == 1 .. MaxBlock

\* A pointer to no block: none at all, or one out of the guest's memory.
NoBlock == 0
BadBlock == MaxBlock + 1

\* What the host looks for in the guest.
Exports == {"ver", "init", "event", "malloc", "free", "memory"}

VARIABLES
  stage,    \* where the owner of the module is
  runtime,  \* what NewRuntimeWithCompilationCache returned: "none", "nil", "ok"
  dir,      \* whether the directory of the cache exists
  guest,    \* the module instance: "none", "open", "gone"
  exports,  \* which of Exports it has
  void,     \* which of its functions that should return a value do not
  live,     \* blocks that are allocated
  param, result, str,  \* the blocks of the Run under way
  lost,     \* blocks that only the guest knows, those it keeps included
  astray,   \* in this Run the guest has returned a string, or freed a block, not its to give
  wild,     \* in this Run the host has freed what was not allocated
  runs

\* The part of the state that a call into the guest changes.
memory == <<guest, live, lost>>
frame == <<param, result, str>>
home == <<runtime, dir, exports, void>>
wasmVars == <<stage, home, memory, frame, astray, wild, runs>>

WasmInit ==
  /\ stage = "start" /\ runtime = "none" /\ dir = FALSE
  /\ guest = "none" /\ exports = {} /\ void = {}
  /\ live = {} /\ lost = {} /\ param = NoBlock /\ result = NoBlock /\ str = NoBlock
  /\ astray = FALSE /\ wild = FALSE /\ runs = 0

-----------------------------------------------------------------------------
(* Calls into the guest, and their outcomes. *)

\* A missing function is a nil value: the call panics.
Panics(f) == f \notin exports /\ stage' = "panicked"

Returns(f) == f \in exports /\ guest = "open"

\* It returns no result where one is taken: the index panics.
NoResult(f) == Returns(f) /\ f \in void /\ stage' = "panicked"

Traps(f) == f \in exports /\ UNCHANGED memory

\* The guest exits or is closed, and its memory is gone.
Exits(f) ==
  /\ f \in exports /\ guest = "open"
  /\ guest' = "gone" /\ live' = {} /\ lost' = {}

Errs(f) == Traps(f) \/ Exits(f)

\* A new block, or none when the guest has no memory left: nothing looks at
\* which it is.
Mallocs(b) ==
  /\ Returns("malloc") /\ "malloc" \notin void
  /\ b \in {NoBlock} \cup (Blocks \ live)
  /\ live' = live \cup ({b} \ {NoBlock})
  /\ UNCHANGED guest

\* A deferred call of free; its errors are ignored.
Free(b) ==
  \/ /\ Returns("free")
     /\ live' = live \ {b}
     /\ lost' = lost \ {b}
     /\ wild' = (wild \/ b \notin live \cup {NoBlock})
     /\ UNCHANGED guest
  \/ /\ Traps("free") /\ guest = "gone"
     /\ UNCHANGED wild
  \/ /\ "free" \in exports /\ guest = "open"
     /\ lost' = lost \cup ({b} \cap live)
     /\ UNCHANGED <<guest, live, wild>>
  \/ Exits("free") /\ UNCHANGED wild

-----------------------------------------------------------------------------
(* The runtime and the module. *)

\* When the cache cannot be made, the error of RemoveAll is returned in the
\* place of its error: none, if the directory could be removed.
NewRuntimeWithCompilationCache ==
  /\ stage = "start"
  /\ \/ stage' = "end" /\ UNCHANGED <<runtime, dir>>
     \/ stage' = "end" /\ dir' = TRUE /\ UNCHANGED runtime
     \/ stage' = "new" /\ runtime' = "nil" /\ UNCHANGED dir
     \/ stage' = "new" /\ runtime' = "ok" /\ dir' = TRUE
  /\ UNCHANGED <<exports, void, memory, frame, astray, wild, runs>>

\* A failed instantiation leaves no guest, a failed init leaves it open.  Of
\* the nil runtime, of MustInstantiate, of a ver without a result and of a
\* missing init comes a panic.
NewModule ==
  /\ stage = "new"
  /\ \/ stage' = "panicked" /\ UNCHANGED <<exports, void, memory>>
     \/ runtime = "ok" /\ stage' = "noModule" /\ UNCHANGED <<exports, void, memory>>
     \/ /\ runtime = "ok"
        /\ exports' \in SUBSET Exports
        /\ void' \in SUBSET (exports' \cap {"ver", "malloc"})
        /\ \/ "ver" \in void' /\ stage' = "panicked" /\ guest' = "open"
           \/ /\ "init" \notin exports' /\ stage' = "panicked"
              /\ guest' \in IF "ver" \in exports' THEN {"open", "gone"} ELSE {"open"}
           \/ "init" \in exports' /\ stage' = "idle" /\ guest' = "open"
           \/ "init" \in exports' /\ stage' = "noModule" /\ guest' \in {"open", "gone"}
        /\ live' \in IF guest' = "open" THEN SUBSET Blocks ELSE {{}}
        /\ lost' = live'
  /\ UNCHANGED <<runtime, dir, frame, astray, wild, runs>>

ModuleClose ==
  /\ stage = "idle"
  /\ stage' = "closed"
  /\ guest' = "gone" /\ live' = {} /\ lost' = {}
  /\ UNCHANGED <<home, frame, astray, wild, runs>>

\* Both steps are tried; removing the directory may fail.
RuntimeClose ==
  /\ stage \in {"noModule", "closed"}
  /\ stage' = "end"
  /\ dir' \in BOOLEAN
  /\ UNCHANGED <<runtime, exports, void, memory, frame, astray, wild, runs>>

-----------------------------------------------------------------------------
(* Run, and the functions it calls, in the order of the calls. *)

\* A block that cannot be written to is not given back.
writeToMemory ==
  /\ stage = "idle" /\ runs < MaxRuns
  /\ runs' = runs + 1
  /\ astray' = FALSE /\ wild' = FALSE
  /\ \/ (Panics("malloc") \/ NoResult("malloc")) /\ UNCHANGED <<memory, frame>>
     \/ Errs("malloc") /\ UNCHANGED <<stage, frame>>
     \/ \E b \in Blocks \cup {NoBlock} :
          /\ Mallocs(b)
          /\ \/ Panics("memory") /\ UNCHANGED <<lost, frame>>
             \/ /\ "memory" \in exports
                /\ lost' = lost \cup ({b} \ {NoBlock})
                /\ UNCHANGED <<stage, frame>>
             \/ /\ "memory" \in exports
                /\ stage' = "reserve" /\ param' = b
                /\ UNCHANGED <<lost, result, str>>
  /\ UNCHANGED home

\* The call of malloc; one without a result has panicked before.
Reserve ==
  \E b \in Blocks \cup {NoBlock} :
    /\ Mallocs(b)
    /\ result' = b
    /\ stage' = "main"
    /\ UNCHANGED <<lost, param, str>>

\* Mutant of reserveMemoryForResult: an error returns before the parameter is
\* registered to be freed.
reserveWithoutDefer ==
  /\ stage = "reserve"
  /\ \/ Errs("malloc") /\ stage' = "idle" /\ UNCHANGED frame
     \/ Reserve
  /\ UNCHANGED <<home, astray, wild, runs>>

reserveMemoryForResult ==
  /\ stage = "reserve"
  /\ \/ Errs("malloc") /\ stage' = "freeParam" /\ UNCHANGED frame
     \/ Reserve
  /\ UNCHANGED <<home, astray, wild, runs>>

\* The guest may allocate and free what it likes, the blocks of the host
\* included, and may point at anything for a string: at none, at a block of
\* its own, at one of the host's, at one that is not allocated and out of its
\* memory.
main ==
  /\ stage = "main"
  /\ \/ Panics("event") /\ UNCHANGED <<memory, str, astray>>
     \/ Exits("event") /\ stage' = "freeResult" /\ UNCHANGED <<str, astray>>
     \/ /\ Returns("event")
        /\ \/ stage' = "freeResult" /\ str' = NoBlock
           \/ stage' = "getResult" /\ str' \in Blocks \cup {NoBlock, BadBlock}
        /\ live' \in SUBSET Blocks
        /\ lost' = live' \ {param, result, str'}
        /\ astray' = ~( /\ {param, result} \ {NoBlock} \subseteq live'
                        /\ {str'} \ {NoBlock} \subseteq live' \ {param, result} )
        /\ UNCHANGED guest
  /\ UNCHANGED <<home, param, result, wild, runs>>

\* Reading the struct may fail, and then the string is not freed.
getResult ==
  /\ stage = "getResult"
  /\ \/ stage' = "freeResult" /\ str' = NoBlock
        /\ lost' = lost \cup (({str} \cap live) \ {param, result})
     \/ stage' = "getResultStr" /\ UNCHANGED <<str, lost>>
  /\ UNCHANGED <<home, guest, live, param, result, astray, wild, runs>>

\* The string is read, whether that succeeds or not, and then freed.
getResultStr ==
  /\ stage = "getResultStr"
  /\ \/ str # NoBlock /\ Panics("free") /\ UNCHANGED <<memory, wild>>
     \/ str # NoBlock /\ Free(str) /\ stage' = "freeResult"
     \/ str = NoBlock /\ stage' = "freeResult" /\ UNCHANGED <<memory, wild>>
  /\ str' = NoBlock
  /\ UNCHANGED <<home, param, result, astray, runs>>

\* The deferred calls of Run, last in first out.
freeResult ==
  /\ stage = "freeResult"
  /\ \/ Panics("free") /\ UNCHANGED <<memory, wild>>
     \/ Free(result) /\ stage' = "freeParam"
  /\ result' = NoBlock
  /\ UNCHANGED <<home, param, str, astray, runs>>

freeParam ==
  /\ stage = "freeParam"
  /\ \/ Panics("free") /\ UNCHANGED <<memory, wild>>
     \/ Free(param) /\ stage' = "idle"
  /\ param' = NoBlock
  /\ UNCHANGED <<home, result, str, astray, runs>>

WasmNext ==
  \/ NewRuntimeWithCompilationCache \/ NewModule \/ ModuleClose \/ RuntimeClose
  \/ writeToMemory \/ reserveMemoryForResult \/ main \/ getResult \/ getResultStr
  \/ freeResult \/ freeParam

WasmSpec == WasmInit /\ [][WasmNext]_wasmVars

-----------------------------------------------------------------------------
(* Properties. *)

\* On every path through Run (module.go:95), the errors and the failures of
\* the deferred calls included: between two calls the guest holds no block but
\* its own and those that could not be written or freed.  The host frees what
\* is not allocated only in a call in which the guest has freed a block of the
\* host's or has returned a string that is not its to give: one of the host's
\* own blocks, one that is not allocated, or one out of its memory
\* (module.go:172 to 178).  With a guest, the host panics only over an export
\* or a memory that is missing, or a function without the result that is taken
\* (module.go:67, 137 and 147).
GuestMemoryKept ==
  /\ stage = "idle" => live = lost
  /\ wild => astray
  /\ stage = "panicked" /\ guest # "none" => ~(Exports \ {"ver"} \subseteq exports) \/ void # {}
  /\ guest = "gone" => live = {}
=============================================================================
