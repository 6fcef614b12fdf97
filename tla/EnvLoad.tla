------------------------------ MODULE EnvLoad ------------------------------
(***************************************************************************)
(* env.Load: sets variables of the process from the arguments and then     *)
(* from .env files, one after the other.  The value of a variable is       *)
(* represented by where it comes from.  The files are looked up in the     *)
(* directory that basedir names, which a file may set like any variable:   *)
(* what a file defines is chosen when it is read.                          *)
(***************************************************************************)
EXTENDS Naturals, Sequences

CONSTANTS
  Names,         \* variables of the process, APP_ENV among them
  Environments,  \* "development", "production", "test"
  Unset          \* a variable that is not set, or an environment not known

VARIABLES
  env,          \* the variables: name -> source of the value
  step,         \* the next step of Load
  environment,  \* what Load has taken APP_ENV for
  loaded,       \* whether a file was loaded
  failed,       \* whether Load returns an error
  defines       \* source -> the names it was seen to define

envVars == <<env, step, environment, loaded, failed, defines>>

\* The files in the order in which they are read.
Sources == <<".env.ENV.local", ".env.local", ".env.ENV", ".env.NAME", ".env">>
EnvFiles == {Sources[i] : i \in 1 .. Len(Sources)}

ASSUME EnvAssumption ==
  /\ "APP_ENV" \in Names
  /\ {"development", "test"} \subseteq Environments
  /\ Unset \notin {"process", "args"} \cup EnvFiles

\* godotenv.Overload for the local files, godotenv.Load for the others.
Overrides(file) == file \in {".env.ENV.local", ".env.local"}

EnvInit ==
  /\ env \in [Names -> {Unset, "process"}]
  /\ step = "args"
  /\ environment = Unset
  /\ loaded = FALSE /\ failed = FALSE
  /\ defines = [s \in {"process", "args"} \cup EnvFiles |->
                  IF s = "process" THEN {n \in Names : env[n] = s} ELSE {}]

\* os.Setenv for every pair of the map.
SetAll(names, source) == env' = [n \in Names |-> IF n \in names THEN source ELSE env[n]]

\* Arguments --env:name=value and -e:name=value.  A name that cannot be set is
\* an error, and any of the others may have been set before it.
setEnvsUsingCommandLineArgs ==
  /\ step = "args"
  /\ \E names \in SUBSET Names :
       SetAll(names, "args") /\ defines' = [defines EXCEPT !["args"] = names]
  /\ \/ step' = "environment" /\ UNCHANGED failed
     \/ step' = "end" /\ failed' = TRUE
  /\ UNCHANGED <<environment, loaded>>

\* An unknown APP_ENV is an error, and no file is read.
Environment ==
  /\ step = "environment"
  /\ \/ /\ environment' \in IF env["APP_ENV"] = Unset THEN {"development"} ELSE Environments
        /\ step' = Sources[1]
        /\ UNCHANGED failed
     \/ /\ env["APP_ENV"] # Unset
        /\ step' = "end" /\ failed' = TRUE
        /\ UNCHANGED environment
  /\ UNCHANGED <<env, loaded, defines>>

\* Mutant of load: every file overrides.
loadOver(file) ==
  \/ /\ loaded' = TRUE
     /\ \E names \in SUBSET Names :
          /\ defines' = [defines EXCEPT ![file] = names]
          /\ SetAll(names, file)
  \/ UNCHANGED <<env, loaded, defines>>

\* A file that is missing or cannot be parsed sets nothing, and its error is
\* dropped.
load(file) ==
  \/ /\ loaded' = TRUE
     /\ \E names \in SUBSET Names :
          /\ defines' = [defines EXCEPT ![file] = names]
          /\ SetAll({n \in names : Overrides(file) \/ env[n] = Unset}, file)
  \/ UNCHANGED <<env, loaded, defines>>

\* .env.local is not read in the environment "test".
LoadFile(i) ==
  /\ step = Sources[i]
  /\ step' = IF i = Len(Sources) THEN "end" ELSE Sources[i + 1]
  /\ IF step = ".env.local" /\ environment = "test"
     THEN UNCHANGED <<env, loaded, defines>>
     ELSE load(step)
  /\ UNCHANGED <<environment, failed>>

EnvNext == \/ setEnvsUsingCommandLineArgs \/ Environment
           \/ \E i \in 1 .. Len(Sources) : LoadFile(i)

EnvSpec == EnvInit /\ [][EnvNext]_envVars

-----------------------------------------------------------------------------
(* Properties. *)

\* The order in which the sources count, the first one most.
Precedence == <<".env.local", ".env.ENV.local", "args", "process", ".env.ENV", ".env.NAME", ".env">>

\* When Load has returned without an error (env.go:47-71), each variable has
\* its value from the first source that defines it, whatever the files set in
\* which order; .env.local has no say in tests; and an APP_ENV that comes from
\* a file without precedence is too late to have chosen the environment.
FirstSourceWins ==
  step = "end" /\ ~failed =>
    /\ \A n \in Names :
         LET from == {i \in 1 .. Len(Precedence) : n \in defines[Precedence[i]]} IN
         IF from = {} THEN env[n] = Unset
         ELSE \E i \in from : env[n] = Precedence[i] /\ \A j \in from : i <= j
    /\ env["APP_ENV"] \in {".env.ENV", ".env.NAME", ".env"} => environment = "development"
    /\ environment = "test" => \A n \in Names : env[n] # ".env.local"

\* The convention the code says it follows (env.go:28-30, and the order of the
\* files in env_test.go:24-34) puts the local file of the environment first.
LocalOfEnvironmentWins ==
  step = "end" /\ ~failed =>
    \A n \in defines[".env.ENV.local"] : env[n] = ".env.ENV.local"
=============================================================================
