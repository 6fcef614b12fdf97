--------------------------- MODULE OnceDisposable ---------------------------
(***************************************************************************)
(* pkg/syncutil/once.go: Do runs an initialiser at most once, Dispose runs *)
(* a finaliser at most once, and Do fails afterwards.  The flags and the   *)
(* errors are atomic values (gvalue.go) read both inside and outside the   *)
(* mutex, so each load outside it is a step of its own.  What a goroutine  *)
(* does with the mutex held is split at the calls of f and at the          *)
(* evaluation of the result, which precedes the deferred stores.           *)
(***************************************************************************)
EXTENDS Naturals

CONSTANT Threads   \* goroutines calling Do and Dispose, again and again

VARIABLES
  done, disposed,         \* o.done, o.disposed
  errDone, errDispose,    \* o.errDone, o.errDispose: "nil" or "err"
  m,                      \* the holder of o.m: {} or a singleton
  pc,                     \* next statement of each thread
  ran,                    \* the current call of the thread has run its f
  ret,                    \* what the call returns, or "none"
  late,                   \* history: the current call began after disposal
  inits, finals,          \* history: how often Do and Dispose ran their f
  initOutcome             \* history: "none", "nil", "err" or "panic"

flags == <<done, disposed, errDone, errDispose>>
history == <<late, inits, finals, initOutcome>>
vars == <<flags, m, pc, ran, ret, history>>

DoPCs == {"Do", "DoLoadDone", "DoLoadDisposed", "DoLock", "DoRecheck", "DoF", "DoResult", "DoOut"}
DisposePCs == {"Dispose", "DisposeLock", "DisposeRecheck", "DisposeF", "DisposeResult", "DisposeOut"}

\* The statements a goroutine reaches only with o.m locked.
Critical == {"DoRecheck", "DoF", "DoOut", "DisposeRecheck", "DisposeF", "DisposeOut"}

TypeOK ==
  /\ done \in BOOLEAN /\ disposed \in BOOLEAN
  /\ errDone \in {"nil", "err"} /\ errDispose \in {"nil", "err"}
  /\ m \in SUBSET Threads
  /\ pc \in [Threads -> {"idle", "DoReturned", "DisposeReturned"} \cup DoPCs \cup DisposePCs]
  /\ ran \in [Threads -> BOOLEAN]
  /\ ret \in [Threads -> {"none", "nil", "err", "disposed", "panic"}]
  /\ late \in [Threads -> BOOLEAN]
  /\ inits \in Nat /\ finals \in Nat
  /\ initOutcome \in {"none", "nil", "err", "panic"}

Init ==
  /\ done = FALSE /\ disposed = FALSE
  /\ errDone = "nil" /\ errDispose = "nil"
  /\ m = {}
  /\ pc = [t \in Threads |-> "idle"]
  /\ ran = [t \in Threads |-> FALSE]
  /\ ret = [t \in Threads |-> "none"]
  /\ late = [t \in Threads |-> FALSE]
  /\ inits = 0 /\ finals = 0
  /\ initOutcome = "none"

Goto(t, label) == pc' = [pc EXCEPT ![t] = label]

Call(t, method) ==
  /\ pc[t] \in {"idle", "DoReturned", "DisposeReturned"}
  /\ Goto(t, method)
  /\ ran' = [ran EXCEPT ![t] = FALSE]
  /\ ret' = [ret EXCEPT ![t] = "none"]
  /\ late' = [late EXCEPT ![t] = disposed]
  /\ UNCHANGED <<flags, m, inits, finals, initOutcome>>

-----------------------------------------------------------------------------
(* Do *)

\* Mutant: Do does not begin with the check of o.disposed.
DoEnterUnchecked(t) ==
  /\ pc[t] = "Do"
  /\ Goto(t, "DoLoadDone")
  /\ UNCHANGED <<flags, m, ran, ret, history>>

\* if o.disposed.Load() { return errors.New(...) }
DoEnter(t) ==
  /\ pc[t] = "Do"
  /\ Goto(t, IF disposed THEN "DoReturned" ELSE "DoLoadDone")
  /\ ret' = [ret EXCEPT ![t] = IF disposed THEN "disposed" ELSE @]
  /\ UNCHANGED <<flags, m, ran, history>>

\* !o.done.Load() && ...
DoLoadDone(t) ==
  /\ pc[t] = "DoLoadDone"
  /\ Goto(t, IF done THEN "DoResult" ELSE "DoLoadDisposed")
  /\ UNCHANGED <<flags, m, ran, ret, history>>

\* ... !o.disposed.Load()
DoLoadDisposed(t) ==
  /\ pc[t] = "DoLoadDisposed"
  /\ Goto(t, IF disposed THEN "DoResult" ELSE "DoLock")
  /\ UNCHANGED <<flags, m, ran, ret, history>>

Lock(t) ==
  /\ pc[t] \in {"DoLock", "DisposeLock"}
  /\ m = {}
  /\ m' = {t}
  /\ Goto(t, IF pc[t] = "DoLock" THEN "DoRecheck" ELSE "DisposeRecheck")
  /\ UNCHANGED <<flags, ran, ret, history>>

\* Mutant: no second check under the mutex.
DoNoRecheck(t) ==
  /\ pc[t] = "DoRecheck"
  /\ Goto(t, "DoF")
  /\ inits' = inits + 1
  /\ UNCHANGED <<flags, m, ran, ret, late, finals, initOutcome>>

\* Mutant: o.done is stored before f is called.
DoRecheckEarlyStore(t) ==
  /\ pc[t] = "DoRecheck"
  /\ Goto(t, IF done \/ disposed THEN "DoResult" ELSE "DoF")
  /\ inits' = IF done \/ disposed THEN inits ELSE inits + 1
  /\ done' = (done \/ ~disposed)
  /\ UNCHANGED <<disposed, errDone, errDispose, m, ran, ret, late, finals, initOutcome>>

\* Both flags change only under o.m, so this is one step.
DoRecheck(t) ==
  /\ pc[t] = "DoRecheck"
  /\ \/ /\ ~done /\ ~disposed
        /\ Goto(t, "DoF")
        /\ inits' = inits + 1
     \/ /\ done \/ disposed
        /\ Goto(t, "DoResult")
        /\ UNCHANGED inits
  /\ UNCHANGED <<flags, m, ran, ret, late, finals, initOutcome>>

\* Mutant: whatever f did is stored as its error.
DoFStoresAll(t, outcome) ==
  /\ pc[t] = "DoF"
  /\ ran' = [ran EXCEPT ![t] = TRUE]
  /\ initOutcome' = outcome
  /\ errDone' = outcome
  /\ Goto(t, "DoResult")
  /\ UNCHANGED <<done, disposed, errDispose, m, ret, late, inits, finals>>

\* f returns nil or an error, which is stored; or it panics, and then only
\* the deferred calls run.
DoF(t, outcome) ==
  /\ pc[t] = "DoF"
  /\ ran' = [ran EXCEPT ![t] = TRUE]
  /\ initOutcome' = outcome
  /\ errDone' = IF outcome = "err" THEN "err" ELSE errDone
  /\ ret' = [ret EXCEPT ![t] = IF outcome = "panic" THEN "panic" ELSE @]
  /\ Goto(t, IF outcome = "panic" THEN "DoOut" ELSE "DoResult")
  /\ UNCHANGED <<done, disposed, errDispose, m, late, inits, finals>>

\* return o.errDone.Load()
DoResult(t) ==
  /\ pc[t] = "DoResult"
  /\ ret' = [ret EXCEPT ![t] = errDone]
  /\ Goto(t, IF m = {t} THEN "DoOut" ELSE "DoReturned")
  /\ UNCHANGED <<flags, m, ran, history>>

\* Mutant: Unlock is not deferred and a panic skips it.
DoOutKeepsLock(t) ==
  /\ pc[t] = "DoOut"
  /\ done' = (done \/ ran[t])
  /\ m' = IF ret[t] = "panic" THEN m ELSE {}
  /\ Goto(t, "DoReturned")
  /\ UNCHANGED <<disposed, errDone, errDispose, ran, ret, history>>

\* The deferred o.done.Store(true), if f was called, and o.m.Unlock().
DoOut(t) ==
  /\ pc[t] = "DoOut"
  /\ done' = (done \/ ran[t])
  /\ m' = {}
  /\ Goto(t, "DoReturned")
  /\ UNCHANGED <<disposed, errDone, errDispose, ran, ret, history>>

-----------------------------------------------------------------------------
(* Dispose *)

\* if !o.wasDisposed()
DisposeEnter(t) ==
  /\ pc[t] = "Dispose"
  /\ Goto(t, IF disposed THEN "DisposeResult" ELSE "DisposeLock")
  /\ UNCHANGED <<flags, m, ran, ret, history>>

DisposeRecheck(t) ==
  /\ pc[t] = "DisposeRecheck"
  /\ \/ /\ ~disposed
        /\ Goto(t, "DisposeF")
        /\ finals' = finals + 1
     \/ /\ disposed
        /\ Goto(t, "DisposeResult")
        /\ UNCHANGED finals
  /\ UNCHANGED <<flags, m, ran, ret, late, inits, initOutcome>>

DisposeF(t, outcome) ==
  /\ pc[t] = "DisposeF"
  /\ ran' = [ran EXCEPT ![t] = TRUE]
  /\ errDispose' = IF outcome = "err" THEN "err" ELSE errDispose
  /\ ret' = [ret EXCEPT ![t] = IF outcome = "panic" THEN "panic" ELSE @]
  /\ Goto(t, IF outcome = "panic" THEN "DisposeOut" ELSE "DisposeResult")
  /\ UNCHANGED <<done, disposed, errDone, m, history>>

\* return o.errDispose.Load()
DisposeResult(t) ==
  /\ pc[t] = "DisposeResult"
  /\ ret' = [ret EXCEPT ![t] = errDispose]
  /\ Goto(t, IF m = {t} THEN "DisposeOut" ELSE "DisposeReturned")
  /\ UNCHANGED <<flags, m, ran, history>>

\* The deferred o.setDisposed(), if f was called, and o.m.Unlock().
DisposeOut(t) ==
  /\ pc[t] = "DisposeOut"
  /\ disposed' = (disposed \/ ran[t])
  /\ m' = {}
  /\ Goto(t, "DisposeReturned")
  /\ UNCHANGED <<done, errDone, errDispose, ran, ret, history>>

-----------------------------------------------------------------------------
Step(t) ==
  \/ DoEnter(t) \/ DoLoadDone(t) \/ DoLoadDisposed(t)
  \/ DoRecheck(t)
  \/ \E outcome \in {"nil", "err", "panic"} : DoF(t, outcome)
  \/ DoResult(t) \/ DoOut(t)
  \/ DisposeEnter(t)
  \/ DisposeRecheck(t)
  \/ \E outcome \in {"nil", "err", "panic"} : DisposeF(t, outcome)
  \/ DisposeResult(t) \/ DisposeOut(t)

Next ==
  \E t \in Threads :
    \/ \E method \in {"Do", "Dispose"} : Call(t, method)
    \/ Lock(t)
    \/ Step(t)

Spec == Init /\ [][Next]_vars

\* Goroutines run, the functions passed in return, and sync.Mutex does not
\* starve a waiter.  Nobody has to make another call.
Fairness == \A t \in Threads : WF_vars(Step(t)) /\ SF_vars(Lock(t))

FairSpec == Spec /\ Fairness

-----------------------------------------------------------------------------
\* Neither function runs twice, whatever races the unlocked loads lose and
\* even if the first run failed or panicked.
AtMostOnce == inits <= 1 /\ finals <= 1

\* The initialiser and the finaliser never run at the same time, and nothing
\* of the initialiser runs once disposal is complete.
NoOverlap ==
  /\ \A t, u \in Threads : {pc[t], pc[u]} \subseteq {"DoF", "DisposeF"} => t = u
  /\ disposed => \A t \in Threads : pc[t] \notin {"DoF", "DisposeF"}

\* A Do that begins after disposal is complete fails (TestErrorCallDo).
DoAfterDisposeFails ==
  \A t \in Threads : (pc[t] = "DoReturned" /\ late[t]) => ret[t] = "disposed"

\* No Do reports success for an initialiser that failed: neither the callers
\* that waited for the mutex nor the ones that took the unlocked path.
NoSwallowedError ==
  \A t \in Threads : (pc[t] = "DoReturned" /\ ret[t] = "nil") => initOutcome # "err"

\* A Do that returns nil although no initialiser ever ran can only be one
\* that Dispose overtook between its first check and the second.
NilMeansRanOrOvertaken ==
  \A t \in Threads :
    (pc[t] = "DoReturned" /\ ret[t] = "nil") => (inits = 1 \/ (disposed /\ ~late[t]))

\* When Dispose returns, disposal is complete, also for a caller whose own
\* function was not the one that ran.
DisposeReturnsDisposed ==
  \A t \in Threads : pc[t] = "DisposeReturned" => (disposed /\ finals = 1)

\* The functions run at most once each and never side by side.
RunOnceAlone == AtMostOnce /\ NoOverlap

\* What a nil error of Do means, for every caller and on both paths: the
\* initialiser did not fail, and it was called, unless Dispose overtook the Do
\* (once.go:43).  One that panicked was called and stored no error, so that
\* later callers are told nil (once.go:36).
NilIsTrue == NoSwallowedError /\ NilMeansRanOrOvertaken

\* Once a Dispose has returned the object is disposed of for everybody.
DisposalIsFinal == DisposeReturnsDisposed /\ DoAfterDisposeFails

\* No call blocks for ever.
CallsReturn ==
  \A t \in Threads :
    (pc[t] \in DoPCs \cup DisposePCs) ~> (pc[t] \in {"DoReturned", "DisposeReturned"})
=============================================================================
