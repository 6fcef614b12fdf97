--------------------------- MODULE MCBroadcaster ---------------------------
(* Small instances of Broadcaster for TLC. *)
EXTENDS Broadcaster, TLC

\* Callers, messages and listeners are interchangeable in the safety runs.
Symmetry == Permutations(Callers) \cup Permutations(Messages) \cup Permutations(Listeners)

AllCalls == [p \in Callers |-> ReaderCalls \cup {"Start", "Stop"}]

Owner == CHOOSE p \in Callers : TRUE

\* The owner of the broadcaster and a client of it, as in the package's tests.
OwnerAndClient ==
  [p \in Callers |-> IF p = Owner THEN {"Start", "Stop", "WriteSync"}
                                 ELSE {"Subscribe", "Unsubscribe", "Write"}]
=============================================================================
