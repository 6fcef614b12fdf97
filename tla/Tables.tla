------------------------------- MODULE Tables -------------------------------
(***************************************************************************)
(* What a table promises, whatever the other tables do: it is a map from   *)
(* ids to rows, Get reads one entry, and All returns the rows of a single  *)
(* moment between its call and its return, in the order of their ids.      *)
(***************************************************************************)
EXTENDS Integers, FiniteSets

CONSTANTS
  Names, Ids, Rows, Readers, None, Failed,
  IdLess(_, _),    \* the order of ids
  Readable(_)      \* rows that can be unmarshaled

VARIABLES
  table,  \* table -> id -> row, or None
  scan,   \* what an All under way is going to return, or None
  out     \* what the last call of a reader returned

vars == <<table, scan, out>>

Init ==
  /\ table = [t \in Names |-> [id \in Ids |-> None]]
  /\ scan = [r \in Readers |-> None]
  /\ out = [r \in Readers |-> None]

Store(t, id, row) ==
  /\ table' = [table EXCEPT ![t][id] = row]
  /\ UNCHANGED <<scan, out>>

Answer(r, value) == out' = [out EXCEPT ![r] = value]

\* Unmarshal fails on a row that is not readable.
Lookup(r, t, id) ==
  /\ Answer(r, IF table[t][id] = None THEN <<>>
               ELSE IF Readable(table[t][id]) THEN <<table[t][id]>> ELSE Failed)
  /\ UNCHANGED <<table, scan>>

Begin(r, t) ==
  /\ scan' = [scan EXCEPT ![r] = table[t]]
  /\ Answer(r, None)
  /\ UNCHANGED table

\* The rows of a map from ids to rows in the order of the ids.
Listing(map) ==
  LET live == {id \in Ids : map[id] # None}
      At(n) == CHOOSE id \in live : Cardinality({j \in live : IdLess(j, id)}) = n - 1
  IN [n \in 1 .. Cardinality(live) |-> map[At(n)]]

End(r) ==
  /\ scan[r] # None
  /\ scan' = [scan EXCEPT ![r] = None]
  /\ Answer(r, IF \A id \in Ids : scan[r][id] = None \/ Readable(scan[r][id])
               THEN Listing(scan[r]) ELSE Failed)
  /\ UNCHANGED table

\* The storage may fail at any point of a call.
Fail(r) ==
  /\ scan' = [scan EXCEPT ![r] = None]
  /\ Answer(r, Failed)
  /\ UNCHANGED table

\* The reader turns to a table that is not in Names.
Forget(r) ==
  /\ out' = [out EXCEPT ![r] = None]
  /\ UNCHANGED <<table, scan>>

Next ==
  \/ \E t \in Names, id \in Ids, row \in Rows \cup {None} : Store(t, id, row)
  \/ \E r \in Readers, t \in Names, id \in Ids : Lookup(r, t, id)
  \/ \E r \in Readers, t \in Names : Begin(r, t)
  \/ \E r \in Readers : End(r) \/ Fail(r) \/ Forget(r)

Spec == Init /\ [][Next]_vars
=============================================================================
