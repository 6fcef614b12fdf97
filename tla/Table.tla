------------------------------- MODULE Table -------------------------------
(***************************************************************************)
(* Table[S] over the pebble database that all tables share: Add, Update    *)
(* and Delete write one key, Get reads one, All walks an iterator over a   *)
(* snapshot while other calls go on writing.  A row remembers the table    *)
(* that marshaled it, as the bytes of a row depend on its type.            *)
(***************************************************************************)
EXTENDS TableKeys, FiniteSets

CONSTANTS
  Ids,         \* ids, sequences of bytes
  Bufs,        \* contents of rows
  Unreadable,  \* the contents that Unmarshal refuses
  Readers,     \* goroutines that call Get and All
  None, Failed

ASSUME TableAssumption == Ids \subseteq Seq(Byte) /\ Unreadable \subseteq Bufs

VARIABLES
  db,    \* the keys stored and their rows
  iter,  \* reader -> the iterator of its call of All, table None without one
  out    \* reader -> what its last call returned, and from which table

vars == <<db, iter, out>>

Rows == [of : Tables, buf : Bufs]

\* What stands for nothing is no table, no row and no map of rows.
ASSUME NoneAssumption == None \notin Tables \cup Rows \cup [Ids -> Rows \cup {None}]

Readable(row) == row.buf \notin Unreadable

Init ==
  /\ db = <<>>
  /\ iter = [r \in Readers |-> [table |-> None, view |-> <<>>, todo |-> {}, data |-> <<>>]]
  /\ out = [r \in Readers |-> [table |-> None, ret |-> None]]

Idle(r) == iter[r].table = None

\* Add and Update are the same call of Set; when Marshal fails they write nothing.
Set(t, id, buf) ==
  /\ db' = [k \in DOMAIN db \cup {encode(t, id)} |->
              IF k = encode(t, id) THEN [of |-> t, buf |-> buf] ELSE db[k]]
  /\ UNCHANGED <<iter, out>>

Delete(t, id) ==
  /\ db' = [k \in DOMAIN db \ {encode(t, id)} |-> db[k]]
  /\ UNCHANGED <<iter, out>>

Return(r, t, value) == out' = [out EXCEPT ![r] = [table |-> t, ret |-> value]]

\* A key that is not there is not an error: no row is returned.
Get(r, t, id) ==
  LET k == encode(t, id) IN
  /\ Idle(r)
  /\ Return(r, t, IF k \notin DOMAIN db THEN <<>>
                  ELSE IF Readable(db[k]) THEN <<db[k]>> ELSE Failed)
  /\ UNCHANGED <<db, iter>>

\* Mutant of NewIter: the upper bound is forgotten.
NewIterUnbounded(t) ==
  LET keys == {k \in DOMAIN db : ~Less(k, encodepreffix(t))}
  IN [table |-> t, view |-> [k \in keys |-> db[k]], todo |-> keys, data |-> <<>>]

\* A pebble iterator sees the database as it is when it is made.
NewIter(t) ==
  LET lower == encodepreffix(t)
      keys == {k \in DOMAIN db : InBounds(k, lower, keyUpperBound(lower))}
  IN [table |-> t, view |-> [k \in keys |-> db[k]], todo |-> keys, data |-> <<>>]

All(r, t) ==
  /\ Idle(r)
  /\ iter' = [iter EXCEPT ![r] = NewIter(t)]
  /\ out' = [out EXCEPT ![r] = [table |-> None, ret |-> None]]
  /\ UNCHANGED db

Close(r) == iter' = [iter EXCEPT ![r] = [table |-> None, view |-> <<>>, todo |-> {}, data |-> <<>>]]

Least(S) == CHOOSE k \in S : \A j \in S \ {k} : Less(k, j)

\* One turn of the loop: Unmarshal, append, Next.
Step(r) ==
  LET k == Least(iter[r].todo) IN
  /\ ~Idle(r) /\ iter[r].todo # {}
  /\ Readable(iter[r].view[k])
  /\ iter' = [iter EXCEPT ![r] = [table |-> @.table, view |-> @.view,
                                  todo |-> @.todo \ {k}, data |-> Append(@.data, @.view[k])]]
  /\ UNCHANGED <<db, out>>

\* A row that cannot be read ends the loop, and All returns no rows at all.
StepFails(r) ==
  /\ ~Idle(r) /\ iter[r].todo # {}
  /\ ~Readable(iter[r].view[Least(iter[r].todo)])
  /\ Return(r, iter[r].table, Failed)
  /\ Close(r)
  /\ UNCHANGED db

AllReturns(r) ==
  /\ ~Idle(r) /\ iter[r].todo = {}
  /\ Return(r, iter[r].table, iter[r].data)
  /\ Close(r)
  /\ UNCHANGED db

\* Get, NewIter, the iterator or its Close report an error of the storage.
StorageFails(r, t) ==
  /\ Idle(r) \/ iter[r].table = t
  /\ Return(r, t, Failed)
  /\ Close(r)
  /\ UNCHANGED db

Next ==
  \/ \E t \in Tables, id \in Ids, buf \in Bufs : Set(t, id, buf)
  \/ \E t \in Tables, id \in Ids : Delete(t, id)
  \/ \E r \in Readers, t \in Tables :
       \/ All(r, t) \/ StorageFails(r, t)
       \/ \E id \in Ids : Get(r, t, id)
  \/ \E r \in Readers : Step(r) \/ StepFails(r) \/ AllReturns(r)

Spec == Init /\ [][Next]_vars

-----------------------------------------------------------------------------
(* Properties. *)

\* Keys have no separators (table.go:139), so that a table may meet rows of
\* another one; it does only when one prefix starts with the other.  No other
\* table can leave a row under the prefix, or in the bounds of a scan.
ForeignRowsOnlyIfNested ==
  /\ \A t \in Tables, k \in DOMAIN db :
       InBounds(k, encodepreffix(t), keyUpperBound(encodepreffix(t)))
         => Nested(t, db[k].of)
  /\ \A r \in Readers : ~Idle(r) =>
       \A k \in DOMAIN iter[r].view : Nested(iter[r].table, iter[r].view[k].of)

\* The map that a function from keys to rows holds for a table.
MapOf(t, store) ==
  [id \in Ids |-> IF encode(t, id) \in DOMAIN store THEN store[encode(t, id)] ELSE None]

Promise ==
  INSTANCE Tables
    WITH Names <- Isolated, IdLess <- Less, Readable <- Readable,
         table <- [t \in Isolated |-> MapOf(t, db)],
         scan <- [r \in Readers |-> IF iter[r].table \in Isolated
                                    THEN MapOf(iter[r].table, iter[r].view) ELSE None],
         out <- [r \in Readers |-> IF out[r].table \in Isolated THEN out[r].ret ELSE None]

\* A table whose prefix is nobody else's is a map of its own: writes to other
\* tables do not touch it, and All returns every row of one moment, in order,
\* or an error, however its steps interleave with writes (table.go:107).
RefinesTables == Promise!Spec
=============================================================================
