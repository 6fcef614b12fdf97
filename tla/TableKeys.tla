----------------------------- MODULE TableKeys -----------------------------
(***************************************************************************)
(* The keys of database/table.go as sequences of bytes: how a key is laid  *)
(* out, the order in which pebble keeps keys, and the bounds with which    *)
(* Table.All asks for the keys that start with the prefix of the table.    *)
(***************************************************************************)
EXTENDS Integers, Sequences

CONSTANTS
  MaxByte,  \* the greatest byte, 255 in the code
  Version,  \* the byte of the version, '0' in the code
  Tables    \* records of a tenant and a name: the tables that are open

Byte == 0 .. MaxByte

ASSUME KeysAssumption ==
  /\ MaxByte \in Nat
  /\ Version \in Byte
  /\ Tables \subseteq [tenant : Seq(Byte), name : Seq(Byte)]

\* Nothing separates the parts of a key.
encodepreffix(t) == <<Version>> \o t.tenant \o t.name

encode(t, id) == encodepreffix(t) \o id

StartsWith(k, p) == /\ Len(p) <= Len(k)
                    /\ \A i \in 1 .. Len(p) : k[i] = p[i]

\* bytes.Compare(a, b) < 0, the order of pebble's default comparer.
Less(a, b) ==
  \/ Len(a) < Len(b) /\ StartsWith(b, a)
  \/ \E i \in 1 .. Len(a) : /\ i <= Len(b)
                            /\ a[i] < b[i]
                            /\ \A j \in 1 .. i - 1 : a[j] = b[j]

\* end[i] + 1 on a byte wraps around.
Increment(x) == IF x = MaxByte THEN 0 ELSE x + 1

\* Mutant of keyUpperBound: the last byte is incremented without a carry.
keyUpperBoundNoCarry(b) ==
  [i \in 1 .. Len(b) |-> IF i = Len(b) THEN Increment(b[i]) ELSE b[i]]

\* The loop stops at the last byte that does not wrap; without one the code
\* returns nil, here the empty sequence, which means no bound.
keyUpperBound(b) ==
  LET stops == {i \in 1 .. Len(b) : Increment(b[i]) # 0}
      last == CHOOSE i \in stops : \A j \in stops : j <= i
  IN IF stops = {} THEN <<>>
     ELSE [i \in 1 .. last |-> IF i = last THEN Increment(b[i]) ELSE b[i]]

\* IterOptions: the lower bound is included, the upper one is not.
InBounds(k, lower, upper) ==
  ~Less(k, lower) /\ (upper # <<>> => Less(k, upper))

\* Two tables share keys only when the prefix of one starts with the other's.
Nested(t, u) == \/ StartsWith(encodepreffix(t), encodepreffix(u))
                \/ StartsWith(encodepreffix(u), encodepreffix(t))

Isolated == {t \in Tables : \A u \in Tables \ {t} : ~Nested(t, u)}
=============================================================================
