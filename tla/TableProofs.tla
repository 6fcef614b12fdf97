---------------------------- MODULE TableProofs ----------------------------
(***************************************************************************)
(* Proofs about the keys of tables and about Table, for every number of    *)
(* tables, ids, rows and readers and for bytes of any width: the bounds of *)
(* a scan select exactly the keys with the prefix of the table, rows of    *)
(* another table are met only when the prefixes are nested, and tables     *)
(* with a prefix of their own implement Tables.                            *)
(***************************************************************************)
EXTENDS Table, SequenceTheorems, FiniteSetTheorems, WellFoundedInduction, TLAPS

-----------------------------------------------------------------------------
(* Keys. *)

\* A set of numbers has a least one.
LEMMA LeastNatural ==
  ASSUME NEW S, S \subseteq Nat, S # {}
  PROVE  \E n \in S : \A m \in S : n <= m
<1> DEFINE R == {ss \in Nat \X Nat : ss[1] < ss[2]}
<1>1. IsWellFoundedOn(R, Nat)
  BY NatLessThanWellFounded DEF OpToRel
<1> HIDE DEF R
<1>2. PICK n \in S : \A m \in S : <<m, n>> \notin R
  BY <1>1, WFMin, Zenon
<1>3. ASSUME NEW m \in S PROVE n <= m
  <2>1. <<m, n>> \notin R
    BY <1>2
  <2>2. ~(m < n)
    BY <2>1 DEF R
  <2>3. m \in Nat /\ n \in Nat
    OBVIOUS
  <2> QED
    BY <2>2, <2>3
<1> QED
  BY <1>3

\* The increment wraps only at the greatest byte.
LEMMA IncrementStops ==
  ASSUME NEW x \in Byte
  PROVE  /\ Increment(x) # 0 <=> x # MaxByte
         /\ x # MaxByte => Increment(x) = x + 1
BY KeysAssumption DEF Byte, Increment

\* Where the loop of keyUpperBound stops, when some byte does not wrap.
LEMMA UpperBoundShape ==
  ASSUME NEW p \in Seq(Byte),
         \E i \in 1 .. Len(p) : p[i] # MaxByte
  PROVE  \E last \in 1 .. Len(p) :
           /\ p[last] # MaxByte
           /\ \A i \in last + 1 .. Len(p) : p[i] = MaxByte
           /\ Len(keyUpperBound(p)) = last
           /\ keyUpperBound(p)[last] = p[last] + 1
           /\ \A i \in 1 .. last - 1 : keyUpperBound(p)[i] = p[i]
<1> DEFINE stops == {i \in 1 .. Len(p) : Increment(p[i]) # 0}
           last == CHOOSE i \in stops : \A j \in stops : j <= i
<1>1. Len(p) \in Nat /\ \A i \in 1 .. Len(p) : p[i] \in Byte
  BY ElementOfSeq, LenProperties
<1>2. stops # {} /\ \A i \in 1 .. Len(p) : i \in stops <=> p[i] # MaxByte
  BY <1>1, IncrementStops
<1>3. \E i \in stops : \A j \in stops : j <= i
  <2> DEFINE below == {Len(p) - i : i \in stops}
  <2>1. below \subseteq Nat /\ below # {}
    BY <1>1, <1>2
  <2>2. PICK n \in below : \A m \in below : n <= m
    BY <2>1, LeastNatural
  <2>3. PICK i \in stops : n = Len(p) - i
    OBVIOUS
  <2>4. ASSUME NEW j \in stops PROVE j <= i
    <3>1. n <= Len(p) - j
      BY <2>2
    <3> QED
      BY <1>1, <2>3, <3>1
  <2> QED
    BY <2>4
<1>4. last \in stops /\ \A j \in stops : j <= last
  BY <1>3
<1>5. keyUpperBound(p) = [i \in 1 .. last |-> IF i = last THEN Increment(p[i]) ELSE p[i]]
  BY <1>2 DEF keyUpperBound
<1> HIDE DEF last
<1>6. last \in 1 .. Len(p) /\ p[last] # MaxByte
  BY <1>2, <1>4
<1>7. \A i \in last + 1 .. Len(p) : p[i] = MaxByte
  BY <1>1, <1>2, <1>4, <1>6
<1>8. Len(keyUpperBound(p)) = last
  BY <1>1, <1>5, <1>6
<1>9. /\ keyUpperBound(p)[last] = p[last] + 1
      /\ \A i \in 1 .. last - 1 : keyUpperBound(p)[i] = p[i]
  BY <1>1, <1>5, <1>6, IncrementStops
<1> QED
  BY <1>6, <1>7, <1>8, <1>9

\* When every byte wraps there is no bound.
LEMMA NoUpperBound ==
  ASSUME NEW p \in Seq(Byte), \A i \in 1 .. Len(p) : p[i] = MaxByte
  PROVE  keyUpperBound(p) = <<>>
BY IncrementStops, ElementOfSeq DEF keyUpperBound

\* The keys between the prefix of a table and keyUpperBound of it
\* (table.go:90) are exactly the keys that start with the prefix, also where
\* the increment carries over bytes 0xff and where there is no bound at all.
THEOREM ScanBoundsExact ==
  ASSUME NEW p \in Seq(Byte), NEW k \in Seq(Byte)
  PROVE  InBounds(k, p, keyUpperBound(p)) <=> StartsWith(k, p)
<1>1. /\ Len(p) \in Nat /\ \A i \in 1 .. Len(p) : p[i] \in 0 .. MaxByte
      /\ Len(k) \in Nat /\ \A i \in 1 .. Len(k) : k[i] \in 0 .. MaxByte
      /\ MaxByte \in Nat
  BY KeysAssumption, ElementOfSeq, LenProperties DEF Byte
<1>2. StartsWith(k, p) => ~Less(k, p)
  BY <1>1 DEF StartsWith, Less
<1>3. ASSUME ~StartsWith(k, p), ~Less(k, p)
      PROVE  \E i \in 1 .. Len(p) : /\ i <= Len(k) /\ p[i] < k[i]
                                    /\ \A j \in 1 .. i - 1 : p[j] = k[j]
  <2> DEFINE differ == {i \in 1 .. Len(p) : i <= Len(k) /\ p[i] # k[i]}
  <2>1. differ \subseteq Nat
    BY <1>1
  <2>2. differ # {}
    <3>1. CASE Len(p) <= Len(k)
      BY <1>1, <1>3, <3>1 DEF StartsWith
    <3>2. CASE Len(k) < Len(p)
      <4>1. PICK i \in 1 .. Len(k) : p[i] # k[i]
        BY <1>1, <1>3, <3>2 DEF StartsWith, Less
      <4>2. i \in differ
        BY <1>1, <3>2, <4>1
      <4> QED
        BY <4>2
    <3> QED
      BY <1>1, <3>1, <3>2
  <2>3. PICK i \in differ : \A j \in differ : i <= j
    BY <2>1, <2>2, LeastNatural
  <2>4. \A j \in 1 .. i - 1 : p[j] = k[j]
    BY <1>1, <2>3
  <2>5. ~(k[i] < p[i])
    BY <1>1, <1>3, <2>3, <2>4 DEF Less
  <2>6. i \in 1 .. Len(p) /\ i <= Len(k) /\ p[i] < k[i]
    BY <1>1, <2>3, <2>5
  <2> QED
    BY <2>4, <2>6
<1>4. CASE \A i \in 1 .. Len(p) : p[i] = MaxByte
  <2>1. keyUpperBound(p) = <<>>
    BY <1>4, NoUpperBound
  <2>2. ~Less(k, p) => StartsWith(k, p)
    BY <1>1, <1>3, <1>4
  <2> QED
    BY <1>2, <2>1, <2>2 DEF InBounds
<1>5. CASE \E i \in 1 .. Len(p) : p[i] # MaxByte
  <2> DEFINE u == keyUpperBound(p)
  <2>1. PICK last \in 1 .. Len(p) :
           /\ p[last] # MaxByte
           /\ \A i \in last + 1 .. Len(p) : p[i] = MaxByte
           /\ Len(u) = last
           /\ u[last] = p[last] + 1
           /\ \A i \in 1 .. last - 1 : u[i] = p[i]
    BY <1>5, UpperBoundShape
  <2> HIDE DEF u
  <2>2. u # <<>>
    BY <1>1, <2>1
  <2>3. ASSUME StartsWith(k, p) PROVE Less(k, u)
    <3>1. last \in 1 .. Len(k) /\ last <= Len(u) /\ k[last] < u[last]
      BY <1>1, <2>1, <2>3 DEF StartsWith
    <3>2. \A j \in 1 .. last - 1 : k[j] = u[j]
      BY <1>1, <2>1, <2>3 DEF StartsWith
    <3> QED
      BY <3>1, <3>2 DEF Less
  <2>4. ASSUME ~StartsWith(k, p), ~Less(k, p) PROVE ~Less(k, u)
    <3>1. PICK i \in 1 .. Len(p) : /\ i <= Len(k) /\ p[i] < k[i]
                                  /\ \A j \in 1 .. i - 1 : p[j] = k[j]
      BY <1>3, <2>4
    <3>2. i <= last
      BY <1>1, <2>1, <3>1
    <3>3. \A j \in 1 .. i - 1 : u[j] = k[j]
      BY <1>1, <2>1, <3>1, <3>2
    <3>4. i = last \/ u[i] < k[i]
      BY <1>1, <2>1, <3>1, <3>2
    <3>5. u[i] <= k[i] /\ k[i] \in Nat /\ u[i] \in Nat
      BY <1>1, <2>1, <3>1, <3>2, <3>4
    <3>6. ASSUME Len(k) < Len(u), StartsWith(u, k) PROVE FALSE
      <4>1. i < last /\ u[i] = k[i]
        BY <1>1, <2>1, <3>1, <3>6 DEF StartsWith
      <4> QED
        BY <1>1, <3>4, <3>5, <4>1
    <3>7. ASSUME NEW m \in 1 .. Len(k), m <= Len(u), k[m] < u[m],
                 \A j \in 1 .. m - 1 : k[j] = u[j]
          PROVE  FALSE
      <4>1. CASE m < i
        BY <1>1, <3>1, <3>3, <3>7, <4>1
      <4>2. CASE m = i
        BY <3>5, <3>7, <4>2
      <4>3. CASE i < m
        BY <1>1, <2>1, <3>1, <3>4, <3>5, <3>7, <4>3
      <4> QED
        BY <1>1, <4>1, <4>2, <4>3
    <3> QED
      BY <3>6, <3>7 DEF Less
  <2> QED
    BY <1>2, <2>2, <2>3, <2>4 DEF InBounds, u
<1> QED
  BY <1>4, <1>5

-----------------------------------------------------------------------------
(* Rows of other tables. *)

\* Prefixes are sequences of bytes.
LEMMA PrefixIsBytes ==
  ASSUME NEW t \in Tables
  PROVE  encodepreffix(t) \in Seq(Byte)
<1>1. t.tenant \in Seq(Byte) /\ t.name \in Seq(Byte) /\ <<Version>> \in Seq(Byte)
  BY KeysAssumption
<1> QED
  BY <1>1, ConcatProperties DEF encodepreffix

\* So are keys, and they start with the prefix of their table.
LEMMA KeysAreBytes ==
  ASSUME NEW t \in Tables, NEW id \in Ids
  PROVE  /\ encode(t, id) \in Seq(Byte)
         /\ StartsWith(encode(t, id), encodepreffix(t))
<1>1. id \in Seq(Byte)
  BY TableAssumption
<1> QED
  BY <1>1, PrefixIsBytes, ConcatProperties, LenProperties DEF encode, StartsWith

\* A key that starts with two prefixes: one of them starts with the other.
LEMMA CommonKeyNests ==
  ASSUME NEW t \in Tables, NEW u \in Tables, NEW k \in Seq(Byte),
         StartsWith(k, encodepreffix(t)), StartsWith(k, encodepreffix(u))
  PROVE  Nested(t, u)
<1>1. /\ Len(encodepreffix(t)) \in Nat
      /\ Len(encodepreffix(u)) \in Nat
  BY PrefixIsBytes, LenProperties
<1> QED
  BY <1>1 DEF Nested, StartsWith

\* A row lies under a key of the table that marshaled it.
Owned(store) ==
  \A k \in DOMAIN store :
    store[k].of \in Tables /\ \E id \in Ids : k = encode(store[k].of, id)

\* Each reader has an iterator record, and one in use has rows of its bounds.
IterOK ==
  /\ iter = [r \in Readers |-> iter[r]]
  /\ \A r \in Readers :
       /\ iter[r] = [table |-> iter[r].table, view |-> iter[r].view,
                     todo |-> iter[r].todo, data |-> iter[r].data]
       /\ ~Idle(r) =>
            /\ iter[r].table \in Tables
            /\ Owned(iter[r].view)
            /\ \A k \in DOMAIN iter[r].view :
                 StartsWith(k, encodepreffix(iter[r].table))

IInv == Owned(db) /\ IterOK

\* Rows that are owned may be foreign only to tables with a nested prefix.
LEMMA OwnedRowsAreNested ==
  ASSUME NEW store, Owned(store), NEW k \in DOMAIN store, NEW t \in Tables,
         StartsWith(k, encodepreffix(t))
  PROVE  Nested(t, store[k].of)
<1>1. PICK id \in Ids : k = encode(store[k].of, id)
  BY DEF Owned
<1>2. store[k].of \in Tables
  BY DEF Owned
<1> QED
  BY <1>1, <1>2, KeysAreBytes, CommonKeyNests

\* A new iterator has rows of the table's prefix only.
LEMMA NewIterOwned ==
  ASSUME NEW t \in Tables, Owned(db)
  PROVE  /\ Owned(NewIter(t).view)
         /\ \A k \in DOMAIN NewIter(t).view : StartsWith(k, encodepreffix(t))
<1> DEFINE p == encodepreffix(t)
           keys == {k \in DOMAIN db : InBounds(k, p, keyUpperBound(p))}
<1>1. NewIter(t).view = [k \in keys |-> db[k]]
  BY DEF NewIter
<1>2. Owned(NewIter(t).view)
  BY <1>1 DEF Owned
<1>3. ASSUME NEW k \in keys PROVE StartsWith(k, p)
  <2>1. k \in Seq(Byte)
    BY KeysAreBytes DEF Owned
  <2> QED
    BY <1>3, <2>1, PrefixIsBytes, ScanBoundsExact
<1> QED
  BY <1>1, <1>2, <1>3

LEMMA InitOK == Init => IInv
<1> SUFFICES ASSUME Init PROVE IInv
  OBVIOUS
<1>1. Owned(db)
  BY DEF Init, Owned
<1>2. IterOK
  BY DEF Init, IterOK, Idle
<1> QED
  BY <1>1, <1>2 DEF IInv

\* One step per action: writes keep the database owned, the steps of a scan
\* leave its snapshot alone.
LEMMA NextOK == IInv /\ [Next]_vars => IInv'
<1> SUFFICES ASSUME IInv, [Next]_vars PROVE IInv'
  OBVIOUS
<1>1. ASSUME NEW t \in Tables, NEW id \in Ids, NEW buf \in Bufs, Set(t, id, buf)
      PROVE  IInv'
  <2>1. Owned(db)'
    BY <1>1 DEF IInv, Set, Owned
  <2> QED
    BY <1>1, <2>1 DEF IInv, Set, IterOK, Idle
<1>2. ASSUME NEW t \in Tables, NEW id \in Ids, Delete(t, id)
      PROVE  IInv'
  <2>1. Owned(db)'
    BY <1>2 DEF IInv, Delete, Owned
  <2> QED
    BY <1>2, <2>1 DEF IInv, Delete, IterOK, Idle
<1>3. ASSUME NEW r \in Readers, NEW t \in Tables, All(r, t)
      PROVE  IInv'
  <2>1. /\ db' = db
        /\ iter' = [iter EXCEPT ![r] = NewIter(t)]
    BY <1>3 DEF All
  <2>2. NewIter(t) = [table |-> t, view |-> NewIter(t).view,
                      todo |-> NewIter(t).todo, data |-> NewIter(t).data]
    BY DEF NewIter
  <2>3. /\ Owned(NewIter(t).view)
        /\ \A k \in DOMAIN NewIter(t).view : StartsWith(k, encodepreffix(t))
    BY NewIterOwned DEF IInv
  <2> HIDE DEF NewIter
  <2>4. IterOK'
    BY <2>1, <2>2, <2>3 DEF IInv, IterOK, Idle
  <2> QED
    BY <2>1, <2>4 DEF IInv, Owned
<1>4. ASSUME NEW r \in Readers, Close(r), UNCHANGED db
      PROVE  IInv'
  <2>1. Owned(db)'
    BY <1>4 DEF IInv, Owned
  <2>2. IterOK'
    BY <1>4 DEF IInv, Close, IterOK, Idle
  <2> QED
    BY <2>1, <2>2 DEF IInv
<1>5. ASSUME NEW r \in Readers, Step(r)
      PROVE  IInv'
  <2>1. Owned(db)'
    BY <1>5 DEF IInv, Step, Owned
  <2>2. PICK todo, data :
           iter' = [iter EXCEPT ![r] = [table |-> iter[r].table, view |-> iter[r].view,
                                        todo |-> todo, data |-> data]]
    BY <1>5 DEF Step
  <2>3. IterOK'
    BY <2>2 DEF IInv, IterOK, Idle
  <2> QED
    BY <2>1, <2>3 DEF IInv
<1>6. ASSUME UNCHANGED <<db, iter>>
      PROVE  IInv'
  BY <1>6 DEF IInv, IterOK, Idle, Owned
<1> QED
  BY <1>1, <1>2, <1>3, <1>4, <1>5, <1>6
  DEF Next, vars, Get, StepFails, AllReturns, StorageFails

LEMMA IInvSafe == IInv => ForeignRowsOnlyIfNested
<1> SUFFICES ASSUME IInv PROVE ForeignRowsOnlyIfNested
  OBVIOUS
<1>1. ASSUME NEW t \in Tables, NEW k \in DOMAIN db,
             InBounds(k, encodepreffix(t), keyUpperBound(encodepreffix(t)))
      PROVE  Nested(t, db[k].of)
  <2>1. k \in Seq(Byte)
    BY KeysAreBytes DEF IInv, Owned
  <2>2. StartsWith(k, encodepreffix(t))
    BY <1>1, <2>1, PrefixIsBytes, ScanBoundsExact
  <2> QED
    BY <2>2, OwnedRowsAreNested DEF IInv
<1>2. ASSUME NEW r \in Readers, ~Idle(r), NEW k \in DOMAIN iter[r].view
      PROVE  Nested(iter[r].table, iter[r].view[k].of)
  BY <1>2, OwnedRowsAreNested DEF IInv, IterOK
<1> QED
  BY <1>1, <1>2 DEF ForeignRowsOnlyIfNested

\* A table meets a row of another table, in its bounds or in a scan, only if
\* the prefix of one of them starts with the other's (table.go:139).
THEOREM RowsStayApart == Spec => []ForeignRowsOnlyIfNested
BY InitOK, NextOK, IInvSafe, PTL DEF Spec

\* A write to a table leaves every entry of an isolated table as it is, because
\* no key of the one is a key of the other (table.go:139).
THEOREM IsolatedUntouched ==
  ASSUME NEW t \in Isolated, NEW u \in Tables \ {t}, NEW i \in Ids, NEW j \in Ids
  PROVE  encode(t, i) # encode(u, j)
<1>1. t \in Tables /\ ~Nested(t, u)
  BY DEF Isolated
<1>2. /\ encode(t, i) \in Seq(Byte) /\ StartsWith(encode(t, i), encodepreffix(t))
      /\ encode(u, j) \in Seq(Byte) /\ StartsWith(encode(u, j), encodepreffix(u))
  BY <1>1, KeysAreBytes
<1> QED
  BY <1>1, <1>2, CommonKeyNests

-----------------------------------------------------------------------------
(* The order of keys. *)

\* A key is not less than itself.
LEMMA LessIrreflexive ==
  ASSUME NEW a \in Seq(Byte) PROVE ~Less(a, a)
<1>1. Len(a) \in Nat /\ \A i \in 1 .. Len(a) : a[i] \in Int
  BY KeysAssumption DEF Byte
<1> QED
  BY <1>1 DEF Less

\* Nor do keys go round in a circle.
LEMMA LessTransitive ==
  ASSUME NEW a \in Seq(Byte), NEW b \in Seq(Byte), NEW c \in Seq(Byte), Less(a, b), Less(b, c)
  PROVE  Less(a, c)
<1>1. /\ Len(a) \in Nat /\ Len(b) \in Nat /\ Len(c) \in Nat
      /\ \A i \in 1 .. Len(a) : a[i] \in Int
      /\ \A i \in 1 .. Len(b) : b[i] \in Int
      /\ \A i \in 1 .. Len(c) : c[i] \in Int
  BY KeysAssumption DEF Byte
<1>2. CASE StartsWith(b, a) /\ Len(a) < Len(b)
  <2>1. CASE StartsWith(c, b) /\ Len(b) < Len(c)
    BY <1>1, <1>2, <2>1 DEF Less, StartsWith
  <2>2. ASSUME NEW i \in 1 .. Len(b), i <= Len(c), b[i] < c[i], \A j \in 1 .. i - 1 : b[j] = c[j]
        PROVE  Less(a, c)
    <3>1. CASE i <= Len(a)
      <4>1. i \in 1 .. Len(a) /\ a[i] = b[i] /\ \A j \in 1 .. i - 1 : a[j] = b[j]
        BY <1>1, <1>2, <3>1 DEF StartsWith
      <4> QED
        BY <1>1, <2>2, <4>1 DEF Less
    <3>2. CASE Len(a) < i
      BY <1>1, <1>2, <2>2, <3>2 DEF Less, StartsWith
    <3> QED
      BY <1>1, <3>1, <3>2
  <2> QED
    BY <2>1, <2>2 DEF Less
<1>3. ASSUME NEW i \in 1 .. Len(a), i <= Len(b), a[i] < b[i], \A j \in 1 .. i - 1 : a[j] = b[j]
      PROVE  Less(a, c)
  <2>1. CASE StartsWith(c, b) /\ Len(b) < Len(c)
    <3>1. i <= Len(c) /\ a[i] < c[i] /\ \A j \in 1 .. i - 1 : a[j] = c[j]
      BY <1>1, <1>3, <2>1 DEF StartsWith
    <3> QED
      BY <3>1 DEF Less
  <2>2. ASSUME NEW k \in 1 .. Len(b), k <= Len(c), b[k] < c[k], \A j \in 1 .. k - 1 : b[j] = c[j]
        PROVE  Less(a, c)
    <3>1. CASE i <= k
      <4>1. i <= Len(c) /\ a[i] < c[i] /\ \A j \in 1 .. i - 1 : a[j] = c[j]
        BY <1>1, <1>3, <2>2, <3>1
      <4> QED
        BY <4>1 DEF Less
    <3>2. CASE k < i
      <4>1. k \in 1 .. Len(a) /\ a[k] < c[k] /\ \A j \in 1 .. k - 1 : a[j] = c[j]
        BY <1>1, <1>3, <2>2, <3>2
      <4> QED
        BY <2>2, <4>1 DEF Less
    <3> QED
      BY <3>1, <3>2
  <2> QED
    BY <2>1, <2>2 DEF Less
<1> QED
  BY <1>2, <1>3 DEF Less

\* Of two different keys one is less.
LEMMA LessTotal ==
  ASSUME NEW a \in Seq(Byte), NEW b \in Seq(Byte), a # b
  PROVE  Less(a, b) \/ Less(b, a)
<1>1. /\ Len(a) \in Nat /\ Len(b) \in Nat
      /\ \A i \in 1 .. Len(a) : a[i] \in Int
      /\ \A i \in 1 .. Len(b) : b[i] \in Int
  BY KeysAssumption DEF Byte
<1> DEFINE D == {i \in Nat : i \in 1 .. Len(a) /\ i \in 1 .. Len(b) /\ a[i] # b[i]}
<1>2. CASE D = {}
  <2>1. \A i \in 1 .. Len(a) : i <= Len(b) => a[i] = b[i]
    BY <1>1, <1>2
  <2>2. CASE Len(a) = Len(b)
    <3>1. \A i \in 1 .. Len(a) : a[i] = b[i]
      BY <1>1, <2>1, <2>2
    <3> QED
      BY <2>2, <3>1, SeqEqual
  <2>3. CASE Len(a) < Len(b)
    BY <1>1, <2>1, <2>3 DEF Less, StartsWith
  <2>4. CASE Len(b) < Len(a)
    BY <1>1, <2>1, <2>4 DEF Less, StartsWith
  <2> QED
    BY <1>1, <2>2, <2>3, <2>4
<1>3. CASE D # {}
  <2>1. PICK i \in D : \A j \in D : i <= j
    <3>1. D \subseteq Nat
      OBVIOUS
    <3> HIDE DEF D
    <3> QED
      BY <1>3, <3>1, LeastNatural
  <2>2. i \in 1 .. Len(a) /\ i \in 1 .. Len(b) /\ a[i] # b[i]
    BY <2>1
  <2>3. ASSUME NEW j \in 1 .. i - 1 PROVE a[j] = b[j]
    <3>1. j \in Nat /\ j \in 1 .. Len(a) /\ j \in 1 .. Len(b) /\ ~(i <= j)
      BY <1>1, <2>2
    <3> QED
      BY <2>1, <3>1
  <2>4. a[i] < b[i] \/ b[i] < a[i]
    BY <1>1, <2>2
  <2> QED
    BY <1>1, <2>2, <2>3, <2>4 DEF Less
<1> QED
  BY <1>2, <1>3

\* From the position n on, x is a.
After(x, n, a) ==
  /\ Len(x) = n + Len(a)
  /\ \A i \in 1 .. Len(a) : x[n + i] = a[i]

Agree(x, y, n) == \A i \in 1 .. n : x[i] = y[i]

\* Sequences that agree up to n are in the order of what follows.
LEMMA LessAfter ==
  ASSUME NEW n \in Nat, NEW a \in Seq(Byte), NEW b \in Seq(Byte), NEW x \in Seq(Byte), NEW y \in Seq(Byte),
         After(x, n, a), After(y, n, b), Agree(x, y, n)
  PROVE  Less(x, y) <=> Less(a, b)
<1> USE DEF After, Agree
<1>1. /\ Len(a) \in Nat /\ Len(b) \in Nat
      /\ \A i \in 1 .. n : x[i] \in Int /\ y[i] \in Int
  BY KeysAssumption DEF Byte
<1>2. ASSUME Less(a, b) PROVE Less(x, y)
  <2>1. CASE StartsWith(b, a) /\ Len(a) < Len(b)
    <3>1. Len(x) < Len(y)
      BY <1>1, <2>1
    <3>2. ASSUME NEW i \in 1 .. Len(x) PROVE y[i] = x[i]
      <4>1. CASE i <= n
        BY <1>1, <4>1
      <4>2. CASE n < i
        <5>1. i - n \in 1 .. Len(a) /\ i - n \in 1 .. Len(b) /\ i = n + (i - n)
          BY <1>1, <2>1, <4>2
        <5>2. b[i - n] = a[i - n]
          BY <2>1, <5>1 DEF StartsWith
        <5> QED
          BY <5>1, <5>2
      <4> QED
        BY <1>1, <4>1, <4>2
    <3> QED
      BY <1>1, <3>1, <3>2 DEF Less, StartsWith
  <2>2. ASSUME NEW k \in 1 .. Len(a), k <= Len(b), a[k] < b[k], \A j \in 1 .. k - 1 : a[j] = b[j]
        PROVE  Less(x, y)
    <3>1. /\ n + k \in 1 .. Len(x) /\ n + k <= Len(y)
          /\ x[n + k] < y[n + k]
      BY <1>1, <2>2
    <3>2. ASSUME NEW i \in 1 .. n + k - 1 PROVE x[i] = y[i]
      <4>1. CASE i <= n
        BY <1>1, <4>1
      <4>2. CASE n < i
        <5>1. /\ i - n \in 1 .. k - 1 /\ i - n \in 1 .. Len(a) /\ i - n \in 1 .. Len(b)
              /\ i = n + (i - n)
          BY <1>1, <2>2, <4>2
        <5>2. a[i - n] = b[i - n]
          BY <2>2, <5>1
        <5> QED
          BY <5>1, <5>2
      <4> QED
        BY <1>1, <2>2, <4>1, <4>2
    <3> QED
      BY <3>1, <3>2 DEF Less
  <2> QED
    BY <1>2, <2>1, <2>2 DEF Less
<1>3. ASSUME Less(x, y) PROVE Less(a, b)
  <2>1. CASE StartsWith(y, x) /\ Len(x) < Len(y)
    <3>1. Len(a) < Len(b)
      BY <1>1, <2>1
    <3>2. ASSUME NEW i \in 1 .. Len(a) PROVE b[i] = a[i]
      <4>1. n + i \in 1 .. Len(x) /\ i \in 1 .. Len(b)
        BY <1>1, <3>1
      <4>2. y[n + i] = x[n + i]
        BY <2>1, <4>1 DEF StartsWith
      <4>3. x[n + i] = a[i] /\ y[n + i] = b[i]
        BY <4>1
      <4> QED
        BY <4>2, <4>3
    <3> QED
      BY <1>1, <3>1, <3>2 DEF Less, StartsWith
  <2>2. ASSUME NEW k \in 1 .. Len(x), k <= Len(y), x[k] < y[k],
               \A j \in 1 .. k - 1 : x[j] = y[j]
        PROVE  Less(a, b)
    <3>1. n < k
      <4>1. ASSUME k <= n PROVE FALSE
        <5>1. x[k] = y[k] /\ x[k] \in Int
          BY <1>1, <2>2, <4>1
        <5> QED
          BY <2>2, <5>1
      <4> QED
        BY <1>1, <4>1
    <3>2. /\ k - n \in 1 .. Len(a) /\ k - n <= Len(b) /\ k - n \in 1 .. Len(b)
          /\ k = n + (k - n)
      BY <1>1, <2>2, <3>1
    <3>3. a[k - n] < b[k - n]
      BY <2>2, <3>2
    <3>4. ASSUME NEW j \in 1 .. (k - n) - 1 PROVE a[j] = b[j]
      <4>1. n + j \in 1 .. k - 1 /\ j \in 1 .. Len(a) /\ j \in 1 .. Len(b)
        BY <1>1, <3>2
      <4> QED
        BY <2>2, <4>1
    <3> QED
      BY <3>2, <3>3, <3>4 DEF Less
  <2> QED
    BY <1>3, <2>1, <2>2 DEF Less
<1> QED
  BY <1>2, <1>3

\* Keys with the same prefix are in the order of what follows it.
LEMMA LessAfterPrefix ==
  ASSUME NEW p \in Seq(Byte), NEW a \in Seq(Byte), NEW b \in Seq(Byte)
  PROVE  Less(p \o a, p \o b) <=> Less(a, b)
<1>1. ASSUME NEW c \in Seq(Byte)
      PROVE  /\ p \o c \in Seq(Byte) /\ Len(p \o c) = Len(p) + Len(c)
             /\ \A i \in 1 .. Len(p) : (p \o c)[i] = p[i]
             /\ \A i \in 1 .. Len(c) : (p \o c)[Len(p) + i] = c[i]
  <2>1. Len(p) \in Nat /\ Len(c) \in Nat
    OBVIOUS
  <2>2. /\ p \o c \in Seq(Byte) /\ Len(p \o c) = Len(p) + Len(c)
        /\ \A i \in 1 .. Len(p) + Len(c) : (p \o c)[i] = IF i <= Len(p) THEN p[i] ELSE c[i - Len(p)]
    BY ConcatProperties
  <2>3. ASSUME NEW i \in 1 .. Len(c) PROVE (p \o c)[Len(p) + i] = c[i]
    <3>1. Len(p) + i \in 1 .. Len(p) + Len(c) /\ ~(Len(p) + i <= Len(p)) /\ (Len(p) + i) - Len(p) = i
      BY <2>1
    <3> QED
      BY <2>2, <3>1
  <2> QED
    BY <2>1, <2>2, <2>3
<1> DEFINE x == p \o a
           y == p \o b
<1>2. /\ Len(p) \in Nat /\ x \in Seq(Byte) /\ y \in Seq(Byte)
  BY <1>1
<1>3. After(x, Len(p), a) /\ After(y, Len(p), b) /\ Agree(x, y, Len(p))
  BY <1>1, Zenon DEF After, Agree
<1> HIDE DEF x, y
<1>4. Less(x, y) <=> Less(a, b)
  BY <1>2, <1>3, LessAfter, Zenon
<1> QED
  BY <1>4 DEF x, y

-----------------------------------------------------------------------------
(* Finite sets of keys. *)

Below(S, k) == {j \in S : Less(j, k)}

\* The rank of a key grows with the key.
LEMMA RankGrows ==
  ASSUME NEW S, S \subseteq Seq(Byte), IsFiniteSet(S), NEW i \in S, NEW k \in S, Less(i, k)
  PROVE  /\ Cardinality(Below(S, i)) \in Nat /\ Cardinality(Below(S, k)) \in Nat
         /\ Cardinality(Below(S, i)) < Cardinality(Below(S, k))
<1>1. IsFiniteSet(Below(S, k)) /\ IsFiniteSet(Below(S, i))
  BY FS_Subset DEF Below
<1>2. Below(S, i) \subseteq Below(S, k)
  BY LessTransitive DEF Below
<1>3. i \in Below(S, k) /\ i \notin Below(S, i)
  BY LessIrreflexive DEF Below
<1>4. Cardinality(Below(S, i)) \in Nat /\ Cardinality(Below(S, k)) \in Nat
  BY <1>1, FS_CardinalityType
<1>5. /\ Cardinality(Below(S, i)) <= Cardinality(Below(S, k))
      /\ Cardinality(Below(S, k)) = Cardinality(Below(S, i)) => Below(S, k) = Below(S, i)
  BY <1>1, <1>2, FS_Subset
<1> QED
  BY <1>3, <1>4, <1>5

\* A set of keys has a least one.
LEMMA LeastIsLeast ==
  ASSUME NEW S, S \subseteq Seq(Byte), IsFiniteSet(S), S # {}
  PROVE  Least(S) \in S /\ \A j \in S \ {Least(S)} : Less(Least(S), j)
<1> DEFINE R == {Cardinality(Below(S, k)) : k \in S}
<1>1. R \subseteq Nat /\ R # {}
  <2>1. ASSUME NEW k \in S PROVE Cardinality(Below(S, k)) \in Nat
    <3>1. IsFiniteSet(Below(S, k))
      BY FS_Subset DEF Below
    <3> QED
      BY <3>1, FS_CardinalityType
  <2> QED
    BY <2>1
<1>2. PICK n \in R : \A m \in R : n <= m
  <2> HIDE DEF R
  <2> QED
    BY <1>1, LeastNatural
<1>3. PICK k \in S : \A j \in S : Cardinality(Below(S, k)) <= Cardinality(Below(S, j))
  BY <1>2
<1>4. ASSUME NEW j \in S \ {k} PROVE Less(k, j)
  <2>1. ~Less(j, k)
    BY <1>3, RankGrows
  <2> QED
    BY <2>1, LessTotal
<1> QED
  BY <1>4 DEF Least

-----------------------------------------------------------------------------
(* What a scan has collected. *)

\* The rows of the keys before the iterator are in data, in the order of the
\* keys, and could be read.
ScanOK(view, todo, data) ==
  LET done == DOMAIN view \ todo IN
  /\ IsFiniteSet(DOMAIN view) /\ todo \subseteq DOMAIN view
  /\ \A k \in DOMAIN view : view[k] \in Rows
  /\ \A k \in done : Readable(view[k]) /\ \A j \in todo : Less(k, j)
  /\ data \in Seq(Rows) /\ Len(data) = Cardinality(done)
  /\ \A n \in 1 .. Len(data) : \E k \in done : Cardinality(Below(done, k)) = n - 1 /\ data[n] = view[k]

StoreOK == IsFiniteSet(DOMAIN db) /\ \A k \in DOMAIN db : db[k] \in Rows

ListInv ==
  /\ StoreOK
  /\ out = [r \in Readers |-> out[r]]
  /\ \A r \in Readers : ~Idle(r) => ScanOK(iter[r].view, iter[r].todo, iter[r].data)

\* A new iterator has collected nothing, and its snapshot is finite.
LEMMA ScanBegins ==
  ASSUME StoreOK, NEW t \in Tables
  PROVE  ScanOK(NewIter(t).view, NewIter(t).todo, NewIter(t).data)
<1> DEFINE keys == {k \in DOMAIN db : InBounds(k, encodepreffix(t), keyUpperBound(encodepreffix(t)))}
           view == [k \in keys |-> db[k]]
<1>1. NewIter(t).view = view /\ NewIter(t).todo = keys /\ NewIter(t).data = <<>>
  BY DEF NewIter
<1>2. keys \subseteq DOMAIN db /\ DOMAIN view = keys /\ \A k \in keys : view[k] = db[k]
  OBVIOUS
<1> HIDE DEF keys, view
<1>3. IsFiniteSet(DOMAIN view) /\ \A k \in DOMAIN view : view[k] \in Rows
  BY <1>2, FS_Subset DEF StoreOK
<1>4. DOMAIN view \ keys = {} /\ Cardinality({}) = 0
  BY <1>2, FS_EmptySet
<1>5. <<>> \in Seq(Rows) /\ Len(<<>>) = 0
  OBVIOUS
<1>6. ScanOK(view, keys, <<>>)
  BY <1>2, <1>3, <1>4, <1>5 DEF ScanOK
<1> QED
  BY <1>1, <1>6

\* A turn of the loop appends the row of the least key left.
LEMMA ScanSteps ==
  ASSUME NEW view, NEW todo, NEW data, ScanOK(view, todo, data), DOMAIN view \subseteq Seq(Byte),
         todo # {}, Readable(view[Least(todo)])
  PROVE  ScanOK(view, todo \ {Least(todo)}, Append(data, view[Least(todo)]))
<1> DEFINE k == Least(todo)
           done == DOMAIN view \ todo
           after == DOMAIN view \ (todo \ {k})
           more == Append(data, view[k])
<1>1. IsFiniteSet(todo) /\ IsFiniteSet(done)
  BY FS_Subset DEF ScanOK
<1>2. k \in todo /\ \A j \in todo \ {k} : Less(k, j)
  BY <1>1, LeastIsLeast DEF ScanOK
<1> HIDE DEF k
<1>3. k \in DOMAIN view /\ k \notin done /\ after = done \cup {k} /\ view[k] \in Rows
  BY <1>2 DEF ScanOK
<1>4. Cardinality(after) = Cardinality(done) + 1 /\ Cardinality(done) \in Nat
  BY <1>1, <1>3, FS_AddElement, FS_CardinalityType
<1>5. \A j \in done : Less(j, k)
  BY <1>2 DEF ScanOK
<1>6. ~Less(k, k) /\ \A j \in done : ~Less(k, j)
  BY <1>3, <1>5, LessIrreflexive, LessTransitive
<1>7. Below(after, k) = done
  BY <1>3, <1>5, <1>6 DEF Below
<1>8. \A j \in done : Below(after, j) = Below(done, j)
  BY <1>3, <1>6 DEF Below
<1>9. /\ data \in Seq(Rows) /\ Len(data) = Cardinality(done)
      /\ \A n \in 1 .. Len(data) :
           \E j \in done : Cardinality(Below(done, j)) = n - 1 /\ data[n] = view[j]
  BY DEF ScanOK
<1>10. /\ more \in Seq(Rows) /\ Len(more) = Len(data) + 1 /\ more[Len(data) + 1] = view[k]
       /\ \A n \in 1 .. Len(data) : more[n] = data[n]
  <2>1. data \in Seq(Rows) /\ view[k] \in Rows
    BY <1>3, <1>9
  <2> QED
    BY <2>1, AppendProperties
<1> HIDE DEF done, after, more
<1>11. ASSUME NEW n \in 1 .. Len(more)
       PROVE  \E j \in after : Cardinality(Below(after, j)) = n - 1 /\ more[n] = view[j]
  <2>1. CASE n = Len(data) + 1
    BY <1>3, <1>4, <1>7, <1>9, <1>10, <2>1
  <2>2. CASE n \in 1 .. Len(data)
    <3>1. PICK j \in done : Cardinality(Below(done, j)) = n - 1 /\ data[n] = view[j]
      BY <1>9, <2>2
    <3> QED
      BY <1>3, <1>8, <1>10, <2>2, <3>1
  <2> QED
    BY <1>4, <1>9, <1>10, <2>1, <2>2
<1>12. \A j \in after : Readable(view[j]) /\ \A i \in todo \ {k} : Less(j, i)
  <2>1. \A j \in done : Readable(view[j]) /\ \A i \in todo : Less(j, i)
    BY DEF ScanOK, done
  <2>2. Readable(view[k])
    BY DEF k
  <2> QED
    BY <1>2, <1>3, <2>1, <2>2
<1>13. /\ IsFiniteSet(DOMAIN view) /\ todo \ {k} \subseteq DOMAIN view
       /\ \A j \in DOMAIN view : view[j] \in Rows
  BY DEF ScanOK
<1>14. more \in Seq(Rows) /\ Len(more) = Cardinality(after)
  BY <1>4, <1>9, <1>10
<1> QED
  BY <1>11, <1>12, <1>13, <1>14 DEF ScanOK, after, more, k

\* The instance of FiniteSets in the abstract module is the same.
LEMMA SameCardinality == ASSUME NEW S PROVE Promise!Cardinality(S) = Cardinality(S)
  BY DEF Promise!Cardinality, Cardinality

\* Different ids have different keys.
LEMMA EncodeInjective ==
  ASSUME NEW t \in Tables, NEW i \in Ids, NEW j \in Ids, encode(t, i) = encode(t, j)
  PROVE  i = j
<1>1. i \in Seq(Byte) /\ j \in Seq(Byte) /\ encode(t, i) \in Seq(Byte)
  BY TableAssumption, KeysAreBytes
<1>2. (Less(encode(t, i), encode(t, j)) <=> Less(i, j)) /\ (Less(encode(t, j), encode(t, i)) <=> Less(j, i))
  BY <1>1, PrefixIsBytes, LessAfterPrefix DEF encode
<1>3. ~Less(encode(t, i), encode(t, i))
  BY <1>1, LessIrreflexive
<1>4. ~Less(i, j) /\ ~Less(j, i)
  BY <1>2, <1>3
<1> QED
  BY <1>1, <1>4, LessTotal

\* Ids and their keys are equally many.
LEMMA AsManyKeys ==
  ASSUME NEW t \in Tables, NEW T, T \subseteq Ids, IsFiniteSet({encode(t, i) : i \in T})
  PROVE  Cardinality(T) = Cardinality({encode(t, i) : i \in T})
<1> DEFINE K == {encode(t, i) : i \in T}
           f == [i \in T |-> encode(t, i)]
<1>1. f \in Injection(T, K)
  BY EncodeInjective DEF Injection, IsInjective
<1>2. f \in Surjection(T, K)
  BY DEF Surjection
<1> HIDE DEF f
<1> QED
  BY <1>1, <1>2, FS_Injection

\* A scan that is through has the rows of the table, in the order of the ids.
LEMMA ScanLists ==
  ASSUME NEW t \in Isolated, NEW view, NEW data, ScanOK(view, {}, data), Owned(view),
         \A k \in DOMAIN view : StartsWith(k, encodepreffix(t))
  PROVE  /\ Promise!Listing(MapOf(t, view)) = data
         /\ \A id \in Ids : MapOf(t, view)[id] = None \/ Readable(MapOf(t, view)[id])
<1> DEFINE map == MapOf(t, view)
           live == {id \in Ids : map[id] # None}
           keys == DOMAIN view
           At(n) == CHOOSE id \in live : Promise!Cardinality({j \in live : Less(j, id)}) = n - 1
<1>1. t \in Tables /\ \A u \in Tables \ {t} : ~Nested(t, u)
  BY DEF Isolated
<1>2. /\ IsFiniteSet(keys) /\ \A k \in keys : view[k] \in Rows /\ Readable(view[k])
      /\ data \in Seq(Rows) /\ Len(data) = Cardinality(keys)
      /\ \A n \in 1 .. Len(data) :
           \E k \in keys : Cardinality(Below(keys, k)) = n - 1 /\ data[n] = view[k]
  <2>1. keys \ {} = keys
    OBVIOUS
  <2> QED
    BY <2>1 DEF ScanOK
<1>3. \A id \in Ids : map[id] = IF encode(t, id) \in keys THEN view[encode(t, id)] ELSE None
  BY DEF MapOf
<1>4. None \notin Rows
  BY NoneAssumption
<1>5. \A id \in Ids : id \in live <=> encode(t, id) \in keys
  BY <1>2, <1>3, <1>4
<1>6. ASSUME NEW k \in keys PROVE k \in Seq(Byte) /\ \E id \in live : k = encode(t, id)
  <2>1. PICK u \in Tables, id \in Ids : k = encode(u, id)
    BY DEF Owned
  <2>2. k \in Seq(Byte) /\ StartsWith(k, encodepreffix(u)) /\ StartsWith(k, encodepreffix(t))
    BY <2>1, KeysAreBytes
  <2>3. u = t
    BY <1>1, <2>2, CommonKeyNests
  <2> QED
    BY <1>5, <2>1, <2>2, <2>3
<1>7. \A id \in Ids : map[id] = None \/ Readable(map[id])
  BY <1>2, <1>3
<1> HIDE DEF map
<1>8. ASSUME NEW T, T \subseteq live
      PROVE  Cardinality(T) = Cardinality({encode(t, i) : i \in T})
  <2>1. {encode(t, i) : i \in T} \subseteq keys
    BY <1>5, <1>8
  <2>2. IsFiniteSet({encode(t, i) : i \in T})
    BY <1>2, <2>1, FS_Subset
  <2>3. T \subseteq Ids
    BY <1>8
  <2> QED
    BY <1>1, <2>2, <2>3, AsManyKeys
<1>9. keys = {encode(t, i) : i \in live}
  BY <1>5, <1>6
<1>10. Cardinality(live) = Len(data)
  BY <1>2, <1>8, <1>9
<1>11. ASSUME NEW id \in live
       PROVE  Cardinality({j \in live : Less(j, id)}) = Cardinality(Below(keys, encode(t, id)))
  <2>1. \A j \in live : Less(encode(t, j), encode(t, id)) <=> Less(j, id)
    BY <1>1, PrefixIsBytes, TableAssumption, LessAfterPrefix DEF encode
  <2>2. Below(keys, encode(t, id)) = {encode(t, j) : j \in {i \in live : Less(i, id)}}
    BY <1>9, <2>1 DEF Below
  <2> QED
    BY <1>8, <2>2
<1>12. ASSUME NEW n \in 1 .. Len(data) PROVE map[At(n)] = data[n]
  <2>1. PICK k \in keys : Cardinality(Below(keys, k)) = n - 1 /\ data[n] = view[k]
    BY <1>2
  <2>2. PICK id \in live : k = encode(t, id)
    BY <1>6
  <2>3. Promise!Cardinality({j \in live : Less(j, id)}) = n - 1
    BY <1>11, <2>1, <2>2, SameCardinality
  <2>4. ASSUME NEW i \in live, Promise!Cardinality({j \in live : Less(j, i)}) = n - 1 PROVE i = id
    <3>1. Cardinality(Below(keys, encode(t, i))) = n - 1 /\ encode(t, i) \in keys
      BY <1>9, <1>11, <2>4, SameCardinality
    <3>2. ~Less(encode(t, i), k) /\ ~Less(k, encode(t, i))
      BY <1>2, <1>6, <2>1, <3>1, RankGrows
    <3>3. encode(t, i) = k
      BY <1>6, <3>1, <3>2, LessTotal
    <3> QED
      BY <1>1, <2>2, <3>3, EncodeInjective
  <2>5. At(n) = id
    BY <2>3, <2>4
  <2> QED
    BY <1>3, <1>5, <2>1, <2>2, <2>5
<1>13. Promise!Listing(map) = [n \in 1 .. Promise!Cardinality(live) |-> map[At(n)]]
  BY DEF Promise!Listing
<1>14. Promise!Cardinality(live) = Len(data)
  BY <1>10, SameCardinality
<1> HIDE DEF At, live
<1>15. Promise!Listing(map) = [n \in 1 .. Len(data) |-> data[n]]
  BY <1>12, <1>13, <1>14
<1>16. data = [n \in 1 .. Len(data) |-> data[n]]
  BY <1>2
<1> QED
  BY <1>7, <1>15, <1>16 DEF map

\* The invariant of the scans, initially and over every step.
LEMMA ListInitOK == Init => ListInv
<1> SUFFICES ASSUME Init PROVE ListInv
  OBVIOUS
<1>1. DOMAIN db = {}
  BY DEF Init
<1> QED
  BY <1>1, FS_EmptySet DEF Init, ListInv, StoreOK, Idle

\* Only the steps of its own reader change a scan.
LEMMA ListNextOK == IInv /\ ListInv /\ [Next]_vars => ListInv'
<1> SUFFICES ASSUME IInv, ListInv, [Next]_vars PROVE ListInv'
  OBVIOUS
<1>0. iter = [r \in Readers |-> iter[r]] /\ out = [r \in Readers |-> out[r]]
  BY DEF IInv, IterOK, ListInv
<1>1. ASSUME UNCHANGED <<iter, out>>, StoreOK' PROVE ListInv'
  BY <1>1 DEF ListInv, Idle
<1>2. ASSUME NEW t \in Tables, NEW id \in Ids, NEW buf \in Bufs, Set(t, id, buf) PROVE ListInv'
  <2>1. DOMAIN db' = DOMAIN db \cup {encode(t, id)}
    BY <1>2 DEF Set
  <2>2. IsFiniteSet(DOMAIN db')
    BY <2>1, FS_AddElement DEF ListInv, StoreOK
  <2>3. \A k \in DOMAIN db' : db'[k] \in Rows
    BY <1>2 DEF ListInv, StoreOK, Set, Rows
  <2> QED
    BY <1>1, <1>2, <2>2, <2>3 DEF Set, StoreOK
<1>3. ASSUME NEW t \in Tables, NEW id \in Ids, Delete(t, id) PROVE ListInv'
  <2>1. DOMAIN db' = DOMAIN db \ {encode(t, id)}
    BY <1>3 DEF Delete
  <2>2. IsFiniteSet(DOMAIN db')
    BY <2>1, FS_Subset DEF ListInv, StoreOK
  <2>3. \A k \in DOMAIN db' : db'[k] \in Rows
    BY <1>3 DEF ListInv, StoreOK, Delete
  <2> QED
    BY <1>1, <1>3, <2>2, <2>3 DEF Delete, StoreOK
<1>4. ASSUME NEW r \in Readers, NEW it, NEW o, UNCHANGED db,
             iter' = [iter EXCEPT ![r] = it], out' = out \/ out' = [out EXCEPT ![r] = o],
             it.table = None \/ ScanOK(it.view, it.todo, it.data)
      PROVE  ListInv'
  <2>1. StoreOK' /\ out' = [q \in Readers |-> out'[q]]
    BY <1>0, <1>4 DEF ListInv, StoreOK
  <2>2. iter'[r] = it /\ \A q \in Readers \ {r} : iter'[q] = iter[q]
    BY <1>0, <1>4
  <2>3. \A q \in Readers : ~(iter'[q].table = None) => ScanOK(iter'[q].view, iter'[q].todo, iter'[q].data)
    BY <1>4, <2>2 DEF ListInv, Idle
  <2> QED
    BY <2>1, <2>3 DEF ListInv, Idle
<1>5. ASSUME NEW r \in Readers, NEW t \in Tables, All(r, t) PROVE ListInv'
  <2>1. ScanOK(NewIter(t).view, NewIter(t).todo, NewIter(t).data)
    BY ScanBegins DEF ListInv
  <2> HIDE DEF NewIter
  <2> QED
    BY <1>4, <1>5, <2>1 DEF All
<1>6. ASSUME NEW r \in Readers, NEW t, StorageFails(r, t) \/ StepFails(r) \/ AllReturns(r) PROVE ListInv'
  BY <1>4, <1>6 DEF StorageFails, StepFails, AllReturns, Return, Close
<1>7. ASSUME NEW r \in Readers, NEW t \in Tables, NEW id \in Ids, Get(r, t, id) PROVE ListInv'
  <2>1. StoreOK' /\ iter' = iter
    BY <1>7 DEF Get, ListInv, StoreOK
  <2>2. out' = [q \in Readers |-> out'[q]]
    BY <1>0, <1>7 DEF Get, Return
  <2> QED
    BY <2>1, <2>2 DEF ListInv, Idle
<1>8. ASSUME NEW r \in Readers, Step(r) PROVE ListInv'
  <2> DEFINE k == Least(iter[r].todo)
             it == [table |-> iter[r].table, view |-> iter[r].view,
                    todo |-> iter[r].todo \ {k}, data |-> Append(iter[r].data, iter[r].view[k])]
  <2>1. /\ ~Idle(r) /\ iter[r].todo # {} /\ Readable(iter[r].view[k])
        /\ iter' = [iter EXCEPT ![r] = it] /\ UNCHANGED <<db, out>>
    BY <1>8 DEF Step
  <2>2. DOMAIN iter[r].view \subseteq Seq(Byte)
    BY <2>1, KeysAreBytes DEF IInv, IterOK, Owned
  <2>3. ScanOK(iter[r].view, iter[r].todo \ {k}, Append(iter[r].data, iter[r].view[k]))
    BY <2>1, <2>2, ScanSteps DEF ListInv
  <2>4. ScanOK(it.view, it.todo, it.data)
    BY <2>3
  <2> HIDE DEF it
  <2> QED
    BY <1>4, <2>1, <2>4
<1>9. CASE UNCHANGED vars
  BY <1>1, <1>9 DEF vars, ListInv, StoreOK
<1> QED
  BY <1>2, <1>3, <1>5, <1>6, <1>7, <1>8, <1>9 DEF Next

-----------------------------------------------------------------------------
(* Refinement. *)

TableMap == [t \in Isolated |-> MapOf(t, db)]

ScanMap == [r \in Readers |-> IF iter[r].table \in Isolated
                              THEN MapOf(iter[r].table, iter[r].view) ELSE None]

OutMap == [r \in Readers |-> IF out[r].table \in Isolated THEN out[r].ret ELSE None]

\* A scan of an isolated table sees all of its rows.
LEMMA NewIterSeesAll ==
  ASSUME NEW t \in Tables, IInv PROVE MapOf(t, NewIter(t).view) = MapOf(t, db)
<1> DEFINE p == encodepreffix(t)
           keys == {k \in DOMAIN db : InBounds(k, p, keyUpperBound(p))}
<1>1. NewIter(t).view = [k \in keys |-> db[k]]
  BY DEF NewIter
<1>2. ASSUME NEW id \in Ids PROVE encode(t, id) \in DOMAIN db <=> encode(t, id) \in keys
  BY KeysAreBytes, PrefixIsBytes, ScanBoundsExact
<1> QED
  BY <1>1, <1>2 DEF MapOf

\* A write of one key.
WritesKey(t, id, row) ==
  /\ UNCHANGED <<iter, out>>
  /\ \A u \in Tables, i \in Ids :
       MapOf(u, db')[i] = IF encode(u, i) = encode(t, id) THEN row ELSE MapOf(u, db)[i]

\* It is a write to one entry of one table.
LEMMA WriteIsStore ==
  ASSUME NEW t \in Tables, NEW id \in Ids, NEW row \in Rows \cup {None}, WritesKey(t, id, row)
  PROVE  [Promise!Next]_(Promise!vars)
<1> USE DEF WritesKey
<1>1. ScanMap' = ScanMap /\ OutMap' = OutMap
  BY DEF ScanMap, OutMap
<1>2. Isolated \subseteq Tables
  BY DEF Isolated
<1>3. \A u \in Tables : /\ MapOf(u, db) = [i \in Ids |-> MapOf(u, db)[i]]
                        /\ MapOf(u, db') = [i \in Ids |-> MapOf(u, db')[i]]
  BY DEF MapOf
<1>4. ASSUME NEW u \in Isolated \ {t} PROVE MapOf(u, db') = MapOf(u, db)
  <2>1. \A i \in Ids : encode(u, i) # encode(t, id)
    BY IsolatedUntouched, <1>4
  <2>2. \A i \in Ids : MapOf(u, db')[i] = MapOf(u, db)[i]
    BY <1>2, <2>1
  <2> QED
    BY <1>2, <1>3, <2>2
<1>5. CASE t \in Isolated
  <2>1. \A i \in Ids : MapOf(t, db')[i] = IF i = id THEN row ELSE MapOf(t, db)[i]
    BY EncodeInjective
  <2>2. MapOf(t, db') = [MapOf(t, db) EXCEPT ![id] = row]
    BY <1>3, <2>1
  <2>3. TableMap' = [TableMap EXCEPT ![t] = [MapOf(t, db) EXCEPT ![id] = row]]
    BY <1>4, <1>5, <2>2 DEF TableMap
  <2>4. TableMap' = [TableMap EXCEPT ![t][id] = row]
    BY <1>5, <2>3 DEF TableMap
  <2>5. Promise!Store(t, id, row)
    BY <1>1, <2>4 DEF Promise!Store, TableMap, ScanMap, OutMap
  <2> QED
    BY <1>5, <2>5 DEF Promise!Next
<1>6. CASE t \notin Isolated
  <2>1. TableMap' = TableMap
    BY <1>4, <1>6 DEF TableMap
  <2> QED
    BY <1>1, <2>1 DEF Promise!vars, TableMap, ScanMap, OutMap
<1> QED
  BY <1>5, <1>6

\* What a step of one reader changes.
LEMMA OutAfter ==
  ASSUME ListInv, NEW r \in Readers, NEW t, NEW value, Return(r, t, value)
  PROVE  OutMap' = [OutMap EXCEPT ![r] = IF t \in Isolated THEN value ELSE None]
<1>1. /\ out'[r] = [table |-> t, ret |-> value]
      /\ \A q \in Readers \ {r} : out'[q] = out[q]
  BY DEF ListInv, Return
<1>2. \A q \in Readers : OutMap'[q] = IF q = r THEN IF t \in Isolated THEN value ELSE None ELSE OutMap[q]
  BY <1>1 DEF OutMap
<1>3. OutMap = [q \in Readers |-> OutMap[q]] /\ OutMap' = [q \in Readers |-> OutMap'[q]]
  BY DEF OutMap
<1> QED
  BY <1>2, <1>3

LEMMA ScanAfter ==
  ASSUME IInv, NEW r \in Readers, NEW t, NEW view, NEW todo, NEW data,
         iter' = [iter EXCEPT ![r] = [table |-> t, view |-> view, todo |-> todo, data |-> data]]
  PROVE  ScanMap' = [ScanMap EXCEPT ![r] = IF t \in Isolated THEN MapOf(t, view) ELSE None]
<1>1. /\ iter'[r] = [table |-> t, view |-> view, todo |-> todo, data |-> data]
      /\ \A q \in Readers \ {r} : iter'[q] = iter[q]
  BY DEF IInv, IterOK
<1>2. \A q \in Readers :
        ScanMap'[q] = IF q = r THEN IF t \in Isolated THEN MapOf(t, view) ELSE None ELSE ScanMap[q]
  BY <1>1 DEF ScanMap
<1>3. ScanMap = [q \in Readers |-> ScanMap[q]] /\ ScanMap' = [q \in Readers |-> ScanMap'[q]]
  BY DEF ScanMap
<1> QED
  BY <1>2, <1>3

\* The end of a call, with a result or not.
LEMMA CloseIsEnd ==
  ASSUME IInv, ListInv, NEW r \in Readers, NEW t \in Tables, NEW value, UNCHANGED db,
         Close(r), Return(r, t, value)
  PROVE  /\ TableMap' = TableMap
         /\ ScanMap' = [ScanMap EXCEPT ![r] = None]
         /\ OutMap' = [OutMap EXCEPT ![r] = IF t \in Isolated THEN value ELSE None]
<1>1. None \notin Isolated
  BY NoneAssumption DEF Isolated
<1>2. ScanMap' = [ScanMap EXCEPT ![r] = None]
  BY <1>1, ScanAfter DEF Close
<1>3. OutMap' = [OutMap EXCEPT ![r] = IF t \in Isolated THEN value ELSE None]
  BY OutAfter
<1> QED
  BY <1>2, <1>3 DEF TableMap

\* Every step is one of Tables, or nothing that it can see.
LEMMA NextImplementsTables == IInv /\ ListInv /\ [Next]_vars => [Promise!Next]_(Promise!vars)
<1> SUFFICES ASSUME IInv, ListInv, [Next]_vars PROVE [Promise!Next]_(Promise!vars)
  OBVIOUS
<1>0. /\ Isolated \subseteq Tables /\ None \notin Tables
      /\ \A r \in Readers : Idle(r) => ScanMap[r] = None
  BY NoneAssumption DEF Isolated, Idle, ScanMap
<1>1. ASSUME NEW t \in Tables, NEW id \in Ids, NEW buf \in Bufs, Set(t, id, buf)
      PROVE  [Promise!Next]_(Promise!vars)
  <2> DEFINE row == [of |-> t, buf |-> buf]
  <2>1. row \in Rows
    BY DEF Rows
  <2>2. WritesKey(t, id, row)
    BY <1>1 DEF Set, MapOf, WritesKey
  <2> HIDE DEF row
  <2> QED
    BY <2>1, <2>2, WriteIsStore
<1>2. ASSUME NEW t \in Tables, NEW id \in Ids, Delete(t, id)
      PROVE  [Promise!Next]_(Promise!vars)
  <2>1. WritesKey(t, id, None)
    BY <1>2 DEF Delete, MapOf, WritesKey
  <2> QED
    BY <2>1, WriteIsStore
<1>3. ASSUME NEW r \in Readers, NEW t \in Tables, All(r, t)
      PROVE  [Promise!Next]_(Promise!vars)
  <2>1. OutMap' = [OutMap EXCEPT ![r] = None]
    <3>1. Return(r, None, None)
      BY <1>3 DEF All, Return
    <3> QED
      BY <1>0, <3>1, OutAfter
  <2>2. /\ NewIter(t) = [table |-> t, view |-> NewIter(t).view,
                         todo |-> NewIter(t).todo, data |-> NewIter(t).data]
        /\ MapOf(t, NewIter(t).view) = MapOf(t, db)
    BY NewIterSeesAll DEF NewIter
  <2>3. ScanMap' = [ScanMap EXCEPT ![r] = IF t \in Isolated THEN MapOf(t, db) ELSE None]
    <3> HIDE DEF NewIter
    <3>1. iter' = [iter EXCEPT ![r] = [table |-> t, view |-> NewIter(t).view,
                                       todo |-> NewIter(t).todo, data |-> NewIter(t).data]]
      BY <1>3, <2>2 DEF All
    <3> QED
      BY <2>2, <3>1, ScanAfter
  <2>4. TableMap' = TableMap
    BY <1>3 DEF All, TableMap
  <2>5. CASE t \in Isolated
    <3>1. ScanMap' = [ScanMap EXCEPT ![r] = TableMap[t]]
      BY <2>3, <2>5 DEF TableMap
    <3>2. Promise!Begin(r, t)
      BY <2>1, <2>4, <3>1 DEF Promise!Begin, Promise!Answer, TableMap, ScanMap, OutMap
    <3> QED
      BY <2>5, <3>2 DEF Promise!Next
  <2>6. CASE t \notin Isolated
    <3>1. ScanMap' = ScanMap
      BY <1>0, <1>3, <2>3, <2>6 DEF All, ScanMap
    <3>2. Promise!Forget(r)
      BY <2>1, <2>4, <3>1 DEF Promise!Forget, Promise!Answer, TableMap, ScanMap, OutMap
    <3> QED
      BY <3>2 DEF Promise!Next
  <2> QED
    BY <2>5, <2>6
<1>4. ASSUME NEW r \in Readers, NEW t \in Tables, Idle(r) \/ iter[r].table = t,
             UNCHANGED db, Close(r), Return(r, t, Failed)
      PROVE  [Promise!Next]_(Promise!vars)
  <2>1. /\ TableMap' = TableMap
        /\ ScanMap' = [ScanMap EXCEPT ![r] = None]
        /\ OutMap' = [OutMap EXCEPT ![r] = IF t \in Isolated THEN Failed ELSE None]
    BY <1>4, CloseIsEnd
  <2>2. CASE t \in Isolated
    <3>1. Promise!Fail(r)
      BY <2>1, <2>2 DEF Promise!Fail, Promise!Answer, TableMap, ScanMap, OutMap
    <3> QED
      BY <3>1 DEF Promise!Next
  <2>3. CASE t \notin Isolated
    <3>1. ScanMap' = ScanMap
      BY <1>0, <1>4, <2>1, <2>3 DEF ScanMap
    <3>2. Promise!Forget(r)
      BY <2>1, <2>3, <3>1 DEF Promise!Forget, Promise!Answer, TableMap, ScanMap, OutMap
    <3> QED
      BY <3>2 DEF Promise!Next
  <2> QED
    BY <2>2, <2>3
<1>5. ASSUME NEW r \in Readers, NEW t \in Tables, StorageFails(r, t) PROVE [Promise!Next]_(Promise!vars)
  BY <1>4, <1>5 DEF StorageFails
<1>6. ASSUME NEW r \in Readers, StepFails(r) PROVE [Promise!Next]_(Promise!vars)
  <2>1. iter[r].table \in Tables
    BY <1>6 DEF StepFails, IInv, IterOK
  <2> QED
    BY <1>4, <1>6, <2>1 DEF StepFails
<1>7. ASSUME NEW r \in Readers, AllReturns(r) PROVE [Promise!Next]_(Promise!vars)
  <2> DEFINE t == iter[r].table
             map == MapOf(t, iter[r].view)
  <2>1. /\ t \in Tables /\ Owned(iter[r].view) /\ iter[r].todo = {}
        /\ \A k \in DOMAIN iter[r].view : StartsWith(k, encodepreffix(t))
        /\ ScanOK(iter[r].view, {}, iter[r].data)
    BY <1>7 DEF AllReturns, IInv, IterOK, ListInv
  <2>2. /\ TableMap' = TableMap
        /\ ScanMap' = [ScanMap EXCEPT ![r] = None]
        /\ OutMap' = [OutMap EXCEPT ![r] = IF t \in Isolated THEN iter[r].data ELSE None]
    BY <1>7, <2>1, CloseIsEnd DEF AllReturns
  <2>3. CASE t \in Isolated
    <3>1. /\ Promise!Listing(map) = iter[r].data
          /\ \A id \in Ids : map[id] = None \/ Readable(map[id])
      BY <2>1, <2>3, ScanLists
    <3>2. ScanMap[r] = map
      BY <2>3 DEF ScanMap
    <3>3. map # None
      <4>1. \A id \in Ids : map[id] \in Rows \cup {None}
        BY <2>1 DEF MapOf, ScanOK
      <4>2. map \in [Ids -> Rows \cup {None}]
        BY <4>1 DEF MapOf
      <4> QED
        BY <4>2, NoneAssumption
    <3> HIDE DEF map
    <3>4. Promise!End(r)
      BY <2>2, <2>3, <3>1, <3>2, <3>3 DEF Promise!End, Promise!Answer, TableMap, ScanMap, OutMap
    <3> QED
      BY <3>4 DEF Promise!Next
  <2>4. CASE t \notin Isolated
    <3>1. ScanMap' = ScanMap
      BY <2>2, <2>4 DEF ScanMap
    <3>2. Promise!Forget(r)
      BY <2>2, <2>4, <3>1 DEF Promise!Forget, Promise!Answer, TableMap, ScanMap, OutMap
    <3> QED
      BY <3>2 DEF Promise!Next
  <2> QED
    BY <2>3, <2>4
<1>8. ASSUME NEW r \in Readers, NEW t \in Tables, NEW id \in Ids, Get(r, t, id)
      PROVE  [Promise!Next]_(Promise!vars)
  <2> DEFINE k == encode(t, id)
             value == IF k \notin DOMAIN db THEN <<>>
                      ELSE IF Readable(db[k]) THEN <<db[k]>> ELSE Failed
  <2>1. TableMap' = TableMap /\ ScanMap' = ScanMap
    BY <1>8 DEF Get, TableMap, ScanMap
  <2>2. OutMap' = [OutMap EXCEPT ![r] = IF t \in Isolated THEN value ELSE None]
    <3>1. Return(r, t, value)
      BY <1>8 DEF Get
    <3> HIDE DEF value
    <3> QED
      BY <3>1, OutAfter
  <2>3. CASE t \in Isolated
    <3>1. TableMap[t][id] = IF k \in DOMAIN db THEN db[k] ELSE None
      BY <2>3 DEF TableMap, MapOf
    <3>2. k \in DOMAIN db => db[k] # None
      BY NoneAssumption DEF ListInv, StoreOK
    <3>3. value = IF TableMap[t][id] = None THEN <<>>
                  ELSE IF Readable(TableMap[t][id]) THEN <<TableMap[t][id]>> ELSE Failed
      BY <3>1, <3>2
    <3>4. Promise!Lookup(r, t, id)
      BY <2>1, <2>2, <2>3, <3>3 DEF Promise!Lookup, Promise!Answer, TableMap, ScanMap, OutMap
    <3> QED
      BY <2>3, <3>4 DEF Promise!Next
  <2>4. CASE t \notin Isolated
    <3>1. Promise!Forget(r)
      BY <2>1, <2>2, <2>4 DEF Promise!Forget, Promise!Answer, TableMap, ScanMap, OutMap
    <3> QED
      BY <3>1 DEF Promise!Next
  <2> QED
    BY <2>3, <2>4
<1>9. ASSUME UNCHANGED <<db, out>>,
             \A r \in Readers : iter'[r].table = iter[r].table /\ iter'[r].view = iter[r].view
      PROVE  [Promise!Next]_(Promise!vars)
  BY <1>9 DEF Promise!vars, MapOf
<1>10. ASSUME NEW r \in Readers, Step(r) PROVE [Promise!Next]_(Promise!vars)
  <2>1. PICK todo, data :
          iter' = [iter EXCEPT ![r] = [table |-> iter[r].table, view |-> iter[r].view,
                                       todo |-> todo, data |-> data]]
    BY <1>10 DEF Step
  <2>2. \A q \in Readers : iter'[q].table = iter[q].table /\ iter'[q].view = iter[q].view
    BY <2>1 DEF IInv, IterOK
  <2> QED
    BY <1>9, <1>10, <2>2 DEF Step
<1>11. CASE UNCHANGED vars
  BY <1>9, <1>11 DEF vars
<1> QED
  BY <1>1, <1>2, <1>3, <1>5, <1>6, <1>7, <1>8, <1>10, <1>11 DEF Next

\* An empty database is a set of empty tables.
LEMMA InitImplementsTables == Init => Promise!Init
<1> SUFFICES ASSUME Init PROVE Promise!Init
  OBVIOUS
<1>1. None \notin Isolated
  BY NoneAssumption DEF Isolated
<1>2. TableMap = [t \in Isolated |-> [id \in Ids |-> None]]
  BY DEF Init, TableMap, MapOf
<1> QED
  BY <1>1, <1>2 DEF Init, Promise!Init, TableMap

\* Tables with a prefix of their own are the maps of Tables, whatever the other
\* tables and the scans under way do (table.go:47-137).
THEOREM ImplementsTables == Spec => RefinesTables
<1>1. IInv /\ ListInv /\ [Next]_vars => IInv' /\ ListInv'
  BY NextOK, ListNextOK
<1> QED
  BY <1>1, InitOK, ListInitOK, InitImplementsTables, NextImplementsTables, PTL
  DEF Spec, RefinesTables, Promise!Spec
=============================================================================
