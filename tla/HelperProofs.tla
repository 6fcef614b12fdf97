---------------------------- MODULE HelperProofs ----------------------------
(***************************************************************************)
(* Proofs about the helpers that share no state: what ReadOldestFiles      *)
(* returns while others write and remove files, that Module.Run keeps the  *)
(* guest's memory, that the sources of env.Load count in one order, and    *)
(* which lines LastLines returns; for any number of files, blocks, calls,  *)
(* names and characters.                                                   *)
(***************************************************************************)
EXTENDS LastLines, FileQueue, WasmModule, EnvLoad, SequenceTheorems, FiniteSetTheorems, TLAPS

-----------------------------------------------------------------------------
(* FileQueue. *)

DirTypes ==
  /\ DOMAIN disk \subseteq Files /\ IsFiniteSet(DOMAIN disk)
  /\ now \in Nat
  /\ \A f \in DOMAIN disk : disk[f].time \in Nat /\ disk[f].time <= now
  /\ writer \in [Files -> {"off", "created", "flushed", "returned", "failed"}]
  /\ top \in Seq(Files) /\ got \in Seq({"part", "all"})
  /\ next \in Nat /\ place \in Nat /\ in1 \in Nat

\* A name comes to the directory with its writer, and only once; a file that is
\* there after the flush is whole.
Written ==
  \A f \in DOMAIN disk :
    /\ writer[f] # "off"
    /\ disk[f].data \in {"part", "all"}
    /\ writer[f] \in {"flushed", "returned"} => disk[f].data = "all"

\* What the reader remembers of the walk, and has read.
Reading ==
  /\ ready \subseteq Files /\ \A f \in ready : writer[f] = "returned"
  /\ reader = "idle" => top = <<>>
  /\ reader \in {"idle", "insert", "compare", "pivot"} => got = <<>>
  /\ Len(got) <= Len(top)
  /\ reader = "returned" => Len(got) = Len(top)
  /\ \A i \in 1 .. Len(got) : top[i] \in ready => got[i] = "all"

\* A ready file is not in front of an older one, as long as both are there.
InPlace(p, q) ==
  top[p] \in ready /\ On(top[p]) /\ On(top[q]) => disk[top[p]].time <= disk[top[q]].time

\* The insertion sort: in front of its outer loop all is in place, but for the
\* file that the inner loop moves to the front.  The times of other files than
\* ready ones grow, which puts nothing out of place.
Inserting ==
  reader \in {"insert", "compare"} =>
    /\ \A f \in ready : \E i \in 1 .. Len(top) : top[i] = f
    /\ \A i \in 1 .. Len(top) : writer[top[i]] # "off"
    /\ 2 <= place /\ place <= next /\ (next > Len(top) => place = next)
    /\ \A p, q \in 1 .. Len(top) : p < q /\ q <= next /\ q # place => InPlace(p, q)

\* The time that a comparison has got of the file it moves.
Comparing ==
  reader = "compare" =>
    /\ next <= Len(top)
    /\ On(top[place]) => in1 <= disk[top[place]].time
    /\ On(top[place]) /\ top[place] \in ready => in1 = disk[top[place]].time

\* The sort with pivots: of a ready file it has seen one time, if any.
Pivoting ==
  reader = "pivot" =>
    /\ DOMAIN seen \subseteq Files /\ IsFiniteSet(DOMAIN seen) /\ ready \subseteq DOMAIN seen
    /\ \A f \in ready : On(f) => seen[f] \subseteq {disk[f].time}

\* Of two ready files that are still there, the older one has the better place.
SortedBefore(f, g) ==
  On(f) /\ On(g) /\ disk[f].time < disk[g].time =>
    \A j \in 1 .. Len(top) : top[j] = g => \E i \in 1 .. Len(top) : i < j /\ top[i] = f

Ordered == reader \in {"read", "returned"} /\ Steady => \A f, g \in ready : SortedBefore(f, g)

Sorting == Inserting /\ Comparing /\ Pivoting /\ Ordered

DirInv == DirTypes /\ Written /\ Reading /\ Sorting

LEMMA CutIs ==
  ASSUME NEW S, NEW t \in Seq(S)
  PROVE  /\ Cut(t) \in Seq(S) /\ Len(Cut(t)) <= Len(t)
         /\ \A i \in 1 .. Len(Cut(t)) : Cut(t)[i] = t[i]
<1> DEFINE m == IF Len(t) < Count THEN Len(t) ELSE Count
<1>1. m \in 0 .. Len(t)
  BY CountAssumption
<1>2. Cut(t) = SubSeq(t, 1, m)
  BY DEF Cut
<1>3. \A i \in 1 .. m : t[i] \in S
  BY <1>1, ElementOfSeq
<1> HIDE DEF m
<1>4. /\ SubSeq(t, 1, m) \in Seq(S) /\ Len(SubSeq(t, 1, m)) = m
      /\ \A i \in 1 .. m : SubSeq(t, 1, m)[i] = t[i]
  BY <1>1, <1>3
<1> QED
  BY <1>1, <1>2, <1>4

\* A sequence of SetToSeqs has every element of the set.
LEMMA Enumerates ==
  ASSUME NEW S, IsFiniteSet(S), NEW t \in SetToSeqs(S)
  PROVE  /\ t \in Seq(S)
         /\ \A x \in S : \E i \in 1 .. Len(t) : t[i] = x
<1> DEFINE c == Cardinality(S)
<1>1. c \in Nat
  BY FS_CardinalityType
<1>2. t \in [1 .. c -> S] /\ \A i, j \in 1 .. c : i # j => t[i] # t[j]
  BY DEF SetToSeqs
<1> HIDE DEF c
<1>3. t \in Seq(S) /\ Len(t) = c
  BY <1>1, <1>2
<1>4. t \in Injection(1 .. c, S)
  BY <1>2 DEF Injection, IsInjective
<1>5. Cardinality(1 .. c) = c
  BY <1>1, FS_Interval
<1>6. t \in Surjection(1 .. c, S)
  BY <1>4, <1>5, FS_Injection DEF c
<1> QED
  BY <1>3, <1>6 DEF Surjection

LEMMA Swapped ==
  ASSUME NEW S, NEW t \in Seq(S), NEW k \in 2 .. Len(t),
         NEW s, s = [t EXCEPT ![k] = t[k - 1], ![k - 1] = t[k]]
  PROVE  /\ s \in Seq(S) /\ Len(s) = Len(t)
         /\ s[k] = t[k - 1] /\ s[k - 1] = t[k]
         /\ \A i \in 1 .. Len(t) : i # k /\ i # k - 1 => s[i] = t[i]
<1>1. Len(t) \in Nat /\ t \in [1 .. Len(t) -> S]
  OBVIOUS
<1>2. k \in 1 .. Len(t) /\ k - 1 \in 1 .. Len(t) /\ k # k - 1
  BY <1>1
<1>3. s \in [1 .. Len(t) -> S]
  BY <1>1, <1>2
<1>4. s \in Seq(S) /\ Len(s) = Len(t)
  BY <1>1, <1>3
<1> QED
  BY <1>1, <1>2, <1>4

LEMMA DirInitOK == DirInit => DirInv
  BY FS_EmptySet DEF DirInit, DirInv, DirTypes, Written, Reading, Sorting, Inserting, Comparing,
                     Pivoting, Ordered, On

-----------------------------------------------------------------------------
\* The writers and the consumer: the reader keeps what it has; a file of its
\* that is there afterwards was there before, and is not younger; a ready one
\* has not changed.
Beside ==
  /\ UNCHANGED <<reader, ready, top, sortVars, got>>
  /\ \A f \in ready : writer'[f] = "returned" /\ (On(f)' => On(f) /\ disk'[f] = disk[f])
  /\ \A f \in Files :
       writer[f] # "off" =>
         writer'[f] # "off" /\ (On(f)' => On(f) /\ disk[f].time <= disk'[f].time)

LEMMA BesideKeeps == DirInv /\ DirTypes' /\ Beside => Reading' /\ Sorting'
<1> SUFFICES ASSUME DirInv, DirTypes', Beside PROVE Reading' /\ Sorting'
  OBVIOUS
<1> USE DEF DirInv, Sorting
<1>0. UNCHANGED <<reader, ready, top, next, place, in1, seen, got>>
  BY DEF Beside, sortVars
<1>1. Reading'
  BY <1>0 DEF Reading, Beside
<1>2. \A f \in ready : On(f)' => On(f) /\ disk'[f] = disk[f]
  BY DEF Beside
<1>3. \A i \in 1 .. Len(top) : top[i] \in Files
  BY DEF DirTypes
<1>4. \A f \in Files : On(f) => disk[f].time \in Nat
  BY DEF DirTypes, On
<1>5. \A f \in Files : On(f)' => disk'[f].time \in Nat
  BY <1>0 DEF DirTypes, On
<1>6. ASSUME reader \in {"insert", "compare"}, NEW i \in 1 .. Len(top), NEW f, f = top[i]
      PROVE  writer'[f] # "off" /\ (On(f)' => On(f) /\ disk[f].time <= disk'[f].time)
  BY <1>3, <1>6 DEF Inserting, Beside
<1>7. ASSUME reader \in {"insert", "compare"}, NEW p \in 1 .. Len(top), NEW q \in 1 .. Len(top), InPlace(p, q)
      PROVE  InPlace(p, q)'
  <2> SUFFICES ASSUME top[p] \in ready, top[p] \in DOMAIN disk', top[q] \in DOMAIN disk'
               PROVE  disk'[top[p]].time <= disk'[top[q]].time
    BY <1>0 DEF InPlace, On
  <2>1. On(top[p]) /\ disk'[top[p]] = disk[top[p]]
    BY <1>2 DEF On
  <2>2. On(top[q]) /\ disk[top[q]].time <= disk'[top[q]].time
    BY <1>6, <1>7 DEF On
  <2>3. disk[top[p]].time <= disk[top[q]].time
    BY <1>7, <2>1, <2>2 DEF InPlace
  <2>4. disk[top[p]].time \in Nat /\ disk[top[q]].time \in Nat /\ disk'[top[q]].time \in Nat
    BY <1>3, <1>4, <1>5, <2>1, <2>2 DEF On
  <2> QED
    BY <2>1, <2>2, <2>3, <2>4
<1>8. Inserting'
  <2> SUFFICES ASSUME reader \in {"insert", "compare"} PROVE Inserting'
    BY <1>0 DEF Inserting
  <2>1. \A i \in 1 .. Len(top) : writer'[top[i]] # "off"
    BY <1>6
  <2>2. \A p, q \in 1 .. Len(top) : p < q /\ q <= next /\ q # place => InPlace(p, q)'
    BY <1>7 DEF Inserting
  <2> QED
    BY <1>0, <2>1, <2>2 DEF Inserting
<1>9. Comparing'
  <2> SUFFICES ASSUME reader = "compare" PROVE Comparing'
    BY <1>0 DEF Comparing
  <2>1. place \in 1 .. Len(top) /\ in1 \in Nat
    BY DEF Inserting, Comparing, DirTypes
  <2>2. top[place] \in Files
    BY <1>3, <2>1
  <2>3. ASSUME On(top[place])'
        PROVE  /\ On(top[place]) /\ disk[top[place]].time <= disk'[top[place]].time
               /\ top[place] \in ready => disk'[top[place]] = disk[top[place]]
    BY <1>0, <1>2, <1>6, <2>1, <2>3 DEF On
  <2>4. On(top[place])' => in1 <= disk'[top[place]].time
    BY <1>0, <1>4, <1>5, <2>1, <2>2, <2>3 DEF Comparing, On
  <2> QED
    BY <1>0, <2>3, <2>4 DEF Comparing, On
<1>10. Pivoting'
  BY <1>0, <1>2 DEF Pivoting, On
<1>11. Ordered'
  <2>1. Steady' => Steady
    BY <1>0 DEF Steady
  <2>2. ASSUME NEW f \in ready, NEW g \in ready, SortedBefore(f, g) PROVE SortedBefore(f, g)'
    BY <1>0, <1>2, <2>2 DEF SortedBefore, On
  <2> QED
    BY <1>0, <2>1, <2>2 DEF Ordered
<1> QED
  BY <1>1, <1>8, <1>9, <1>10, <1>11

\* One name is written, or not; the others keep their files.
Touches(f, data) ==
  /\ DOMAIN disk' = DOMAIN disk \cup {f}
  /\ disk'[f].data = data /\ disk'[f].time = now
  /\ \A g \in DOMAIN disk \ {f} : disk'[g] = disk[g]

LEMMA StoreTouches == ASSUME NEW f, NEW data, Store(f, data) PROVE Touches(f, data)
  BY DEF Store, Touches

\* The step of a writer of f, to w: the file is touched, or the disk is as before.
WriterStep(f, w) ==
  /\ writer' = [writer EXCEPT ![f] = w]
  /\ UNCHANGED <<now, reader, ready, top, sortVars, got>>
  /\ \/ UNCHANGED disk
     \/ \E data \in {"part", "all"} :
          /\ Touches(f, data) /\ (On(f) \/ writer[f] = "off")
          /\ w \in {"flushed", "returned"} => data = "all"

LEMMA WriterKeeps ==
  ASSUME DirInv, NEW f \in Files, NEW w \in {"created", "flushed", "returned", "failed"},
         WriterStep(f, w), writer[f] # "returned",
         w \in {"flushed", "returned"} /\ UNCHANGED disk => (On(f) => disk[f].data = "all")
  PROVE  DirInv'
<1>1. /\ writer'[f] = w /\ \A g \in Files \ {f} : writer'[g] = writer[g]
      /\ writer' \in [Files -> {"off", "created", "flushed", "returned", "failed"}]
  BY DEF WriterStep, DirInv, DirTypes
<1>2. f \notin ready
  BY DEF DirInv, Reading
<1>3. CASE UNCHANGED disk
  <2>1. DirTypes'
    BY <1>1, <1>3 DEF WriterStep, sortVars, DirInv, DirTypes
  <2>2. Written'
    BY <1>1, <1>3 DEF DirInv, DirTypes, Written, On
  <2>3. Beside
    BY <1>1, <1>2, <1>3 DEF WriterStep, Beside, On, DirInv, DirTypes, Reading
  <2> QED
    BY <2>1, <2>2, <2>3, BesideKeeps DEF DirInv
<1>4. ASSUME NEW data \in {"part", "all"}, Touches(f, data), w \in {"flushed", "returned"} => data = "all",
             On(f) \/ writer[f] = "off"
      PROVE  DirInv'
  <2>1. IsFiniteSet(DOMAIN disk')
    BY <1>4, FS_AddElement DEF Touches, DirInv, DirTypes
  <2>2. DirTypes'
    BY <1>1, <1>4, <2>1 DEF WriterStep, sortVars, Touches, DirInv, DirTypes
  <2>3. Written'
    BY <1>1, <1>4 DEF Touches, DirInv, DirTypes, Written
  <2>4. Beside
    <3>1. \A g \in ready : writer'[g] = "returned" /\ (On(g)' => On(g) /\ disk'[g] = disk[g])
      BY <1>1, <1>2, <1>4 DEF Touches, On, DirInv, DirTypes, Reading
    <3>2. ASSUME NEW g \in Files, writer[g] # "off"
          PROVE  writer'[g] # "off" /\ (On(g)' => On(g) /\ disk[g].time <= disk'[g].time)
      BY <1>1, <1>4, <3>2 DEF Touches, On, DirInv, DirTypes
    <3> QED
      BY <3>1, <3>2 DEF WriterStep, Beside
  <2> QED
    BY <2>2, <2>3, <2>4, BesideKeeps DEF DirInv
<1> QED
  BY <1>3, <1>4 DEF WriterStep

LEMMA CreateOK == ASSUME DirInv, NEW f \in Files, Create(f) PROVE DirInv'
<1>1. writer[f] = "off" /\ ~On(f)
  BY DEF Create, DirInv, Written, On
<1>2. CASE writer' = [writer EXCEPT ![f] = "created"] /\ Store(f, "part")
  <2>1. WriterStep(f, "created")
    BY <1>2, StoreTouches DEF Create, WriterStep
  <2> QED
    BY <1>1, <2>1, WriterKeeps
<1>3. CASE writer' = [writer EXCEPT ![f] = "failed"] /\ UNCHANGED disk
  <2>1. WriterStep(f, "failed")
    BY <1>3 DEF Create, WriterStep
  <2> QED
    BY <1>1, <2>1, WriterKeeps
<1> QED
  BY <1>2, <1>3 DEF Create

LEMMA FlushOK == ASSUME DirInv, NEW f \in Files, Flush(f) PROVE DirInv'
<1>1. writer[f] = "created"
  BY DEF Flush
<1>2. CASE writer' = [writer EXCEPT ![f] = "flushed"] /\ IF On(f) THEN Store(f, "all") ELSE UNCHANGED disk
  <2>1. CASE On(f)
    <3>1. Touches(f, "all")
      BY <1>2, <2>1, StoreTouches
    <3>2. WriterStep(f, "flushed") /\ disk'[f].data = "all"
      BY <1>2, <3>1 DEF Flush, WriterStep, Touches
    <3>3. UNCHANGED disk => disk[f].data = "all"
      BY <3>2
    <3> QED
      BY <1>1, <3>2, <3>3, WriterKeeps
  <2>2. CASE ~On(f)
    <3>1. WriterStep(f, "flushed")
      BY <1>2, <2>2 DEF Flush, WriterStep
    <3> QED
      BY <1>1, <2>2, <3>1, WriterKeeps
  <2> QED
    BY <2>1, <2>2
<1>3. CASE /\ writer' = [writer EXCEPT ![f] = "failed"]
           /\ IF On(f) THEN Store(f, "part") \/ UNCHANGED disk ELSE UNCHANGED disk
  <2>1. WriterStep(f, "failed")
    BY <1>3, StoreTouches DEF Flush, WriterStep
  <2> QED
    BY <1>1, <2>1, WriterKeeps
<1> QED
  BY <1>2, <1>3 DEF Flush

LEMMA CloseFileOK == ASSUME DirInv, NEW f \in Files, Close(f) PROVE DirInv'
<1>1. writer[f] = "flushed" /\ (On(f) => disk[f].data = "all")
  BY DEF Close, DirInv, Written, On
<1>2. PICK w \in {"returned", "failed"} : WriterStep(f, w)
  BY DEF Close, WriterStep
<1> QED
  BY <1>1, <1>2, WriterKeeps

LEMMA ConsumeOK == ASSUME DirInv, NEW f \in Files, Consume(f) PROVE DirInv'
<1>1. /\ DOMAIN disk' = DOMAIN disk \ {f} /\ \A g \in DOMAIN disk \ {f} : disk'[g] = disk[g]
      /\ UNCHANGED <<writer, now, reader, ready, top, sortVars, got>>
  BY DEF Consume
<1>2. IsFiniteSet(DOMAIN disk')
  BY <1>1, FS_RemoveElement DEF DirInv, DirTypes
<1>3. DirTypes'
  BY <1>1, <1>2 DEF sortVars, DirInv, DirTypes
<1>4. Written'
  BY <1>1 DEF DirInv, Written
<1>5. Beside
  BY <1>1 DEF Beside, On, DirInv, DirTypes, Reading
<1> QED
  BY <1>3, <1>4, <1>5, BesideKeeps DEF DirInv

LEMMA TickOK == DirInv /\ Tick => DirInv'
<1> SUFFICES ASSUME DirInv, Tick PROVE DirInv'
  OBVIOUS
<1>1. DirTypes' /\ Written'
  BY DEF Tick, sortVars, DirInv, DirTypes, Written
<1>2. Beside
  BY DEF Tick, Beside, On, DirInv, DirTypes, Reading
<1> QED
  BY <1>1, <1>2, BesideKeeps DEF DirInv

-----------------------------------------------------------------------------
\* The reader: the disk and its writers stay as they are.
LEMMA WalkOK == DirInv /\ Walk => DirInv'
<1> SUFFICES ASSUME DirInv, Walk PROVE DirInv'
  OBVIOUS
<1>1. /\ reader = "idle" /\ top' \in SetToSeqs(DOMAIN disk) /\ got = <<>> /\ got' = <<>>
      /\ ready' = {f \in DOMAIN disk : writer[f] = "returned"}
      /\ UNCHANGED <<disk, writer, now, in1>>
      /\ \/ reader' = "insert" /\ next' = 2 /\ place' = 2 /\ UNCHANGED seen
         \/ reader' = "pivot" /\ seen' = [f \in DOMAIN disk |-> {}] /\ UNCHANGED <<next, place>>
  BY DEF Walk, writerVars, DirInv, Reading
<1>2. DOMAIN disk \subseteq Files /\ IsFiniteSet(DOMAIN disk)
  BY DEF DirInv, DirTypes
<1>3. top' \in Seq(DOMAIN disk) /\ \A f \in DOMAIN disk : \E i \in 1 .. Len(top') : top'[i] = f
  BY <1>1, <1>2, Enumerates
<1>4. top' \in Seq(Files) /\ Len(top') \in Nat /\ \A i \in 1 .. Len(top') : top'[i] \in DOMAIN disk
  BY <1>2, <1>3
<1>5. DirTypes' /\ Written'
  BY <1>1, <1>4 DEF DirInv, DirTypes, Written
<1>6. Reading'
  BY <1>1, <1>2, <1>4 DEF Reading
<1>7. Inserting'
  <2> SUFFICES ASSUME reader' = "insert" PROVE Inserting'
    BY <1>1 DEF Inserting
  <2>1. next' = 2 /\ place' = 2
    BY <1>1
  <2>2. \A i \in 1 .. Len(top') : writer'[top'[i]] # "off"
    BY <1>1, <1>4 DEF DirInv, Written
  <2>3. \A p, q \in 1 .. Len(top') : ~(p < q /\ q <= 2 /\ q # 2)
    BY <1>4
  <2> QED
    BY <1>1, <1>3, <2>1, <2>2, <2>3 DEF Inserting
<1>8. Comparing' /\ Pivoting' /\ Ordered'
  BY <1>1, <1>2 DEF Comparing, Pivoting, Ordered
<1> QED
  BY <1>5, <1>6, <1>7, <1>8 DEF DirInv, Sorting

LEMMA InsertInfoOK == DirInv /\ InsertInfo => DirInv'
<1> SUFFICES ASSUME DirInv, InsertInfo PROVE DirInv'
  OBVIOUS
<1> USE DEF DirInv, Sorting
<1>1. /\ reader = "insert" /\ next <= Len(top)
      /\ UNCHANGED <<disk, writer, now, ready, top, next, place, seen, got>>
  BY DEF InsertInfo, writerVars
<1>2. place \in 1 .. Len(top) /\ top[place] \in Files
  BY <1>1 DEF Inserting, DirTypes
<1>3. CASE On(top[place]) /\ reader' = "compare" /\ in1' = disk[top[place]].time
  <2>1. in1' \in Nat
    BY <1>2, <1>3 DEF DirTypes, On
  <2>2. DirTypes' /\ Written' /\ Reading'
    BY <1>1, <1>3, <2>1 DEF DirTypes, Written, Reading
  <2>3. Inserting'
    BY <1>1, <1>3 DEF Inserting, InPlace, On
  <2>4. Comparing'
    BY <1>1, <1>3, <2>1 DEF Comparing, On
  <2> QED
    BY <1>3, <2>2, <2>3, <2>4 DEF Pivoting, Ordered
<1>4. CASE reader' = "panicked" /\ UNCHANGED in1
  BY <1>1, <1>4 DEF DirTypes, Written, Reading, Inserting, Comparing, Pivoting, Ordered
<1> QED
  BY <1>3, <1>4 DEF InsertInfo

\* The inner loop goes on: the file has changed places with the one in front.
LEMMA MovedOK ==
  ASSUME DirInv, reader = "compare", reader' = "insert",
         NEW f, f = top[place - 1], On(f), in1 < disk[f].time,
         top' = [top EXCEPT ![place] = f, ![place - 1] = top[place]],
         UNCHANGED <<disk, writer, now, ready, seen, got>>, in1' = 0,
         \/ place > 2 /\ place' = place - 1 /\ UNCHANGED next
         \/ place = 2 /\ place' = next + 1 /\ next' = next + 1
  PROVE  DirInv'
<1> USE DEF DirInv, Sorting
<1>1. /\ place \in 2 .. Len(top) /\ place <= next /\ next <= Len(top)
      /\ Len(top) \in Nat /\ next \in Nat /\ in1 \in Nat /\ top \in Seq(Files)
  BY DEF Inserting, Comparing, DirTypes
<1>2. /\ top' \in Seq(Files) /\ Len(top') = Len(top)
      /\ top'[place] = f /\ top'[place - 1] = top[place]
      /\ \A i \in 1 .. Len(top) : i # place /\ i # place - 1 => top'[i] = top[i]
  BY <1>1, Swapped
<1>3. place - 1 \in 1 .. Len(top) /\ place \in 1 .. Len(top)
  BY <1>1
<1>4. \A i \in 1 .. Len(top) : top[i] \in Files
  BY <1>1
<1>5. DirTypes' /\ Written' /\ Reading'
  BY <1>1, <1>2 DEF DirTypes, Written, Reading
<1>6. \A g \in ready : \E i \in 1 .. Len(top) : top'[i] = g
  <2> SUFFICES ASSUME NEW g \in ready PROVE \E i \in 1 .. Len(top) : top'[i] = g
    OBVIOUS
  <2>1. PICK i \in 1 .. Len(top) : top[i] = g
    BY DEF Inserting
  <2> QED
    BY <1>2, <1>3, <2>1
<1>7. \A i \in 1 .. Len(top) : writer[top'[i]] # "off"
  BY <1>2, <1>3 DEF Inserting
<1>8. \A p, q \in 1 .. Len(top) : p < q /\ q <= next /\ q # place => InPlace(p, q)
  BY DEF Inserting
<1>9. ASSUME NEW p \in 1 .. Len(top), NEW q \in 1 .. Len(top), p < q, q <= next, q # place - 1
      PROVE  InPlace(p, q)'
  <2> SUFFICES ASSUME top'[p] \in ready, On(top'[p]), On(top'[q])
               PROVE  disk[top'[p]].time <= disk[top'[q]].time
    BY DEF InPlace, On
  <2>1. CASE q = place /\ p = place - 1
    <3>1. in1 = disk[top[place]].time
      BY <1>2, <2>1 DEF Comparing
    <3> QED
      BY <1>1, <1>2, <1>4, <2>1, <3>1 DEF DirTypes, On
  <2>2. CASE q = place /\ p # place - 1
    <3>1. p < place - 1 /\ place - 1 # place /\ place - 1 <= next
      BY <1>1, <1>9, <2>2
    <3>2. InPlace(p, place - 1)
      BY <1>3, <1>8, <3>1
    <3> QED
      BY <1>2, <2>2, <1>9, <3>1, <3>2 DEF InPlace
  <2>3. CASE q # place
    <3>1. q # place /\ q # place - 1 /\ top'[q] = top[q]
      BY <1>2, <1>9, <2>3
    <3>2. PICK o \in 1 .. Len(top) : o < q /\ top[o] = top'[p]
      <4>1. CASE p = place
        BY <1>1, <1>2, <1>3, <1>9, <4>1
      <4>2. CASE p = place - 1
        BY <1>1, <1>2, <1>3, <1>9, <3>1, <4>2
      <4>3. CASE p # place /\ p # place - 1
        BY <1>2, <1>9, <4>3
      <4> QED
        BY <4>1, <4>2, <4>3
    <3>3. InPlace(o, q)
      BY <1>8, <1>9, <3>1, <3>2
    <3> QED
      BY <3>1, <3>2, <3>3 DEF InPlace
  <2> QED
    BY <2>1, <2>2, <2>3
<1>10. Inserting'
  <2>1. CASE place > 2 /\ place' = place - 1 /\ UNCHANGED next
    <3>1. /\ 2 <= place' /\ place' <= next' /\ (next' > Len(top') => place' = next')
      BY <1>1, <1>2, <2>1
    <3> QED
      BY <1>2, <1>6, <1>7, <1>9, <2>1, <3>1 DEF Inserting
  <2>2. CASE place = 2 /\ place' = next + 1 /\ next' = next + 1
    <3>1. /\ 2 <= place' /\ place' <= next' /\ (next' > Len(top') => place' = next')
      BY <1>1, <1>2, <2>2
    <3>2. \A p, q \in 1 .. Len(top) : p < q /\ q <= next' /\ q # place' => q <= next /\ q # place - 1
      BY <1>1, <2>2
    <3> QED
      BY <1>2, <1>6, <1>7, <1>9, <3>1, <3>2 DEF Inserting
  <2> QED
    BY <2>1, <2>2
<1>11. next' \in Nat /\ place' \in Nat
  BY <1>1
<1> QED
  BY <1>2, <1>5, <1>10, <1>11 DEF DirTypes, Written, Reading, Comparing, Pivoting, Ordered

LEMMA Between ==
  ASSUME NEW i \in Nat, NEW j \in Nat, NEW k \in Nat, NEW l \in Nat, i <= j, j <= k, k <= l
  PROVE  i <= l
  OBVIOUS

\* The inner loop ends: the file in front is not younger, and with it all that
\* are in front of that one.
LEMMA StaysOK ==
  ASSUME DirInv, reader = "compare", reader' = "insert",
         NEW f, f = top[place - 1], On(f), ~(in1 < disk[f].time),
         UNCHANGED <<disk, writer, now, ready, top, seen, got>>, in1' = 0,
         place' = next + 1, next' = next + 1
  PROVE  DirInv'
<1> USE DEF DirInv, Sorting
<1>1. /\ place \in 2 .. Len(top) /\ place <= next /\ next <= Len(top)
      /\ Len(top) \in Nat /\ next \in Nat /\ in1 \in Nat /\ top \in Seq(Files)
  BY DEF Inserting, Comparing, DirTypes
<1>2. \A i \in 1 .. Len(top) : top[i] \in Files
  BY <1>1
<1>3. place - 1 \in 1 .. Len(top) /\ place \in 1 .. Len(top)
  BY <1>1
<1>4. \A p, q \in 1 .. Len(top) : p < q /\ q <= next /\ q # place => InPlace(p, q)
  BY DEF Inserting
<1>5. \A i \in 1 .. Len(top) : On(top[i]) => disk[top[i]].time \in Nat
  BY DEF DirTypes, On
<1>6. ASSUME NEW p \in 1 .. Len(top), p < place PROVE InPlace(p, place)
  <2> SUFFICES ASSUME top[p] \in ready, On(top[p]), On(top[place])
               PROVE  disk[top[p]].time <= disk[top[place]].time
    BY DEF InPlace
  <2>1. in1 <= disk[top[place]].time
    BY DEF Comparing
  <2>2. disk[f].time <= in1
    BY <1>1, <1>3, <1>5
  <2>3. disk[top[p]].time <= disk[f].time
    <3>1. CASE p = place - 1
      <4>1. top[p] = f /\ disk[f].time \in Nat
        BY <1>5, <3>1
      <4> QED
        BY <4>1
    <3>2. CASE p # place - 1
      <4>1. InPlace(p, place - 1)
        BY <1>1, <1>3, <1>4, <1>6, <3>2
      <4> QED
        BY <4>1 DEF InPlace
    <3> QED
      BY <3>1, <3>2
  <2>4. disk[top[p]].time \in Nat /\ disk[f].time \in Nat /\ disk[top[place]].time \in Nat /\ in1 \in Nat
    BY <1>1, <1>3, <1>5
  <2> QED
    BY <2>1, <2>2, <2>3, <2>4, Between
<1>7. \A p, q \in 1 .. Len(top) : p < q /\ q <= next' /\ q # place' => InPlace(p, q)
  BY <1>1, <1>4, <1>6
<1>8. Inserting'
  <2>1. /\ 2 <= place' /\ place' <= next' /\ (next' > Len(top') => place' = next')
    BY <1>1
  <2> QED
    BY <1>7, <2>1 DEF Inserting, InPlace, On
<1>9. next' \in Nat /\ place' \in Nat
  BY <1>1
<1> QED
  BY <1>8, <1>9 DEF DirTypes, Written, Reading, Comparing, Pivoting, Ordered

LEMMA InsertCompareOK == DirInv /\ InsertCompare => DirInv'
<1> SUFFICES ASSUME DirInv, InsertCompare PROVE DirInv'
  OBVIOUS
<1> DEFINE f == top[place - 1]
<1>1. reader = "compare" /\ in1' = 0 /\ UNCHANGED <<disk, writer, now, ready, seen, got>>
  BY DEF InsertCompare, writerVars
<1>2. place \in Nat /\ place >= 2
  BY <1>1 DEF DirInv, DirTypes, Sorting, Inserting
<1>3. CASE reader' = "panicked" /\ UNCHANGED <<top, next, place>>
  BY <1>1, <1>3 DEF DirInv, DirTypes, Written, Reading, Sorting, Inserting, Comparing, Pivoting, Ordered
<1>4. CASE On(f) /\ reader' = "insert" /\ in1 < disk[f].time
  <2>1. /\ top' = [top EXCEPT ![place] = f, ![place - 1] = top[place]]
        /\ \/ place > 2 /\ place' = place - 1 /\ UNCHANGED next
           \/ ~ place > 2 /\ place' = next + 1 /\ next' = next + 1
    BY <1>4 DEF InsertCompare
  <2>2. ~ place > 2 => place = 2
    BY <1>2
  <2> QED
    BY <1>1, <1>4, <2>1, <2>2, MovedOK
<1>5. CASE On(f) /\ reader' = "insert" /\ ~(in1 < disk[f].time)
  <2>1. UNCHANGED top /\ place' = next + 1 /\ next' = next + 1
    BY <1>5 DEF InsertCompare
  <2> QED
    BY <1>1, <1>5, <2>1, StaysOK
<1> QED
  BY <1>3, <1>4, <1>5 DEF InsertCompare

LEMMA InsertDoneOK == DirInv /\ InsertDone => DirInv'
<1> SUFFICES ASSUME DirInv, InsertDone PROVE DirInv'
  OBVIOUS
<1> USE DEF DirInv, Sorting
<1>1. /\ reader = "insert" /\ next > Len(top) /\ reader' = "read" /\ top' = Cut(top)
      /\ next' = 0 /\ place' = 0 /\ UNCHANGED <<disk, writer, now, ready, in1, seen, got>> /\ got = <<>>
  BY DEF InsertDone, writerVars, Reading
<1>2. top \in Seq(Files) /\ Len(top) \in Nat /\ next \in Nat /\ place = next
  BY <1>1 DEF DirTypes, Inserting
<1>3. top' \in Seq(Files) /\ Len(top') <= Len(top) /\ \A i \in 1 .. Len(top') : top'[i] = top[i]
  BY <1>1, <1>2, CutIs
<1>4. Len(top') \in Nat
  BY <1>3
<1>5. DirTypes' /\ Written' /\ Reading'
  BY <1>1, <1>3, <1>4 DEF DirTypes, Written, Reading
<1>6. ASSUME NEW f \in ready, NEW g \in ready, On(f), On(g), disk[f].time < disk[g].time,
             NEW j \in 1 .. Len(top'), top'[j] = g
      PROVE  \E i \in 1 .. Len(top') : i < j /\ top'[i] = f
  <2>1. PICK i \in 1 .. Len(top) : top[i] = f
    BY <1>1 DEF Inserting
  <2>2. j \in 1 .. Len(top) /\ top[j] = g
    BY <1>2, <1>3, <1>4, <1>6
  <2>3. disk[f].time \in Nat /\ disk[g].time \in Nat
    BY <1>6 DEF DirTypes, On
  <2>4. i # j
    BY <1>6, <2>1, <2>2, <2>3
  <2>5. ~ j < i
    <3> SUFFICES ASSUME j < i PROVE FALSE
      OBVIOUS
    <3>1. InPlace(j, i)
      BY <1>1, <1>2, <2>1, <2>2 DEF Inserting
    <3> QED
      BY <1>6, <2>1, <2>2, <2>3, <3>1 DEF InPlace
  <2>6. i < j /\ i \in 1 .. Len(top')
    BY <1>2, <1>4, <2>1, <2>2, <2>4, <2>5
  <2> QED
    BY <1>3, <2>1, <2>6
<1>7. Ordered'
  BY <1>1, <1>6 DEF Ordered, SortedBefore, On
<1> QED
  BY <1>1, <1>5, <1>7 DEF Inserting, Comparing, Pivoting

LEMMA PivotInfoOK == ASSUME DirInv, NEW f \in Files, PivotInfo(f) PROVE DirInv'
<1> USE DEF DirInv, Sorting
<1>1. reader = "pivot" /\ UNCHANGED <<disk, writer, now, ready, top, next, place, in1, got>>
  BY DEF PivotInfo, writerVars
<1>2. DirTypes' /\ Written'
  BY <1>1 DEF DirTypes, Written
<1>3. CASE On(f) /\ f \in DOMAIN seen /\ seen' = [seen EXCEPT ![f] = @ \cup {disk[f].time}] /\ UNCHANGED reader
  <2>1. DOMAIN seen' = DOMAIN seen /\ \A g \in DOMAIN seen \ {f} : seen'[g] = seen[g]
    BY <1>3
  <2>2. seen'[f] = seen[f] \cup {disk[f].time}
    BY <1>3
  <2>3. Pivoting'
    BY <1>1, <1>3, <2>1, <2>2 DEF Pivoting, On
  <2> QED
    BY <1>1, <1>2, <1>3, <2>3 DEF Reading, Inserting, Comparing, Ordered
<1>4. CASE reader' = "panicked" /\ UNCHANGED seen
  BY <1>1, <1>2, <1>4 DEF Reading, Inserting, Comparing, Pivoting, Ordered
<1> QED
  BY <1>3, <1>4 DEF PivotInfo

LEMMA PivotDoneOK == DirInv /\ PivotDone => DirInv'
<1> SUFFICES ASSUME DirInv, PivotDone PROVE DirInv'
  OBVIOUS
<1> USE DEF DirInv, Sorting
<1>1. /\ reader = "pivot" /\ reader' = "read" /\ got = <<>>
      /\ UNCHANGED <<disk, writer, now, ready, next, place, in1, seen, got>>
      /\ \A f \in DOMAIN seen : seen[f] # {}
  BY DEF PivotDone, writerVars, sortVars, Reading
<1>2. PICK t \in SetToSeqs(DOMAIN seen) : (Steady => BySeen(t)) /\ top' = Cut(t)
  BY DEF PivotDone
<1>3. DOMAIN seen \subseteq Files /\ IsFiniteSet(DOMAIN seen) /\ ready \subseteq DOMAIN seen
  BY <1>1 DEF Pivoting
<1>4. t \in Seq(DOMAIN seen) /\ \A f \in DOMAIN seen : \E i \in 1 .. Len(t) : t[i] = f
  BY <1>2, <1>3, Enumerates
<1>5. t \in Seq(Files) /\ Len(t) \in Nat
  BY <1>3, <1>4
<1>6. top' \in Seq(Files) /\ Len(top') <= Len(t) /\ \A i \in 1 .. Len(top') : top'[i] = t[i]
  BY <1>2, <1>5, CutIs
<1>7. Len(top') \in Nat
  BY <1>6
<1>8. DirTypes' /\ Written' /\ Reading'
  BY <1>1, <1>6, <1>7 DEF DirTypes, Written, Reading
<1>9. ASSUME Steady, NEW f \in ready, NEW g \in ready, On(f), On(g), disk[f].time < disk[g].time,
             NEW j \in 1 .. Len(top'), top'[j] = g
      PROVE  \E i \in 1 .. Len(top') : i < j /\ top'[i] = f
  <2>1. PICK i \in 1 .. Len(t) : t[i] = f
    BY <1>3, <1>4
  <2>2. j \in 1 .. Len(t) /\ t[j] = g
    BY <1>5, <1>6, <1>7, <1>9
  <2>3. disk[f].time \in Nat /\ disk[g].time \in Nat
    BY <1>9 DEF DirTypes, On
  <2>4. i # j
    BY <1>9, <2>1, <2>2, <2>3
  <2>5. disk[f].time \in seen[f] /\ disk[g].time \in seen[g]
    BY <1>1, <1>3, <1>9 DEF Pivoting
  <2>6. ~ j < i
    <3> SUFFICES ASSUME j < i PROVE FALSE
      OBVIOUS
    <3>1. BySeen(t)
      BY <1>2, <1>9
    <3>2. \A x \in seen[t[j]], y \in seen[t[i]] : x <= y
      BY <2>1, <2>2, <3>1 DEF BySeen
    <3>3. disk[g].time <= disk[f].time
      BY <2>1, <2>2, <2>5, <3>2
    <3> QED
      BY <1>9, <2>3, <3>3
  <2>7. i < j /\ i \in 1 .. Len(top')
    BY <1>5, <1>7, <2>1, <2>2, <2>4, <2>6
  <2> QED
    BY <1>6, <2>1, <2>7
<1>10. Ordered'
  BY <1>1, <1>9 DEF Ordered, SortedBefore, On, Steady
<1> QED
  BY <1>1, <1>8, <1>10 DEF Inserting, Comparing, Pivoting

LEMMA ReadNextOK == DirInv /\ ReadNext => DirInv'
<1> SUFFICES ASSUME DirInv, ReadNext PROVE DirInv'
  OBVIOUS
<1> DEFINE f == top[Len(got) + 1]
<1>1. /\ reader = "read" /\ Len(got) < Len(top)
      /\ UNCHANGED <<disk, writer, now, ready, top, next, place, in1, seen>>
  BY DEF ReadNext, writerVars, sortVars
<1>2. Sorting' /\ Written'
  BY <1>1 DEF ReadNext, DirInv, Sorting, Inserting, Comparing, Pivoting, Ordered, SortedBefore, Steady, On, Written
<1>3. CASE On(f) /\ got' = Append(got, disk[f].data) /\ UNCHANGED reader
  <2>1. disk[f].data \in {"part", "all"} /\ (f \in ready => disk[f].data = "all")
    BY <1>3 DEF DirInv, Reading, Written, On
  <2>2. got \in Seq({"part", "all"})
    BY DEF DirInv, DirTypes
  <2> DEFINE d == disk[f].data
  <2> HIDE DEF d
  <2>3. /\ got' \in Seq({"part", "all"}) /\ Len(got') = Len(got) + 1
        /\ \A i \in 1 .. Len(got) : got'[i] = got[i]
        /\ got'[Len(got) + 1] = d
    BY <1>3, <2>1, <2>2 DEF d
  <2>4. DirTypes'
    BY <1>1, <2>3 DEF DirInv, DirTypes
  <2>5. Len(got) \in Nat /\ Len(top) \in Nat
    BY <2>2 DEF DirInv, DirTypes
  <2>6. \A i \in 1 .. Len(got') : top[i] \in ready => got'[i] = "all"
    <3> SUFFICES ASSUME NEW i \in 1 .. Len(got'), top[i] \in ready PROVE got'[i] = "all"
      OBVIOUS
    <3>1. CASE i = Len(got) + 1
      BY <3>1, <2>1, <2>3 DEF d
    <3>2. CASE i \in 1 .. Len(got)
      BY <3>2, <2>3 DEF DirInv, Reading
    <3> QED
      BY <3>1, <3>2, <2>3, <2>5
  <2>7. Reading'
    BY <1>1, <1>3, <2>3, <2>5, <2>6 DEF DirInv, Reading
  <2> QED
    BY <1>2, <2>4, <2>7 DEF DirInv
<1>4. CASE got' = <<>> /\ reader' = "failed"
  <2>1. DirTypes' /\ Reading'
    BY <1>1, <1>4 DEF DirInv, DirTypes, Reading
  <2> QED
    BY <1>2, <2>1 DEF DirInv
<1> QED
  BY <1>3, <1>4 DEF ReadNext

LEMMA ReturnOK == DirInv /\ (Return \/ Again \/ WalkFails) => DirInv'
<1> SUFFICES ASSUME DirInv, Return \/ Again \/ WalkFails PROVE DirInv'
  OBVIOUS
<1>1. CASE Return
  BY <1>1 DEF Return, writerVars, sortVars, DirInv, DirTypes, Written, Reading, Sorting, Inserting, Comparing,
              Pivoting, Ordered, SortedBefore, Steady, On
<1>2. CASE Again
  <2>1. DirTypes' /\ Written'
    BY <1>2 DEF Again, writerVars, DirInv, DirTypes, Written
  <2>2. Reading' /\ Sorting'
    BY <1>2 DEF Again, Reading, Sorting, Inserting, Comparing, Pivoting, Ordered
  <2> QED
    BY <2>1, <2>2 DEF DirInv
<1>3. CASE WalkFails
  <2>1. /\ reader = "idle" /\ reader' = "failed"
        /\ UNCHANGED <<disk, writer, now, ready, top, next, place, in1, seen, got>>
    BY <1>3 DEF WalkFails, writerVars, sortVars
  <2>2. DirTypes' /\ Written'
    BY <2>1 DEF DirInv, DirTypes, Written
  <2>3. Reading'
    BY <2>1 DEF DirInv, Reading
  <2>4. Sorting'
    BY <2>1 DEF Sorting, Inserting, Comparing, Pivoting, Ordered
  <2> QED
    BY <2>2, <2>3, <2>4 DEF DirInv
<1> QED
  BY <1>1, <1>2, <1>3

LEMMA DirNextOK == DirInv /\ [DirNext]_dirVars => DirInv'
<1> SUFFICES ASSUME DirInv, [DirNext]_dirVars PROVE DirInv'
  OBVIOUS
<1>1. CASE UNCHANGED dirVars
  BY <1>1 DEF dirVars, writerVars, sortVars, DirInv, DirTypes, Written, Reading, Sorting, Inserting, InPlace,
              Comparing, Pivoting, Ordered, SortedBefore, Steady, On
<1>2. CASE topNfilesSorted
  BY <1>2, InsertInfoOK, InsertCompareOK, InsertDoneOK, PivotInfoOK, PivotDoneOK DEF topNfilesSorted
<1> QED
  BY <1>1, <1>2, CreateOK, FlushOK, CloseFileOK, ConsumeOK, WalkOK, ReadNextOK, ReturnOK, TickOK
     DEF DirNext

\* For any names, any n and any time, whatever writers and the consumer do
\* between any two steps, those of the sort included: what ReadOldestFiles
\* returns has the whole data of every file that was ready when it began, and an
\* older one of two ready files, if both are still there, comes before the
\* younger one; when there are too many files to sort them by insertion, the
\* latter as long as no time changes from one comparison to another.
THEOREM OldestAreWhole == DirSpec => []ReturnsOldestWhole
<1>1. DirInv => ReturnsOldestWhole
  <2> SUFFICES ASSUME DirInv, reader = "returned"
               PROVE  /\ \A i \in 1 .. Len(top) : top[i] \in ready => got[i] = "all"
                      /\ Steady =>
                           \A f, g \in ready :
                             On(f) /\ On(g) /\ disk[f].time < disk[g].time
                               /\ (\E j \in 1 .. Len(top) : top[j] = g)
                             => \E i, j \in 1 .. Len(top) : i < j /\ top[i] = f /\ top[j] = g
    BY DEF ReturnsOldestWhole
  <2>1. \A i \in 1 .. Len(top) : top[i] \in ready => got[i] = "all"
    BY DEF DirInv, Reading
  <2>2. Steady => \A f, g \in ready : SortedBefore(f, g)
    BY DEF DirInv, Sorting, Ordered
  <2> QED
    BY <2>1, <2>2 DEF SortedBefore
<1> QED
  BY <1>1, DirInitOK, DirNextOK, PTL DEF DirSpec

(* WasmModule. *)

RunStages == {"start", "new", "noModule", "idle", "reserve", "main", "getResult",
           "getResultStr", "freeResult", "freeParam", "closed", "end", "panicked"}

\* The blocks that a call under way has still to free.
Held ==
  {b \in Blocks :
     \/ b = param /\ stage \in {"reserve", "main", "getResult", "getResultStr", "freeResult", "freeParam"}
     \/ b = result /\ stage \in {"main", "getResult", "getResultStr", "freeResult"}
     \/ b = str /\ stage \in {"getResult", "getResultStr"}}

GuestTypes ==
  /\ stage \in RunStages
  /\ guest \in {"none", "open", "gone"}
  /\ live \subseteq Blocks /\ lost \subseteq live
  /\ param \in Blocks \cup {NoBlock} /\ result \in Blocks \cup {NoBlock}
  /\ str \in Blocks \cup {NoBlock, BadBlock}
  /\ astray \in BOOLEAN /\ wild \in BOOLEAN

\* Nothing is allocated without a guest.
NoGuest ==
  /\ stage \in {"start", "new"} => guest = "none"
  /\ guest # "open" => live = {}

\* Every block that is allocated is lost or is going to be freed.
Owned == stage \notin {"end", "panicked"} => live \ lost \subseteq Held

\* As long as the guest has not gone astray, the blocks to be freed are
\* allocated, and are different ones.
DistinctBlocks ==
  guest = "open" /\ ~astray =>
    /\ stage \in {"reserve", "main", "getResult", "getResultStr", "freeResult", "freeParam"}
         => param \in live \cup {NoBlock}
    /\ stage \in {"main", "getResult", "getResultStr", "freeResult"}
         => result \in live \cup {NoBlock} /\ (result \in Blocks => result # param)
    /\ stage \in {"getResult", "getResultStr"}
         => str \in live \cup {NoBlock} /\ (str \in Blocks => str # param /\ str # result)

\* What a panic may be about.
Incomplete == ~(Exports \ {"ver"} \subseteq exports) \/ void # {}

GuestInv ==
  /\ GuestTypes /\ NoGuest /\ Owned /\ DistinctBlocks
  /\ wild => astray
  /\ stage \in {"reserve", "main"} => ~astray
  /\ stage = "panicked" /\ guest # "none" => Incomplete

LEMMA NoBlocks == NoBlock \notin Blocks /\ BadBlock \notin Blocks /\ NoBlock # BadBlock
  BY WasmAssumption DEF NoBlock, BadBlock, Blocks

LEMMA GuestInitOK == WasmInit => GuestInv
  BY NoBlocks DEF WasmInit, GuestInv, GuestTypes, RunStages, NoGuest, Owned, DistinctBlocks, Held, Blocks

\* A deferred free of a block, in the terms of the invariant.
LEMMA FreeKeeps ==
  ASSUME GuestInv, NEW b \in Blocks \cup {NoBlock, BadBlock}, Free(b),
         guest = "open" /\ ~astray => b \in live \cup {NoBlock}
  PROVE  /\ guest' \in {"none", "open", "gone"} /\ (guest' = guest \/ guest' = "gone")
         /\ live' \subseteq live /\ lost' \subseteq live'
         /\ live \ live' \subseteq {b} \/ live' = {}
         /\ live' \ lost' \subseteq (live \ lost) \ {b}
         /\ guest' = "gone" => live' = {}
         /\ wild' \in BOOLEAN /\ (wild' => astray)
         /\ guest' = "open" => guest = "open" /\ live \ live' \subseteq {b}
<1>1. CASE /\ Returns("free") /\ live' = live \ {b} /\ lost' = lost \ {b}
           /\ wild' = (wild \/ b \notin live \cup {NoBlock}) /\ UNCHANGED guest
  BY <1>1 DEF GuestInv, GuestTypes, NoGuest, Returns
<1>2. CASE Traps("free") /\ guest = "gone" /\ UNCHANGED wild
  BY <1>2 DEF GuestInv, GuestTypes, NoGuest, Traps, memory
<1>3. CASE /\ "free" \in exports /\ guest = "open"
           /\ lost' = lost \cup ({b} \cap live) /\ UNCHANGED <<guest, live, wild>>
  BY <1>3 DEF GuestInv, GuestTypes, NoGuest
<1>4. CASE Exits("free") /\ UNCHANGED wild
  BY <1>4 DEF GuestInv, GuestTypes, NoGuest, Exits
<1> QED
  BY <1>1, <1>2, <1>3, <1>4 DEF Free

\* Before a Run, and after it, the invariant says that nothing is held.
LEMMA OutsideRun == GuestInv /\ WasmNext /\ stage \in {"start", "new", "noModule", "closed"} => GuestInv'
<1> SUFFICES ASSUME GuestInv, WasmNext, stage \in {"start", "new", "noModule", "closed"} PROVE GuestInv'
  OBVIOUS
<1> USE NoBlocks
<1>1. CASE NewRuntimeWithCompilationCache
  BY <1>1 DEF GuestInv, GuestTypes, RunStages, NoGuest, Owned, DistinctBlocks, Held, Blocks,
              NewRuntimeWithCompilationCache, memory, frame
<1>2. CASE NewModule
  <2>1. CASE UNCHANGED <<exports, void, memory>>
    BY <1>2, <2>1 DEF GuestInv, GuestTypes, RunStages, NoGuest, Owned, DistinctBlocks, Held, NewModule, memory, frame
  <2>2. CASE /\ runtime = "ok" /\ live' \in (IF guest' = "open" THEN SUBSET Blocks ELSE {{}}) /\ lost' = live'
             /\ \/ "ver" \in void' /\ stage' = "panicked" /\ guest' = "open"
                \/ /\ "init" \notin exports' /\ stage' = "panicked"
                   /\ guest' \in IF "ver" \in exports' THEN {"open", "gone"} ELSE {"open"}
                \/ "init" \in exports' /\ stage' = "idle" /\ guest' = "open"
                \/ "init" \in exports' /\ stage' = "noModule" /\ guest' \in {"open", "gone"}
    <3>1. guest' \in {"open", "gone"} /\ stage' \in {"panicked", "idle", "noModule"}
      BY <2>2
    <3>2. live' \subseteq Blocks /\ (guest' # "open" => live' = {})
      BY <2>2
    <3>3. stage' = "panicked" => Incomplete'
      BY <2>2 DEF Incomplete, Exports
    <3> QED
      BY <1>2, <2>2, <3>1, <3>2, <3>3
         DEF GuestInv, GuestTypes, RunStages, NoGuest, Owned, DistinctBlocks, NewModule, frame
  <2> QED
    BY <1>2, <2>1, <2>2 DEF NewModule
<1>3. CASE RuntimeClose
  BY <1>3 DEF GuestInv, GuestTypes, RunStages, NoGuest, Owned, DistinctBlocks, Held, Blocks, RuntimeClose, memory, frame
<1> QED
  BY <1>1, <1>2, <1>3 DEF WasmNext, ModuleClose, writeToMemory, reserveMemoryForResult, main,
     getResult, getResultStr, freeResult, freeParam

LEMMA ModuleCloseOK == GuestInv /\ ModuleClose => GuestInv'
  BY NoBlocks DEF GuestInv, GuestTypes, RunStages, NoGuest, Owned, DistinctBlocks, Held, Blocks, ModuleClose, home, frame

LEMMA WriteOK == GuestInv /\ writeToMemory => GuestInv'
<1> SUFFICES ASSUME GuestInv, writeToMemory PROVE GuestInv'
  OBVIOUS
<1> USE NoBlocks DEF GuestInv, GuestTypes, RunStages, NoGuest, Owned, DistinctBlocks, Held, home, frame
<1>0. stage = "idle" /\ astray' = FALSE /\ wild' = FALSE /\ UNCHANGED home
  BY DEF writeToMemory
<1>1. CASE (Panics("malloc") \/ NoResult("malloc")) /\ UNCHANGED <<memory, frame>>
  BY <1>0, <1>1 DEF Panics, NoResult, memory, Exports, Incomplete
<1>2. CASE Errs("malloc") /\ UNCHANGED <<stage, frame>>
  BY <1>0, <1>2 DEF Errs, Traps, Exits, memory
<1>3. ASSUME NEW b \in Blocks \cup {NoBlock}, Mallocs(b),
             \/ Panics("memory") /\ UNCHANGED <<lost, frame>>
             \/ lost' = lost \cup ({b} \ {NoBlock}) /\ UNCHANGED <<stage, frame>>
             \/ stage' = "reserve" /\ param' = b /\ UNCHANGED <<lost, result, str>>
      PROVE  GuestInv'
  <2>1. /\ live' = live \cup ({b} \ {NoBlock}) /\ b \notin live /\ guest = "open" /\ guest' = guest
        /\ live' \subseteq Blocks
    BY <1>3 DEF Mallocs, Returns
  <2>2. CASE Panics("memory") /\ UNCHANGED <<lost, frame>>
    BY <1>0, <2>1, <2>2 DEF Panics, Exports, Incomplete
  <2>3. CASE lost' = lost \cup ({b} \ {NoBlock}) /\ UNCHANGED <<stage, frame>>
    BY <1>0, <2>1, <2>3
  <2>4. CASE stage' = "reserve" /\ param' = b /\ UNCHANGED <<lost, result, str>>
    BY <1>0, <2>1, <2>4
  <2> QED
    BY <1>3, <2>2, <2>3, <2>4
<1> QED
  BY <1>1, <1>2, <1>3 DEF writeToMemory

LEMMA ReserveOK == GuestInv /\ reserveMemoryForResult => GuestInv'
<1> SUFFICES ASSUME GuestInv, reserveMemoryForResult PROVE GuestInv'
  OBVIOUS
<1> USE NoBlocks DEF GuestInv, GuestTypes, RunStages, NoGuest, Owned, DistinctBlocks, Held, home, frame
<1>1. CASE Errs("malloc") /\ stage' = "freeParam" /\ UNCHANGED frame
  BY <1>1 DEF reserveMemoryForResult, Errs, Traps, Exits, memory
<1>2. ASSUME NEW b \in Blocks \cup {NoBlock}, Mallocs(b), result' = b, stage' = "main",
             UNCHANGED <<lost, param, str>>
      PROVE  GuestInv'
  <2>1. /\ live' = live \cup ({b} \ {NoBlock}) /\ b \notin live /\ guest = "open" /\ guest' = guest
        /\ live' \subseteq Blocks
    BY <1>2 DEF Mallocs, Returns
  <2> QED
    BY <1>2, <2>1 DEF reserveMemoryForResult
<1> QED
  BY <1>1, <1>2 DEF reserveMemoryForResult, Reserve

LEMMA MainOK == GuestInv /\ main => GuestInv'
<1> SUFFICES ASSUME GuestInv, main PROVE GuestInv'
  OBVIOUS
<1> USE NoBlocks DEF GuestInv, GuestTypes, RunStages, NoGuest, Owned, DistinctBlocks, Held, home, frame
<1>1. CASE Panics("event") /\ UNCHANGED <<memory, str, astray>>
  BY <1>1 DEF main, Panics, memory, Exports, Incomplete
<1>2. CASE Exits("event") /\ stage' = "freeResult" /\ UNCHANGED <<str, astray>>
  BY <1>2 DEF main, Exits
<1>3. CASE /\ Returns("event") /\ UNCHANGED guest
           /\ \/ stage' = "freeResult" /\ str' = NoBlock
              \/ stage' = "getResult" /\ str' \in Blocks \cup {NoBlock, BadBlock}
           /\ live' \in SUBSET Blocks /\ lost' = live' \ {param, result, str'}
           /\ astray' = ~( /\ {param, result} \ {NoBlock} \subseteq live'
                           /\ {str'} \ {NoBlock} \subseteq live' \ {param, result} )
  <2>1. /\ stage = "main" /\ UNCHANGED <<home, param, result, wild, runs>>
        /\ guest = "open" /\ stage' \in {"freeResult", "getResult"}
    BY <1>3 DEF main, Returns
  <2>2. GuestTypes' /\ NoGuest'
    BY <1>3, <2>1
  <2>3. Owned'
    BY <1>3, <2>1
  <2>4. result \in Blocks /\ ~astray' => result # param
    BY <1>3, <2>1
  <2>5. DistinctBlocks' 
    BY <1>3, <2>1, <2>4
  <2> QED
    BY <1>3, <2>1, <2>2, <2>3, <2>5
<1> QED
  BY <1>1, <1>2, <1>3 DEF main

LEMMA ResultOK == GuestInv /\ getResult => GuestInv'
<1> SUFFICES ASSUME GuestInv, getResult PROVE GuestInv'
  OBVIOUS
<1> USE NoBlocks DEF GuestInv, GuestTypes, RunStages, NoGuest, Owned, DistinctBlocks, Held, home, getResult
<1>1. CASE stage' = "freeResult" /\ str' = NoBlock /\ lost' = lost \cup (({str} \cap live) \ {param, result})
  BY <1>1
<1>2. CASE stage' = "getResultStr" /\ UNCHANGED <<str, lost>>
  BY <1>2
<1> QED
  BY <1>1, <1>2

LEMMA StringOK == GuestInv /\ getResultStr => GuestInv'
<1> SUFFICES ASSUME GuestInv, getResultStr PROVE GuestInv'
  OBVIOUS
<1> USE NoBlocks
<1>1. CASE str # NoBlock /\ Panics("free") /\ UNCHANGED <<memory, wild>>
  BY <1>1 DEF GuestInv, GuestTypes, RunStages, NoGuest, Owned, DistinctBlocks, Held, home, getResultStr, Panics, memory, Exports, Incomplete
<1>2. CASE str # NoBlock /\ Free(str) /\ stage' = "freeResult"
  <2>1. guest = "open" /\ ~astray => str \in live \cup {NoBlock}
    BY <1>2 DEF GuestInv, GuestTypes, DistinctBlocks, getResultStr
  <2>2. str \in Blocks \cup {NoBlock, BadBlock}
    BY DEF GuestInv, GuestTypes
  <2> QED
    BY <1>2, <2>1, <2>2, FreeKeeps
       DEF GuestInv, GuestTypes, RunStages, NoGuest, Owned, DistinctBlocks, Held, home, getResultStr, Free
<1>3. CASE str = NoBlock /\ stage' = "freeResult" /\ UNCHANGED <<memory, wild>>
  BY <1>3 DEF GuestInv, GuestTypes, RunStages, NoGuest, Owned, DistinctBlocks, Held, home, getResultStr, memory, Blocks
<1> QED
  BY <1>1, <1>2, <1>3 DEF getResultStr

LEMMA FreeResultOK == GuestInv /\ freeResult => GuestInv'
<1> SUFFICES ASSUME GuestInv, freeResult PROVE GuestInv'
  OBVIOUS
<1> USE NoBlocks
<1>1. CASE Panics("free") /\ UNCHANGED <<memory, wild>>
  BY <1>1 DEF GuestInv, GuestTypes, RunStages, NoGuest, Owned, DistinctBlocks, Held, home, freeResult, Panics, memory, Exports, Incomplete
<1>2. CASE Free(result) /\ stage' = "freeParam"
  <2>1. guest = "open" /\ ~astray => result \in live \cup {NoBlock}
    BY <1>2 DEF GuestInv, GuestTypes, DistinctBlocks, freeResult
  <2>2. result \in Blocks \cup {NoBlock, BadBlock}
    BY DEF GuestInv, GuestTypes
  <2> QED
    BY <1>2, <2>1, <2>2, FreeKeeps
       DEF GuestInv, GuestTypes, RunStages, NoGuest, Owned, DistinctBlocks, Held, home, freeResult
<1> QED
  BY <1>1, <1>2 DEF freeResult

LEMMA FreeParamOK == GuestInv /\ freeParam => GuestInv'
<1> SUFFICES ASSUME GuestInv, freeParam PROVE GuestInv'
  OBVIOUS
<1> USE NoBlocks
<1>1. CASE Panics("free") /\ UNCHANGED <<memory, wild>>
  BY <1>1 DEF GuestInv, GuestTypes, RunStages, NoGuest, Owned, DistinctBlocks, Held, home, freeParam, Panics, memory, Exports, Incomplete
<1>2. CASE Free(param) /\ stage' = "idle"
  <2>1. guest = "open" /\ ~astray => param \in live \cup {NoBlock}
    BY <1>2 DEF GuestInv, GuestTypes, DistinctBlocks, freeParam
  <2>2. param \in Blocks \cup {NoBlock, BadBlock}
    BY DEF GuestInv, GuestTypes
  <2> QED
    BY <1>2, <2>1, <2>2, FreeKeeps
       DEF GuestInv, GuestTypes, RunStages, NoGuest, Owned, DistinctBlocks, Held, home, freeParam
<1> QED
  BY <1>1, <1>2 DEF freeParam

LEMMA GuestNextOK == GuestInv /\ [WasmNext]_wasmVars => GuestInv'
<1> SUFFICES ASSUME GuestInv, [WasmNext]_wasmVars PROVE GuestInv'
  OBVIOUS
<1>1. CASE UNCHANGED wasmVars
  BY <1>1 DEF GuestInv, GuestTypes, NoGuest, Owned, DistinctBlocks, Held, Incomplete, wasmVars, home, memory, frame
<1>2. CASE NewRuntimeWithCompilationCache \/ NewModule \/ RuntimeClose
  BY <1>2, OutsideRun DEF WasmNext, NewRuntimeWithCompilationCache, NewModule, RuntimeClose
<1> QED
  BY <1>1, <1>2, ModuleCloseOK, WriteOK, ReserveOK, MainOK, ResultOK, StringOK, FreeResultOK, FreeParamOK
     DEF WasmNext

\* For any number of blocks and of calls of Run, whatever the guest's
\* functions do to its memory: a module between two calls holds nothing but
\* what the guest keeps and what was lost to failed writes and failed frees,
\* the host frees nothing that is not allocated unless the guest has freed a
\* block of the host's or returned a string that is not its to give, and once
\* there is a guest, the host panics only over what it does not export.
THEOREM GuestMemoryIsKept == WasmSpec => []GuestMemoryKept
<1>1. GuestInv => GuestMemoryKept
  BY DEF GuestInv, GuestTypes, NoGuest, Owned, Held, Incomplete, GuestMemoryKept
<1> QED
  BY <1>1, GuestInitOK, GuestNextOK, PTL DEF WasmSpec

-----------------------------------------------------------------------------
(* EnvLoad. *)

LowFiles == {".env.ENV", ".env.NAME", ".env"}
EnvFileNames == {".env.ENV.local", ".env.local"} \cup LowFiles

EnvTypes ==
  /\ env \in [Names -> {Unset, "process", "args"} \cup EnvFileNames]
  /\ step \in {"args", "environment", "end"} \cup EnvFileNames
  /\ failed \in BOOLEAN
  /\ defines \in [{"process", "args"} \cup EnvFileNames -> SUBSET Names]

\* Sources that Load has not come to yet have defined nothing.
UnreadFiles ==
  /\ step = "args" => defines["args"] = {}
  /\ step \in {"args", "environment", ".env.ENV.local"} => defines[".env.ENV.local"] = {}
  /\ step \in {"args", "environment", ".env.ENV.local", ".env.local"} => defines[".env.local"] = {}
  /\ step \in {"args", "environment", ".env.ENV.local", ".env.local", ".env.ENV"}
       => defines[".env.ENV"] = {}
  /\ step \in {"args", "environment", ".env.ENV.local", ".env.local", ".env.ENV", ".env.NAME"}
       => defines[".env.NAME"] = {}
  /\ step # "end" => defines[".env"] = {}

\* The value that the sources read so far give to a variable.
FirstSource(n) ==
  IF n \in defines[".env.local"] THEN ".env.local"
  ELSE IF n \in defines[".env.ENV.local"] THEN ".env.ENV.local"
  ELSE IF n \in defines["args"] THEN "args"
  ELSE IF n \in defines["process"] THEN "process"
  ELSE IF n \in defines[".env.ENV"] THEN ".env.ENV"
  ELSE IF n \in defines[".env.NAME"] THEN ".env.NAME"
  ELSE IF n \in defines[".env"] THEN ".env"
  ELSE Unset

FromFirst == \A n \in Names : env[n] = FirstSource(n)

\* What the choice of the environment depends on.
Chosen ==
  /\ step \in EnvFileNames \/ (step = "end" /\ ~failed)
       => environment = "development" \/ env["APP_ENV"] \notin {Unset} \cup LowFiles
  /\ environment = "test" => defines[".env.local"] = {}
  /\ step \in {"args", "environment"} => ~failed
  /\ step \in EnvFileNames => ~failed

EnvInv == EnvTypes /\ UnreadFiles /\ FromFirst /\ Chosen

LEMMA SourcesAre ==
  /\ Sources[1] = ".env.ENV.local" /\ Sources[2] = ".env.local" /\ Sources[3] = ".env.ENV"
  /\ Sources[4] = ".env.NAME" /\ Sources[5] = ".env" /\ Len(Sources) = 5
  BY DEF Sources

LEMMA FilesAre == EnvFiles = EnvFileNames
<1>1. EnvFiles = {Sources[i] : i \in 1 .. 5}
  BY SourcesAre DEF EnvFiles
<1>2. 1 .. 5 = {1, 2, 3, 4, 5}
  OBVIOUS
<1>3. {Sources[i] : i \in 1 .. 5} = {Sources[1], Sources[2], Sources[3], Sources[4], Sources[5]}
  BY <1>2
<1> QED
  BY <1>1, <1>3, SourcesAre DEF EnvFileNames, LowFiles

LEMMA NamesDistinct == Unset \notin {"process", "args"} \cup EnvFileNames /\ "APP_ENV" \in Names
  BY EnvAssumption, FilesAre

LEMMA EnvInitOK == EnvInit => EnvInv
<1> SUFFICES ASSUME EnvInit PROVE EnvInv
  OBVIOUS
<1> USE NamesDistinct
<1>1. EnvTypes
  BY FilesAre DEF EnvInit, EnvTypes
<1>2. /\ defines["process"] = {n \in Names : env[n] = "process"}
      /\ \A s \in {"args"} \cup EnvFileNames : defines[s] = {}
  BY FilesAre DEF EnvInit, EnvFileNames, LowFiles
<1>3. FromFirst
  BY <1>2 DEF EnvInit, FromFirst, FirstSource, EnvFileNames, LowFiles
<1>4. UnreadFiles /\ Chosen
  BY <1>2 DEF EnvInit, UnreadFiles, Chosen, EnvFileNames, LowFiles
<1> QED
  BY <1>1, <1>3, <1>4 DEF EnvInv

LEMMA ArgsOK == EnvInv /\ setEnvsUsingCommandLineArgs => EnvInv'
<1> SUFFICES ASSUME EnvInv, setEnvsUsingCommandLineArgs PROVE EnvInv'
  OBVIOUS
<1>1. PICK names \in SUBSET Names :
        SetAll(names, "args") /\ defines' = [defines EXCEPT !["args"] = names]
  BY DEF setEnvsUsingCommandLineArgs
<1>2. /\ defines'["args"] = names
      /\ \A s \in {"process"} \cup EnvFileNames : defines'[s] = defines[s]
      /\ \A n \in Names : env'[n] = IF n \in names THEN "args" ELSE env[n]
  BY <1>1 DEF EnvInv, EnvTypes, EnvFileNames, LowFiles, SetAll
<1>3. EnvTypes'
  BY <1>1, <1>2 DEF EnvInv, EnvTypes, EnvFileNames, LowFiles, SetAll, setEnvsUsingCommandLineArgs
<1>4. FromFirst'
  BY <1>2 DEF EnvInv, EnvTypes, UnreadFiles, FromFirst, FirstSource, EnvFileNames, LowFiles, setEnvsUsingCommandLineArgs
<1>5. UnreadFiles' /\ Chosen'
  BY <1>2 DEF EnvInv, EnvTypes, UnreadFiles, Chosen, EnvFileNames, LowFiles, setEnvsUsingCommandLineArgs
<1> QED
  BY <1>3, <1>4, <1>5 DEF EnvInv

LEMMA EnvironmentOK == EnvInv /\ Environment => EnvInv'
<1> SUFFICES ASSUME EnvInv, Environment PROVE EnvInv'
  OBVIOUS
<1>1. EnvTypes' /\ UnreadFiles' /\ FromFirst'
  BY SourcesAre DEF EnvInv, EnvTypes, UnreadFiles, FromFirst, FirstSource, EnvFileNames, LowFiles, Environment
<1>2. env["APP_ENV"] = Unset \/ env["APP_ENV"] \in {"process", "args"}
  BY NamesDistinct DEF EnvInv, EnvTypes, UnreadFiles, FromFirst, FirstSource, Environment
<1>3. Chosen'
  BY <1>2, SourcesAre, NamesDistinct DEF EnvInv, EnvTypes, UnreadFiles, Chosen, EnvFileNames, LowFiles, Environment
<1> QED
  BY <1>1, <1>3 DEF EnvInv

\* A file that Load has come to: what it adds to the variables.
LEMMA FileOK == ASSUME EnvInv, NEW i \in 1 .. Len(Sources), LoadFile(i) PROVE EnvInv'
<1> USE SourcesAre, NamesDistinct
<1>1. /\ step \in EnvFileNames /\ step = Sources[i] /\ UNCHANGED <<environment, failed>>
      /\ step' = IF i = 5 THEN "end" ELSE Sources[i + 1]
  BY DEF LoadFile, EnvFileNames, LowFiles
<1>2. /\ step = ".env.ENV.local" => step' = ".env.local"
      /\ step = ".env.local" => step' = ".env.ENV"
      /\ step = ".env.ENV" => step' = ".env.NAME"
      /\ step = ".env.NAME" => step' = ".env"
      /\ step = ".env" => step' = "end"
  <2>1. i \in {1, 2, 3, 4, 5}
    OBVIOUS
  <2> QED
    BY <1>1, <2>1
<1>3. CASE UNCHANGED <<env, loaded, defines>>
  BY <1>1, <1>2, <1>3 DEF EnvInv, EnvTypes, UnreadFiles, FromFirst, FirstSource, Chosen, EnvFileNames, LowFiles
<1>4. CASE ~ UNCHANGED <<env, loaded, defines>>
  <2>1. load(step) /\ (step = ".env.local" => environment # "test")
    BY <1>4 DEF LoadFile
  <2>2. PICK names \in SUBSET Names :
          /\ defines' = [defines EXCEPT ![step] = names]
          /\ SetAll({n \in names : Overrides(step) \/ env[n] = Unset}, step)
    BY <1>4, <2>1 DEF load
  <2>3. /\ defines'[step] = names
        /\ \A s \in ({"process", "args"} \cup EnvFileNames) \ {step} : defines'[s] = defines[s]
    BY <1>1, <2>2 DEF EnvInv, EnvTypes, EnvFileNames, LowFiles
  <2>4. \A n \in Names : env'[n] = IF n \in names /\ (Overrides(step) \/ env[n] = Unset)
                                   THEN step ELSE env[n]
    BY <2>2 DEF SetAll
  <2>5. EnvTypes'
    BY <1>1, <1>2, <2>2, <2>4 DEF EnvInv, EnvTypes, EnvFileNames, LowFiles, SetAll
  <2>6. UnreadFiles'
    BY <1>1, <1>2, <2>3 DEF EnvInv, UnreadFiles, EnvFileNames, LowFiles
  <2>7. FromFirst'
    <3> SUFFICES ASSUME NEW n \in Names PROVE env'[n] = FirstSource(n)'
      BY DEF FromFirst
    <3>1. env[n] = FirstSource(n)
      BY DEF EnvInv, FromFirst
    <3>2. CASE step = ".env.ENV.local"
      BY <3>1, <3>2, <2>3, <2>4 DEF EnvInv, UnreadFiles, FirstSource, Overrides, EnvFileNames, LowFiles
    <3>3. CASE step = ".env.local"
      BY <3>1, <3>3, <2>3, <2>4 DEF EnvInv, UnreadFiles, FirstSource, Overrides, EnvFileNames, LowFiles
    <3>4. CASE step = ".env.ENV"
      BY <3>1, <3>4, <2>3, <2>4 DEF EnvInv, UnreadFiles, FirstSource, Overrides, EnvFileNames, LowFiles
    <3>5. CASE step = ".env.NAME"
      BY <3>1, <3>5, <2>3, <2>4 DEF EnvInv, UnreadFiles, FirstSource, Overrides, EnvFileNames, LowFiles
    <3>6. CASE step = ".env"
      BY <3>1, <3>6, <2>3, <2>4 DEF EnvInv, UnreadFiles, FirstSource, Overrides, EnvFileNames, LowFiles
    <3> QED
      BY <1>1, <3>2, <3>3, <3>4, <3>5, <3>6 DEF EnvFileNames, LowFiles
  <2>8. Chosen'
    BY <1>1, <1>2, <2>1, <2>3, <2>4 DEF EnvInv, EnvTypes, Chosen, Overrides, EnvFileNames, LowFiles
  <2> QED
    BY <2>5, <2>6, <2>7, <2>8 DEF EnvInv
<1> QED
  BY <1>3, <1>4

LEMMA EnvNextOK == EnvInv /\ [EnvNext]_envVars => EnvInv'
<1> SUFFICES ASSUME EnvInv, [EnvNext]_envVars PROVE EnvInv'
  OBVIOUS
<1>1. CASE UNCHANGED envVars
  BY <1>1 DEF EnvInv, EnvTypes, UnreadFiles, FromFirst, FirstSource, Chosen, envVars
<1> QED
  BY <1>1, ArgsOK, EnvironmentOK, FileOK DEF EnvNext

\* The chain of cases of the invariant is the order of Precedence.
LEMMA ChainIsPrecedence ==
  ASSUME EnvInv, NEW n \in Names
  PROVE  LET from == {i \in 1 .. Len(Precedence) : n \in defines[Precedence[i]]} IN
         IF from = {} THEN env[n] = Unset
         ELSE \E i \in from : env[n] = Precedence[i] /\ \A j \in from : i <= j
<1> DEFINE from == {i \in 1 .. Len(Precedence) : n \in defines[Precedence[i]]}
<1>1. /\ Precedence[1] = ".env.local" /\ Precedence[2] = ".env.ENV.local" /\ Precedence[3] = "args"
      /\ Precedence[4] = "process" /\ Precedence[5] = ".env.ENV" /\ Precedence[6] = ".env.NAME"
      /\ Precedence[7] = ".env" /\ Len(Precedence) = 7
  BY DEF Precedence
<1>2. env[n] = FirstSource(n)
  BY DEF EnvInv, FromFirst
<1>3. CASE from = {}
  <2>1. \A i \in {1, 2, 3, 4, 5, 6, 7} : n \notin defines[Precedence[i]]
    BY <1>1, <1>3
  <2> QED
    BY <1>1, <1>2, <1>3, <2>1 DEF FirstSource
<1>4. CASE from # {}
  <2>1. PICK i \in from : \A j \in from : i <= j
    <3>1. \A i \in from : i \in {1, 2, 3, 4, 5, 6, 7}
      BY <1>1
    <3> QED
      BY <1>4, <3>1
  <2>2. i \in {1, 2, 3, 4, 5, 6, 7} /\ n \in defines[Precedence[i]]
    BY <1>1
  <2>3. \A j \in {1, 2, 3, 4, 5, 6, 7} : j < i => n \notin defines[Precedence[j]]
    BY <1>1, <2>1, <2>2
  <2>4. env[n] = Precedence[i]
    BY <1>1, <1>2, <2>2, <2>3 DEF FirstSource
  <2> QED
    BY <1>4, <2>1, <2>4
<1> QED
  BY <1>3, <1>4

\* For any set of variables, whatever the files define: when Load has returned
\* without an error, each variable has the value of the first source in the
\* order of Precedence that defines it, and neither a low file nor .env.local
\* in tests has had a say that it should not have.
THEOREM LoadHasPrecedence == EnvSpec => []FirstSourceWins
<1>1. EnvInv => FirstSourceWins
  <2> SUFFICES ASSUME EnvInv, step = "end", ~failed
               PROVE  /\ env["APP_ENV"] \in LowFiles => environment = "development"
                      /\ environment = "test" => \A n \in Names : env[n] # ".env.local"
    BY ChainIsPrecedence DEF FirstSourceWins, LowFiles
  <2> QED
    BY NamesDistinct DEF EnvInv, Chosen, FromFirst, FirstSource, EnvFileNames, LowFiles
<1> QED
  BY <1>1, EnvInitOK, EnvNextOK, PTL DEF EnvSpec

-----------------------------------------------------------------------------
(* LastLines. *)

Chars == {Utf8(b) : b \in Bytes}

Newlines == {i \in 1 .. Len(content) : NewlineAt(content, i)}
Found(p) == {e \in Newlines : p < e}

Shown(e) == removeCRLF(LineAt(content, e))

\* The lines that begin and end behind p, without those that are dropped.
Complete(p) ==
  {e \in Found(p) : /\ \E i \in Found(p) : i < e
                    /\ ~(arg.skipEmpty /\ Blank(LineAt(content, e)))}

\* accLines has the lines that end at the places E.
Listed(E) ==
  /\ lines \in Seq({Shown(e) : e \in E})
  /\ Len(lines) = Cardinality(E)
  /\ \A e \in E : lines[Cardinality({i \in E : i <= e})] = Shown(e)

\* What the scan knows of the file behind p.
ScanInv(p) ==
  /\ p \in 0 .. Len(content)
  /\ (first <=> Found(p) = {})
  /\ first => line = SubSeq(Text(content), p + 1, Len(content))
  /\ ~first => \E e \in Found(p) :
                 /\ \A i \in Found(p) : e <= i
                 /\ line = SubSeq(Text(content), p + 1, e)
  /\ Listed(Complete(p))
  /\ arg.nlines <= 0 \/ Len(lines) < arg.nlines

\* The block that begins o characters behind the start of the file.
BlockInv(o) ==
  /\ o \in Nat /\ buffer \in Nat /\ o + buffer <= Len(content)
  /\ o > 0 => buffer = Shortest(BlockSize, Len(content))

\* Until the file is written to, a block adjoins what has been scanned.
PlaceInv ==
  /\ cursor \in Int
  /\ at # "stat" => statSize = Len(content)
  /\ at = "stat" => lines = <<>> /\ line = <<>> /\ first
  /\ at = "seek" => BlockInv(Len(content) + cursor)
                    /\ ScanInv(Len(content) + cursor + buffer)
  /\ at \in {"read", "scan"} => offset = Len(content) + cursor /\ BlockInv(offset)
  /\ at = "read" => ScanInv(offset + buffer)
  /\ at = "scan" => /\ block = SubSeq(content, offset + 1, offset + buffer)
                    /\ left \in 0 .. buffer
                    /\ ScanInv(offset + left)

TailInv ==
  /\ content \in Seq(Bytes)
  /\ arg \in Args
  /\ at \in {"stat", "seek", "read", "scan", "done"}
  /\ grown \/ (PlaceInv /\ ReturnsLastLines)

LEMMA MaxIs == ASSUME NEW S \in SUBSET Int, NEW m \in S, \A i \in S : i <= m PROVE Max(S) = m
<1>1. \A y \in S : m >= y
  OBVIOUS
<1>2. ASSUME NEW x \in S, \A y \in S : x >= y PROVE x = m
  <2>1. x >= m /\ m >= x
    BY <1>1, <1>2
  <2> QED
    BY <2>1
<1> QED
  BY <1>1, <1>2 DEF Max

LEMMA FoundIsFinite ==
  ASSUME content \in Seq(Bytes), NEW p \in Nat
  PROVE  /\ Found(p) \subseteq 1 .. Len(content) /\ IsFiniteSet(Found(p))
         /\ Complete(p) \subseteq Found(p) /\ IsFiniteSet(Complete(p))
<1>1. Len(content) \in Nat
  BY LenProperties
<1>2. Found(p) \subseteq 1 .. Len(content) /\ Complete(p) \subseteq Found(p)
  BY DEF Found, Newlines, Complete
<1>3. IsFiniteSet(1 .. Len(content))
  BY <1>1, FS_Interval
<1> QED
  BY <1>2, <1>3, FS_Subset

\* A line in front of those listed.
LEMMA InFront ==
  ASSUME NEW E \in SUBSET Nat, IsFiniteSet(E), Listed(E),
         NEW e \in Nat, \A i \in E : e < i,
         lines' = <<Shown(e)>> \o lines, \A i \in E \cup {e} : Shown(i)' = Shown(i)
  PROVE  Listed(E \cup {e})' /\ Len(lines') = Len(lines) + 1
<1> DEFINE F == E \cup {e}
           T == {Shown(i) : i \in F}
           Upto(G, x) == {i \in G : i <= x}
<1>1. lines \in Seq(T) /\ <<Shown(e)>> \in Seq(T) /\ Len(lines) = Cardinality(E)
  BY SeqMonotonic DEF Listed
<1>2. Cardinality(E) \in Nat /\ IsFiniteSet(F) /\ Cardinality(F) = Cardinality(E) + 1
  BY FS_CardinalityType, FS_AddElement
<1>3. /\ lines' \in Seq(T) /\ Len(lines') = Cardinality(F) /\ Len(lines') = Len(lines) + 1
      /\ lines'[1] = Shown(e)
      /\ \A i \in 1 .. Cardinality(E) : lines'[i + 1] = lines[i]
  <2> HIDE DEF T, F
  <2>1. Len(<<Shown(e)>>) = 1 /\ <<Shown(e)>>[1] = Shown(e)
    OBVIOUS
  <2>2. /\ lines' \in Seq(T) /\ Len(lines') = 1 + Len(lines)
        /\ \A i \in 1 .. 1 + Len(lines) :
             lines'[i] = IF i <= 1 THEN <<Shown(e)>>[i] ELSE lines[i - 1]
    BY <1>1, <2>1, ConcatProperties
  <2> QED
    BY <1>1, <1>2, <2>1, <2>2
<1>4. lines'[Cardinality(Upto(F, e))] = Shown(e)
  <2>1. \A i \in F : i <= e <=> i = e
    OBVIOUS
  <2>2. Upto(F, e) = {e}
    BY <2>1
  <2> QED
    BY <1>3, <2>2, FS_Singleton
<1>5. ASSUME NEW x \in E PROVE lines'[Cardinality(Upto(F, x))] = Shown(x)
  <2>1. Upto(F, x) = Upto(E, x) \cup {e} /\ e \notin Upto(E, x)
    OBVIOUS
  <2>2. Upto(E, x) \subseteq E /\ Upto(E, x) # {}
    BY <1>5
  <2>3. /\ IsFiniteSet(Upto(E, x)) /\ Cardinality(Upto(E, x)) <= Cardinality(E)
        /\ Cardinality(Upto(E, x)) \in Nat /\ Cardinality(Upto(E, x)) # 0
    <3> HIDE DEF Upto
    <3> QED
      BY <2>2, FS_Subset, FS_CardinalityType, FS_EmptySet
  <2>4. Cardinality(Upto(F, x)) = Cardinality(Upto(E, x)) + 1
    <3> HIDE DEF Upto, F
    <3> QED
      BY <2>1, <2>3, FS_AddElement
  <2>5. lines[Cardinality(Upto(E, x))] = Shown(x)
    BY DEF Listed
  <2> QED
    <3> HIDE DEF Upto, F
    <3> QED
      BY <1>2, <1>3, <2>3, <2>4, <2>5
<1>6. {Shown(i)' : i \in F} = T /\ \A i \in F : Shown(i)' = Shown(i)
  OBVIOUS
<1> QED
  <2>1. (lines \in Seq({Shown(i) : i \in F}))'
    BY <1>3, <1>6
  <2> QED
    BY <1>2, <1>3, <1>4, <1>5, <1>6, <2>1 DEF Listed

\* The line that ends at e begins behind m.
LEMMA LineBehind ==
  ASSUME content \in Seq(Bytes), NEW e \in Newlines, NEW m \in {0} \cup Newlines,
         m < e, \A i \in Newlines : i < e => i <= m
  PROVE  Ends(content) = Newlines /\ LineAt(content, e) = SubSeq(Text(content), m + 1, e)
<1> DEFINE S == {0} \cup {i \in Newlines : i < e}
<1>1. Ends(content) = Newlines
  BY DEF Ends, Newlines
<1>2. Len(content) \in Nat /\ Newlines \subseteq Nat
  BY LenProperties DEF Newlines
<1>3. S \in SUBSET Int /\ m \in S /\ \A i \in S : i <= m
  <2>1. m \in Nat /\ m \in S
    BY <1>2
  <2>2. ASSUME NEW i \in S PROVE i \in Nat /\ i <= m
    <3>1. i = 0 \/ (i \in Newlines /\ i < e)
      OBVIOUS
    <3> QED
      BY <1>2, <2>1, <3>1
  <2> HIDE DEF S
  <2> QED
    BY <2>1, <2>2
<1>4. Max(S) = m
  <2> HIDE DEF S
  <2> QED
    BY <1>3, MaxIs
<1>5. 1 + m = m + 1
  BY <1>2
<1> QED
  BY <1>1, <1>4, <1>5 DEF LineAt

\* Only LF is read as LF.
LEMMA OnlyLF == \A b \in Bytes : Utf8(b) = LF <=> b = "n"
<1>1. LF = <<"n">> /\ Len(LF) = 1 /\ LF[1] = "n"
  BY DEF LF, Utf8
<1>2. ASSUME NEW b \in Bytes, b \in {"h", "w"} PROVE Utf8(b) # LF
  <2>1. Utf8(b) = <<"lead", b>> /\ Len(<<"lead", b>>) = 2
    BY <1>2 DEF Utf8
  <2> QED
    BY <1>1, <2>1
<1>3. ASSUME NEW b \in Bytes, b \notin {"h", "w"} PROVE Utf8(b) = LF <=> b = "n"
  <2>1. Utf8(b) = <<b>> /\ <<b>>[1] = b
    BY <1>3 DEF Utf8
  <2> QED
    BY <1>1, <2>1
<1> QED
  BY <1>2, <1>3 DEF Bytes

\* The file as it is read, character by character.
LEMMA TextIs ==
  ASSUME content \in Seq(Bytes)
  PROVE  /\ Len(content) \in Nat
         /\ Text(content) \in Seq(Chars) /\ Len(Text(content)) = Len(content)
         /\ \A i \in 1 .. Len(content) :
              content[i] \in Bytes /\ Utf8(content[i]) \in Chars /\ Text(content)[i] = Utf8(content[i])
<1>1. Len(content) \in Nat /\ \A i \in 1 .. Len(content) : content[i] \in Bytes
  BY LenProperties, ElementOfSeq
<1>2. \A i \in 1 .. Len(content) : Utf8(content[i]) \in Chars
  BY <1>1 DEF Chars
<1>3. Text(content) \in [1 .. Len(content) -> Chars]
  BY <1>2 DEF Text
<1>4. Text(content) \in Seq(Chars) /\ Len(Text(content)) = Len(content)
  BY <1>1, <1>3
<1> QED
  BY <1>1, <1>2, <1>4 DEF Text

LEMMA CharacterAlone ==
  ASSUME content \in Seq(Bytes), NEW p \in 1 .. Len(content)
  PROVE  SubSeq(Text(content), p, p) = <<Utf8(content[p])>>
<1> DEFINE t == Text(content)
<1>1. Len(t) \in Nat /\ t \in Seq(Chars) /\ p \in 1 .. Len(t) /\ t[p] \in Chars /\ t[p] = Utf8(content[p])
  BY TextIs
<1> HIDE DEF t
<1>2. SubSeq(t, p + 1, p) = <<>>
  BY <1>1, SubSeqEmpty
<1>3. SubSeq(t, p, p) = <<t[p]>> \o SubSeq(t, p + 1, p)
  BY <1>1, SubSeqRecursiveFirst
<1>4. <<t[p]>> \in Seq(Chars)
  BY <1>1
<1>5. SubSeq(t, p, p) = <<t[p]>>
  BY <1>2, <1>3, <1>4, ConcatEmptySeq
<1> QED
  BY <1>1, <1>5 DEF t

\* What the code takes for the end of a line is the end of one: it looks at the
\* character and at what it has of the line behind it.
LEMMA EndsOfLines ==
  ASSUME content \in Seq(Bytes), NEW p \in 1 .. Len(content), ScanInv(p)
  PROVE  (content[p] \in Newline /\ (line # <<LF>> \/ content[p] = "n")) <=> NewlineAt(content, p)
<1>1. Len(content) \in Nat
  BY LenProperties
<1>0. \A i \in 1 .. Len(content) : Utf8(content[i]) = LF <=> content[i] = "n"
  BY TextIs, OnlyLF
<1>2. \A m \in Int : \A e \in 1 .. Len(content) : 1 <= m =>
        /\ Len(SubSeq(Text(content), m, e)) = IF m <= e THEN e - m + 1 ELSE 0
        /\ m <= e => SubSeq(Text(content), m, e)[1] = Utf8(content[m])
  <2> SUFFICES ASSUME NEW m \in Int, NEW e \in 1 .. Len(content), 1 <= m
               PROVE  /\ Len(SubSeq(Text(content), m, e)) = IF m <= e THEN e - m + 1 ELSE 0
                      /\ m <= e => SubSeq(Text(content), m, e)[1] = Utf8(content[m])
    OBVIOUS
  <2>1. PICK t : t = Text(content)
    OBVIOUS
  <2>2. t \in Seq(Chars) /\ Len(t) = Len(content) /\ \A i \in 1 .. Len(content) : t[i] = Utf8(content[i])
    BY <2>1, TextIs
  <2>3. /\ Len(SubSeq(t, m, e)) = IF m <= e THEN e - m + 1 ELSE 0
        /\ m <= e => SubSeq(t, m, e)[1] = t[m]
    BY <1>1, <2>2
  <2> QED
    BY <1>1, <2>1, <2>2, <2>3
<1>3. CASE first
  <2>1. line = SubSeq(Text(content), p + 1, Len(content)) /\ Found(p) = {}
    BY <1>3 DEF ScanInv
  <2>2. ~(p < Len(content) /\ content[p + 1] = "n")
    <3> SUFFICES ASSUME p < Len(content), content[p + 1] = "n" PROVE FALSE
      OBVIOUS
    <3>1. p + 1 \in Found(p)
      BY <1>1 DEF Found, Newlines, NewlineAt
    <3> QED
      BY <2>1, <3>1
  <2>3. ASSUME line = <<LF>> PROVE FALSE
    <3>1. Len(line) = 1 /\ line[1] = LF
      BY <2>3
    <3>2. p + 1 \in Int /\ 1 <= p + 1 /\ Len(content) \in 1 .. Len(content)
      BY <1>1
    <3>3. /\ Len(line) = IF p + 1 <= Len(content) THEN Len(content) - (p + 1) + 1 ELSE 0
          /\ p + 1 <= Len(content) => line[1] = Utf8(content[p + 1])
      BY <1>2, <2>1, <3>2
    <3>4. p + 1 <= Len(content)
      <4> SUFFICES ASSUME ~(p + 1 <= Len(content)) PROVE FALSE
        OBVIOUS
      <4>1. Len(line) = 0
        BY <3>3
      <4> QED
        BY <3>1, <4>1
    <3>5. Utf8(content[p + 1]) = LF /\ p + 1 \in 1 .. Len(content) /\ p < Len(content)
      BY <1>1, <3>1, <3>3, <3>4
    <3>6. content[p + 1] = "n"
      BY <1>0, <3>5
    <3> QED
      BY <2>2, <3>5, <3>6
  <2> QED
    BY <1>1, <2>2, <2>3 DEF NewlineAt, Newline
<1>4. CASE ~first
  <2>1. PICK e \in Found(p) : (\A i \in Found(p) : e <= i) /\ line = SubSeq(Text(content), p + 1, e)
    BY <1>4 DEF ScanInv
  <2>2. e \in 1 .. Len(content) /\ p + 1 <= e /\ p < Len(content)
    BY <1>1, <2>1 DEF Found, Newlines
  <2>3. ASSUME content[p + 1] = "n" PROVE line = <<LF>>
    <3>1. p + 1 \in Found(p)
      BY <1>1, <2>2, <2>3 DEF Found, Newlines, NewlineAt
    <3>2. e = p + 1
      BY <1>1, <2>1, <2>2, <3>1
    <3> QED
      BY <1>0, <2>1, <2>2, <2>3, <3>2, CharacterAlone
  <2>4. ASSUME line = <<LF>> PROVE content[p + 1] = "n"
    <3>1. Len(line) = 1 /\ line[1] = LF
      BY <2>4
    <3> QED
      BY <1>0, <1>1, <1>2, <2>1, <2>2, <3>1
  <2> QED
    BY <1>1, <2>2, <2>3, <2>4 DEF NewlineAt, Newline
<1> QED
  BY <1>3, <1>4

\* One more character that ends no line.
LEMMA InsideLine ==
  ASSUME content \in Seq(Bytes), NEW p \in 1 .. Len(content), ScanInv(p),
         ~NewlineAt(content, p),
         line' = <<Utf8(content[p])>> \o line, first' <=> first, UNCHANGED <<content, arg, lines>>
  PROVE  ScanInv(p - 1)'
<1>1. Len(content) \in Nat
  BY LenProperties
<1>2. Found(p - 1) = Found(p) /\ Complete(p - 1) = Complete(p)
  BY <1>1 DEF Found, Newlines, Complete
<1>3. /\ Found(p - 1)' = Found(p - 1) /\ Complete(p - 1)' = Complete(p - 1)
      /\ Listed(Complete(p - 1))' <=> Listed(Complete(p - 1))
  BY DEF Found, Newlines, Complete, Listed, Shown, removeCRLF
<1>4. \A e \in p .. Len(content) :
        <<Utf8(content[p])>> \o SubSeq(Text(content), p + 1, e) = SubSeq(Text(content), p, e)
  BY TextIs, SubSeqRecursiveFirst
<1>5. ASSUME first PROVE line' = SubSeq(Text(content), p, Len(content))
  <2>1. line = SubSeq(Text(content), p + 1, Len(content)) /\ Len(content) \in p .. Len(content)
    BY <1>1, <1>5 DEF ScanInv
  <2> QED
    BY <1>4, <2>1
<1>6. ASSUME ~first
      PROVE  \E e \in Found(p) : (\A i \in Found(p) : e <= i) /\ line' = SubSeq(Text(content), p, e)
  <2>1. PICK e \in Found(p) : (\A i \in Found(p) : e <= i) /\ line = SubSeq(Text(content), p + 1, e)
    BY <1>6 DEF ScanInv
  <2>2. e \in p .. Len(content)
    BY <1>1, <2>1 DEF Found, Newlines
  <2> QED
    BY <1>4, <2>1, <2>2
<1>7. p - 1 \in 0 .. Len(content) /\ (p - 1) + 1 = p
  BY <1>1
<1>8. /\ p \in 0 .. Len(content) /\ (first <=> Found(p) = {}) /\ Listed(Complete(p))
      /\ arg.nlines <= 0 \/ Len(lines) < arg.nlines
  BY DEF ScanInv
<1> HIDE DEF Found, Complete, Listed
<1> QED
  BY <1>2, <1>3, <1>5, <1>6, <1>7, <1>8 DEF ScanInv

\* At the end of a line the line behind it is complete, if there is one.
LEMMA LineEnds ==
  ASSUME content \in Seq(Bytes), NEW p \in 1 .. Len(content), ScanInv(p),
         NewlineAt(content, p)
  PROVE  /\ Found(p - 1) = Found(p) \cup {p} /\ \A i \in Found(p) : p <= i
         /\ first => Complete(p - 1) = Complete(p)
         /\ ~first => \E e \in Found(p) :
              /\ \A i \in Complete(p) : e < i
              /\ line = LineAt(content, e)
              /\ Complete(p - 1) = Complete(p) \cup (IF arg.skipEmpty /\ Blank(line) THEN {} ELSE {e})
<1>1. Len(content) \in Nat /\ p \in Newlines /\ \A i \in Newlines : i \in Int
  BY LenProperties DEF Newlines
<1>2. /\ Found(p - 1) = Found(p) \cup {p}
      /\ \A i \in Found(p) : i \in Int /\ i \in Newlines /\ p < i
  BY <1>1 DEF Found, Newlines
<1>3. ASSUME first PROVE Complete(p - 1) = Complete(p)
  <2>1. Found(p) = {} /\ Found(p - 1) = {p}
    BY <1>2, <1>3 DEF ScanInv
  <2>2. Complete(p) = {}
    BY <2>1 DEF Complete
  <2>3. \A x \in Complete(p - 1) : x = p /\ \E i \in {p} : i < x
    BY <2>1 DEF Complete
  <2> QED
    BY <2>2, <2>3
<1>4. ASSUME ~first
      PROVE  \E e \in Found(p) :
               /\ \A i \in Complete(p) : e < i
               /\ line = LineAt(content, e)
               /\ Complete(p - 1) = Complete(p) \cup (IF arg.skipEmpty /\ Blank(line) THEN {} ELSE {e})
  <2>1. PICK e \in Found(p) : (\A i \in Found(p) : e <= i) /\ line = SubSeq(Text(content), p + 1, e)
    BY <1>4 DEF ScanInv
  <2>2. Found(p) \subseteq Newlines /\ \A i \in Newlines : p < i => i \in Found(p)
    BY DEF Found
  <2>3. \A i \in Newlines : i < e => i <= p
    BY <1>1, <1>2, <2>1, <2>2
  <2>4. line = LineAt(content, e)
    BY <1>1, <1>2, <2>1, <2>2, <2>3, LineBehind
  <2>5. \A i \in Complete(p) : e < i
    BY <1>2, <2>1 DEF Complete
  <2>6. ASSUME NEW x \in Found(p) PROVE (\E i \in Found(p - 1) : i < x) /\ ((\E i \in Found(p) : i < x) <=> x # e)
    BY <1>1, <1>2, <2>1, <2>2
  <2>7. ~ \E i \in Found(p - 1) : i < p
    BY <1>1, <1>2, <2>2
  <2>8. \A x : x \in Complete(p - 1) <=>
               x \in Found(p) /\ ~(arg.skipEmpty /\ Blank(LineAt(content, x)))
    BY <1>2, <2>6, <2>7 DEF Complete
  <2>9. \A x : x \in Complete(p) <=>
               x \in Found(p) /\ x # e /\ ~(arg.skipEmpty /\ Blank(LineAt(content, x)))
    BY <2>6 DEF Complete
  <2>10. Complete(p - 1) = Complete(p) \cup (IF arg.skipEmpty /\ Blank(line) THEN {} ELSE {e})
    BY <2>1, <2>4, <2>8, <2>9
  <2> QED
    BY <2>1, <2>4, <2>5, <2>10
<1> QED
  BY <1>1, <1>2, <1>3, <1>4 DEF Found

\* A line begins in front of p, with the newline at p.
LEMMA LineBegins ==
  ASSUME content \in Seq(Bytes), NEW p \in 1 .. Len(content), ScanInv(p),
         NewlineAt(content, p), line' = <<Utf8(content[p])>>, ~first', UNCHANGED <<content, arg>>,
         Listed(Complete(p - 1))', arg.nlines <= 0 \/ Len(lines') < arg.nlines
  PROVE  ScanInv(p - 1)'
<1>1. Len(content) \in Nat /\ p \in Newlines
  BY LenProperties DEF Newlines
<1>2. Found(p - 1) = Found(p) \cup {p} /\ \A i \in Found(p) : p <= i
  BY LineEnds
<1>3. Found(p - 1)' = Found(p - 1)
  BY DEF Found, Newlines
<1>4. line' = SubSeq(Text(content), (p - 1) + 1, p) /\ p - 1 \in 0 .. Len(content)
  <2>1. (p - 1) + 1 = p /\ p - 1 \in 0 .. Len(content)
    BY <1>1
  <2>2. line' = SubSeq(Text(content), p, p)
    BY CharacterAlone
  <2> QED
    BY <2>1, <2>2
<1>5. p \in Found(p - 1) /\ \A i \in Found(p - 1) : p <= i
  BY <1>2
<1> QED
  BY <1>3, <1>4, <1>5 DEF ScanInv

\* The step that completes no line.
LEMMA NothingComplete ==
  ASSUME content \in Seq(Bytes), NEW p \in 1 .. Len(content), ScanInv(p),
         NewlineAt(content, p), first \/ (arg.skipEmpty /\ Blank(line)),
         line' = <<Utf8(content[p])>>, ~first', UNCHANGED <<content, arg, lines>>
  PROVE  ScanInv(p - 1)'
<1>1. Complete(p - 1) = Complete(p)
  BY LineEnds
<1>2. Listed(Complete(p)) /\ (arg.nlines <= 0 \/ Len(lines) < arg.nlines)
  BY DEF ScanInv
<1>3. Listed(Complete(p - 1))' <=> Listed(Complete(p - 1))
  BY DEF Found, Newlines, Complete, Listed, Shown, removeCRLF
<1> QED
  BY <1>1, <1>2, <1>3, LineBegins

\* The step that completes the line behind p, and may be the last.
LEMMA OneComplete ==
  ASSUME content \in Seq(Bytes), NEW p \in 1 .. Len(content), ScanInv(p),
         NewlineAt(content, p), ~first, ~(arg.skipEmpty /\ Blank(line)),
         lines' = <<removeCRLF(line)>> \o lines, UNCHANGED <<content, arg>>
  PROVE  /\ Listed(Complete(p - 1))' /\ Len(lines') = Len(lines) + 1
         /\ Complete(p - 1)' = Complete(p - 1)
<1>1. PICK e \in Found(p) :
        /\ \A i \in Complete(p) : e < i
        /\ line = LineAt(content, e)
        /\ Complete(p - 1) = Complete(p) \cup {e}
  BY LineEnds
<1>2. Complete(p) \in SUBSET Nat /\ IsFiniteSet(Complete(p)) /\ e \in Nat
  BY FoundIsFinite
<1>3. lines' = <<Shown(e)>> \o lines /\ \A i : Shown(i)' = Shown(i)
  BY <1>1 DEF Shown, removeCRLF
<1>4. PICK E : E = Complete(p)
  OBVIOUS
<1>5. Listed(E)
  BY <1>4 DEF ScanInv
<1>6. E \in SUBSET Nat /\ IsFiniteSet(E) /\ \A i \in E : e < i
  BY <1>1, <1>2, <1>4
<1>7. Listed(E \cup {e})' /\ Len(lines') = Len(lines) + 1
  BY <1>2, <1>3, <1>5, <1>6, InFront
<1>8. Complete(p - 1)' = E \cup {e} /\ Complete(p - 1)' = Complete(p - 1)
  BY <1>1, <1>4 DEF Complete, Found, Newlines
<1>9. Listed(Complete(p - 1))'
  BY <1>7, <1>8 DEF Listed
<1> QED
  BY <1>7, <1>8, <1>9

\* With enough lines complete, these are the ones to be returned.
LEMMA EnoughLines ==
  ASSUME content \in Seq(Bytes), arg \in Args, NEW p \in Nat,
         Cardinality(Complete(p)) = arg.nlines, Complete(p) # {}
  PROVE  LastKept(content) = Complete(p)
<1> DEFINE C == Complete(p)
           K == Kept(content)
           From(e) == {i \in K : i >= e}
<1>1. Len(content) \in Nat /\ arg.nlines \in Int
  BY LenProperties, LastLinesAssumption DEF Args
<1>2. C \subseteq Found(p) /\ IsFiniteSet(C) /\ Found(p) \subseteq Newlines
  BY FoundIsFinite DEF Found
<1>3. Ends(content) = Newlines /\ \A i \in Newlines : i \in Int
  BY <1>1, <1>2 DEF Ends, Newlines
<1>4. C \subseteq K
  BY <1>2, <1>3 DEF Complete, Kept
<1>5. K \subseteq Newlines /\ IsFiniteSet(K)
  <2>1. IsFiniteSet(1 .. Len(content))
    BY <1>1, FS_Interval
  <2> QED
    BY <1>3, <2>1, FS_Subset DEF Kept, Newlines
<1>6. Cardinality(C) = arg.nlines /\ arg.nlines > 0
  BY <1>1, <1>2, FS_CardinalityType, FS_EmptySet
<1>7. ASSUME NEW e \in K, e \notin C, NEW c \in C PROVE e < c
  <2>1. PICK i \in Found(p) : i < c
    BY DEF Complete
  <2>2. c \in Found(p) /\ e \in Newlines
    BY <1>2, <1>5
  <2>3. e \notin Found(p) \/ \A j \in Found(p) : e <= j
    BY <1>3, <1>7 DEF Kept, Complete, Found
  <2>4. e <= i
    BY <1>1, <1>2, <1>3, <2>1, <2>2, <2>3 DEF Found
  <2> QED
    BY <1>2, <1>3, <2>1, <2>2, <2>4
<1>8. ASSUME NEW e \in C PROVE Cardinality(From(e)) <= arg.nlines
  <2>1. \A i \in K : i >= e => i \in C
    BY <1>2, <1>3, <1>5, <1>7
  <2>2. From(e) \subseteq C
    BY <2>1
  <2> QED
    <3> HIDE DEF From, C
    <3> QED
      BY <1>2, <1>6, <2>2, FS_Subset
<1>9. ASSUME NEW e \in K, e \notin C PROVE ~ Cardinality(From(e)) <= arg.nlines
  <2>1. \A c \in C : c \in From(e)
    BY <1>2, <1>3, <1>4, <1>5, <1>7, <1>9
  <2>2. C \cup {e} \subseteq From(e) /\ IsFiniteSet(From(e))
    <3>1. e \in From(e)
      BY <1>3, <1>5
    <3> QED
      BY <1>5, <2>1, <3>1, FS_Subset
  <2>3. /\ Cardinality(C \cup {e}) = Cardinality(C) + 1 /\ Cardinality(C \cup {e}) <= Cardinality(From(e))
        /\ Cardinality(From(e)) \in Nat
    <3> HIDE DEF From, C
    <3> QED
      BY <1>2, <1>9, <2>2, FS_AddElement, FS_Subset, FS_CardinalityType
  <2> QED
    <3> HIDE DEF From, C
    <3> QED
      BY <1>1, <1>6, <2>3
<1>10. \A e \in K : (arg.nlines <= 0 \/ Cardinality(From(e)) <= arg.nlines) <=> e \in C
  <2> HIDE DEF From, C, K
  <2> QED
    BY <1>1, <1>6, <1>8, <1>9
<1> QED
  BY <1>4, <1>10 DEF LastKept

\* What one step of the scan does, at the place p of the file.
LEMMA CharacterAt ==
  ASSUME TailInv, ~grown, Character
  PROVE  \E p \in 1 .. Len(content) :
           /\ p = offset + left /\ ScanInv(p)
           /\ NewlineAt(content, p) /\ ~first /\ ~(arg.skipEmpty /\ Blank(line)) =>
                lines' = <<removeCRLF(line)>> \o lines
           /\ ~(NewlineAt(content, p) /\ ~first /\ ~(arg.skipEmpty /\ Blank(line))) =>
                lines' = lines
           /\ \/ /\ NewlineAt(content, p) /\ ~first /\ ~(arg.skipEmpty /\ Blank(line))
                 /\ Len(lines') = arg.nlines
                 /\ at' = "done"
              \/ /\ ~(/\ NewlineAt(content, p) /\ ~first /\ ~(arg.skipEmpty /\ Blank(line))
                      /\ Len(lines') = arg.nlines)
                 /\ at' = "scan" /\ left' = left - 1
                 /\ NewlineAt(content, p) => line' = <<Utf8(content[p])>> /\ ~first'
                 /\ ~NewlineAt(content, p) => line' = <<Utf8(content[p])>> \o line /\ (first' <=> first)
<1>1. content \in Seq(Bytes) /\ Len(content) \in Nat /\ at = "scan" /\ left > 0 /\ PlaceInv
  BY LenProperties DEF TailInv, Character
<1>2. /\ offset \in Nat /\ buffer \in Nat /\ left \in 1 .. buffer /\ offset + buffer <= Len(content)
      /\ block = SubSeq(content, offset + 1, offset + buffer)
      /\ ScanInv(offset + left)
  BY <1>1 DEF PlaceInv, BlockInv
<1>3. PICK p \in 1 .. Len(content) : p = offset + left
  BY <1>1, <1>2
<1>4. block[left] = content[p]
  <2>1. block[left] = content[(offset + 1) + left - 1]
    BY <1>1, <1>2, ElementOfSeq, SubSeqProperties
  <2> QED
    BY <1>2, <1>3, <2>1
<1>5. (content[p] \in Newline /\ (line # <<LF>> \/ content[p] = "n")) <=> NewlineAt(content, p)
  BY <1>1, <1>2, <1>3, EndsOfLines
<1>6. CASE NewlineAt(content, p) /\ ~first /\ ~(arg.skipEmpty /\ Blank(line)) /\ Len(lines') = arg.nlines
  BY <1>2, <1>3, <1>4, <1>5, <1>6 DEF Character
<1>7. CASE ~(NewlineAt(content, p) /\ ~first /\ ~(arg.skipEmpty /\ Blank(line)) /\ Len(lines') = arg.nlines)
  BY <1>1, <1>2, <1>3, <1>4, <1>5, <1>7 DEF Character
<1> QED
  BY <1>6, <1>7

LEMMA CharacterOK == TailInv /\ ~grown /\ Character => TailInv'
<1> SUFFICES ASSUME TailInv, ~grown, Character PROVE TailInv'
  OBVIOUS
<1> DEFINE Full(p) == NewlineAt(content, p) /\ ~first /\ ~(arg.skipEmpty /\ Blank(line))
<1>1. /\ content \in Seq(Bytes) /\ Len(content) \in Nat /\ arg \in Args /\ arg.nlines \in Int
      /\ at = "scan" /\ left > 0 /\ PlaceInv
      /\ UNCHANGED <<content, arg, grown, statSize, cursor, offset, buffer, block>>
  <2>1. content \in Seq(Bytes) /\ arg \in Args /\ at = "scan" /\ left > 0 /\ PlaceInv
    BY DEF TailInv, Character
  <2> QED
    BY <2>1, LenProperties, LastLinesAssumption DEF Character, Args, fileVars, placeVars
<1>2. PICK p \in 1 .. Len(content) :
        /\ p = offset + left /\ ScanInv(p)
        /\ Full(p) => lines' = <<removeCRLF(line)>> \o lines
        /\ ~Full(p) => lines' = lines
        /\ \/ /\ Full(p) /\ Len(lines') = arg.nlines
              /\ at' = "done"
           \/ /\ ~(Full(p) /\ Len(lines') = arg.nlines)
              /\ at' = "scan" /\ left' = left - 1
              /\ NewlineAt(content, p) => line' = <<Utf8(content[p])>> /\ ~first'
              /\ ~NewlineAt(content, p) => line' = <<Utf8(content[p])>> \o line /\ (first' <=> first)
  BY CharacterAt
<1>3. /\ offset \in Nat /\ buffer \in Nat /\ left \in 1 .. buffer
      /\ p - 1 = offset + (left - 1) /\ p - 1 \in Nat
  <2>1. offset \in Nat /\ buffer \in Nat /\ left \in 0 .. buffer
    BY <1>1 DEF PlaceInv, BlockInv
  <2> QED
    BY <1>1, <1>2, <2>1
<1> DEFINE C == Complete(p - 1)
<1>4. Len(lines) \in Nat
  <2>1. Listed(Complete(p)) /\ IsFiniteSet(Complete(p))
    BY <1>1, <1>2, FoundIsFinite DEF ScanInv
  <2> QED
    BY <2>1, FS_CardinalityType DEF Listed
<1>5. ASSUME Full(p)
      PROVE  /\ Listed(Complete(p - 1))' /\ Len(lines') = Len(lines) + 1
             /\ Complete(p - 1)' = Complete(p - 1)
  BY <1>1, <1>2, <1>5, OneComplete
<1>6. CASE Full(p) /\ Len(lines') = arg.nlines
  <2>1. at' = "done"
    BY <1>2, <1>6
  <2>2. Cardinality(C) = arg.nlines /\ C # {}
    <3>1. Cardinality(C) = Len(lines') /\ Len(lines') = Len(lines) + 1
      BY <1>5, <1>6 DEF Listed
    <3> HIDE DEF C
    <3>2. Cardinality(C) # 0
      BY <1>4, <3>1
    <3> QED
      BY <1>6, <3>1, <3>2, FS_EmptySet
  <2>3. LastKept(content) = Complete(p - 1)
    BY <1>1, <1>3, <2>2, EnoughLines
  <2>4. LastKept(content)' = LastKept(content)
    BY <1>1 DEF LastKept, Kept
  <2>5. ReturnsLastLines'
    BY <1>5, <1>6, <2>3, <2>4 DEF ReturnsLastLines, Listed, Shown
  <2>6. PlaceInv'
    BY <1>1, <2>1 DEF PlaceInv
  <2> QED
    BY <1>1, <2>1, <2>5, <2>6 DEF TailInv
<1>7. CASE ~(Full(p) /\ Len(lines') = arg.nlines)
  <2>1. /\ at' = "scan" /\ left' = left - 1
        /\ NewlineAt(content, p) => line' = <<Utf8(content[p])>> /\ ~first'
        /\ ~NewlineAt(content, p) => line' = <<Utf8(content[p])>> \o line /\ (first' <=> first)
    BY <1>2, <1>7
  <2>2. ScanInv(p - 1)'
    <3>1. CASE ~NewlineAt(content, p)
      BY <1>1, <1>2, <2>1, <3>1, InsideLine
    <3>2. CASE NewlineAt(content, p) /\ ~Full(p)
      BY <1>1, <1>2, <2>1, <3>2, NothingComplete
    <3>3. CASE Full(p)
      <4>1. arg.nlines <= 0 \/ Len(lines') < arg.nlines
        BY <1>1, <1>2, <1>4, <1>5, <1>7, <3>3 DEF ScanInv
      <4> QED
        BY <1>1, <1>2, <1>5, <2>1, <3>3, <4>1, LineBegins
    <3> QED
      BY <3>1, <3>2, <3>3
  <2>3. left' \in 0 .. buffer' /\ offset' + left' = p - 1
    BY <1>1, <1>3, <2>1
  <2>4. PlaceInv'
    BY <1>1, <2>1, <2>2, <2>3 DEF PlaceInv, BlockInv
  <2> QED
    BY <1>1, <2>1, <2>4 DEF TailInv, ReturnsLastLines
<1> QED
  BY <1>6, <1>7

LEMMA ScanKept ==
  ASSUME NEW p, ScanInv(p), UNCHANGED <<content, arg, lines, line, first>>
  PROVE  ScanInv(p)'
<1>1. Found(p)' = Found(p) /\ Complete(p)' = Complete(p)
  BY DEF Found, Newlines, Complete
<1>2. \A e : Shown(e)' = Shown(e)
  BY DEF Shown, removeCRLF
<1>3. Listed(Complete(p))'
  BY <1>1, <1>2 DEF ScanInv, Listed
<1> QED
  BY <1>1, <1>3 DEF ScanInv

LEMMA BlockLength ==
  ASSUME content \in Seq(Bytes), NEW o \in Nat, NEW b \in Nat, o + b <= Len(content)
  PROVE  Len(SubSeq(content, o + 1, o + b)) = b
<1>1. Len(content) \in Nat
  BY LenProperties
<1>2. \A i \in o + 1 .. o + b : content[i] \in Bytes
  BY <1>1, ElementOfSeq
<1>3. Len(SubSeq(content, o + 1, o + b)) = IF o + 1 <= o + b THEN (o + b) - (o + 1) + 1 ELSE 0
  BY <1>2, SubSeqProperties
<1> QED
  BY <1>3

LEMMA StatOK == TailInv /\ ~grown /\ Stat => TailInv'
<1> SUFFICES ASSUME TailInv, ~grown, Stat PROVE TailInv'
  OBVIOUS
<1>1. /\ content \in Seq(Bytes) /\ Len(content) \in Nat /\ arg \in Args
      /\ at = "stat" /\ PlaceInv
  BY LenProperties DEF TailInv, Stat
<1>2. UNCHANGED <<content, arg, grown, lines, line, first>> /\ arg.nlines \in Int
  BY <1>1, LastLinesAssumption DEF Stat, Args, fileVars, scanVars
<1>3. PICK n \in Nat : n = Len(content)
  BY <1>1
<1>4. /\ at' = "seek" /\ statSize' = n /\ buffer' = Shortest(BlockSize, n) /\ cursor' = -buffer'
      /\ buffer' \in 0 .. n
  BY <1>3, LastLinesAssumption DEF Stat, Shortest
<1>5. /\ Len(content)' + cursor' + buffer' = n /\ Len(content)' + cursor' \in Nat
      /\ Len(content)' + cursor' + buffer' <= n /\ Len(content)' = n /\ cursor' \in Int
  BY <1>2, <1>3, <1>4
<1>6. ScanInv(n)
  <2>1. lines = <<>> /\ line = <<>> /\ first
    BY <1>1 DEF PlaceInv
  <2>2. Found(n) = {} /\ Complete(n) = {}
    BY <1>3 DEF Found, Complete, Newlines
  <2>3. line = SubSeq(Text(content), n + 1, n)
    BY <2>1, SubSeqEmpty
  <2>4. Listed({})
    <3>1. Len(lines) = 0 /\ lines \in Seq({Shown(e) : e \in {}})
      BY <2>1, EmptySeq
    <3> QED
      BY <3>1, FS_EmptySet DEF Listed
  <2>5. arg.nlines <= 0 \/ Len(lines) < arg.nlines
    BY <1>2, <2>1
  <2> QED
    BY <1>3, <2>1, <2>2, <2>3, <2>4, <2>5 DEF ScanInv
<1>7. ScanInv(n)'
  BY <1>2, <1>6, ScanKept
<1>8. BlockInv(Len(content) + cursor)'
  BY <1>4, <1>5 DEF BlockInv
<1>9. PlaceInv'
  BY <1>4, <1>5, <1>7, <1>8 DEF PlaceInv
<1> QED
  BY <1>1, <1>2, <1>4, <1>9 DEF TailInv, ReturnsLastLines

LEMMA SeekOK == TailInv /\ ~grown /\ Seek => TailInv'
<1> SUFFICES ASSUME TailInv, ~grown, Seek PROVE TailInv'
  OBVIOUS
<1>1. /\ content \in Seq(Bytes) /\ arg \in Args /\ at = "seek" /\ PlaceInv
      /\ at' = "read" /\ offset' = Len(content) + cursor
      /\ UNCHANGED <<content, arg, grown, statSize, cursor, buffer, lines, line, first>>
  BY DEF TailInv, Seek, fileVars, scanVars
<1>2. PICK p : p = Len(content) + cursor + buffer /\ ScanInv(p)
  BY <1>1 DEF PlaceInv
<1>3. ScanInv(p)'
  BY <1>1, <1>2, ScanKept
<1>4. BlockInv(offset)'
  BY <1>1 DEF PlaceInv, BlockInv
<1>5. (offset = Len(content) + cursor)' /\ (offset + buffer)' = p
  BY <1>1, <1>2
<1>6. PlaceInv'
  BY <1>1, <1>3, <1>4, <1>5 DEF PlaceInv
<1> QED
  BY <1>1, <1>6 DEF TailInv, ReturnsLastLines

LEMMA ReadOK == TailInv /\ ~grown /\ Read => TailInv'
<1> SUFFICES ASSUME TailInv, ~grown, Read PROVE TailInv'
  OBVIOUS
<1>1. /\ content \in Seq(Bytes) /\ arg \in Args /\ at = "read" /\ PlaceInv
      /\ at' = "scan" /\ left' = Len(block')
      /\ block' = SubSeq(content, offset + 1, Shortest(offset + buffer, Len(content)))
      /\ UNCHANGED <<content, arg, grown, statSize, cursor, offset, buffer, lines, line, first>>
  BY DEF TailInv, Read, fileVars, placeVars, scanVars
<1>2. /\ offset \in Nat /\ buffer \in Nat /\ offset + buffer <= Len(content)
      /\ Len(content) \in Nat
  BY <1>1, LenProperties DEF PlaceInv, BlockInv
<1>3. PICK p : p = offset + buffer /\ ScanInv(p)
  BY <1>1 DEF PlaceInv
<1>4. block' = SubSeq(content, offset + 1, offset + buffer)
  BY <1>1, <1>2 DEF Shortest
<1>5. left' = buffer
  <2>1. Len(SubSeq(content, offset + 1, offset + buffer)) = buffer
    BY <1>1, <1>2, BlockLength
  <2> QED
    BY <1>1, <1>4, <2>1
<1>6. ScanInv(p)'
  BY <1>1, <1>3, ScanKept
<1>7. BlockInv(offset)'
  BY <1>1 DEF PlaceInv, BlockInv
<1>8. /\ block' = SubSeq(content', offset' + 1, offset' + buffer') /\ left' \in 0 .. buffer'
      /\ offset' + left' = p
  <2>1. left' \in 0 .. buffer' /\ offset' + left' = p
    <3>1. buffer' = buffer /\ offset' = offset
      BY <1>1
    <3> QED
      BY <1>2, <1>3, <1>5, <3>1
  <2>2. block' = SubSeq(content', offset' + 1, offset' + buffer')
    BY <1>1, <1>4
  <2> QED
    BY <2>1, <2>2
<1>9. PlaceInv'
  BY <1>1, <1>6, <1>7, <1>8 DEF PlaceInv
<1> QED
  BY <1>1, <1>9 DEF TailInv, ReturnsLastLines

\* The start of the file is reached: with the line at hand all are complete.
LEMMA StartOfFile ==
  ASSUME content \in Seq(Bytes), arg \in Args, ScanInv(0),
         lines' = IF line = <<>> THEN lines ELSE <<removeCRLF(line)>> \o lines,
         UNCHANGED <<content, arg>>
  PROVE  Listed(LastKept(content))'
<1> DEFINE K == Kept(content)
           C == Complete(0)
<1>1. Len(content) \in Nat /\ arg.nlines \in Int
  BY LenProperties, LastLinesAssumption DEF Args
<1>2. /\ Found(0) = Newlines /\ Newlines \subseteq 1 .. Len(content) /\ \A i \in Newlines : i \in Nat
      /\ C \subseteq Newlines /\ IsFiniteSet(C)
  <2>1. Found(0) = Newlines /\ \A i \in Newlines : i \in Nat
    BY <1>1 DEF Found, Newlines
  <2>2. Found(0) \subseteq 1 .. Len(content) /\ C \subseteq Found(0) /\ IsFiniteSet(C)
    BY FoundIsFinite
  <2> QED
    BY <2>1, <2>2
<1>3. Listed(C) /\ (arg.nlines <= 0 \/ Len(lines) < arg.nlines)
  BY DEF ScanInv
<1>4. \A e : Shown(e)' = Shown(e)
  BY DEF Shown, removeCRLF
<1>5. LastKept(content)' = LastKept(content)
  BY DEF LastKept, Kept
<1>6. ASSUME NEW E, IsFiniteSet(E), K = E, arg.nlines <= 0 \/ Cardinality(E) <= arg.nlines
      PROVE  LastKept(content) = E
  <2>1. ASSUME NEW e \in E PROVE arg.nlines <= 0 \/ Cardinality({i \in E : i >= e}) <= arg.nlines
    <3> DEFINE D == {i \in E : i >= e}
    <3>1. D \subseteq E
      OBVIOUS
    <3> HIDE DEF D
    <3>2. Cardinality(D) <= Cardinality(E) /\ Cardinality(D) \in Nat /\ Cardinality(E) \in Nat
      BY <1>6, <3>1, FS_Subset, FS_CardinalityType
    <3>3. arg.nlines <= 0 \/ Cardinality(D) <= arg.nlines
      BY <1>1, <1>6, <3>2
    <3> QED
      BY <3>3 DEF D
  <2> QED
    BY <1>6, <2>1 DEF LastKept
<1>7. ASSUME NEW e \in Nat, e \notin C, K = C \cup {e}, \A i \in C : e < i,
             line = LineAt(content, e), line # <<>>
      PROVE  Listed(LastKept(content))'
  <2>1. PICK E : E = C
    OBVIOUS
  <2>2. E \in SUBSET Nat /\ IsFiniteSet(E) /\ Listed(E)
    BY <1>2, <1>3, <2>1
  <2>3. lines' = <<Shown(e)>> \o lines
    BY <1>7 DEF Shown
  <2>4. Listed(E \cup {e})'
    BY <1>4, <1>7, <2>1, <2>2, <2>3, InFront
  <2>5. /\ IsFiniteSet(E \cup {e}) /\ Cardinality(E \cup {e}) = Cardinality(E) + 1
        /\ Cardinality(E) \in Nat /\ Len(lines) = Cardinality(E)
    BY <1>7, <2>1, <2>2, FS_AddElement, FS_CardinalityType DEF Listed
  <2>6. arg.nlines <= 0 \/ Cardinality(E \cup {e}) <= arg.nlines
    BY <1>1, <1>3, <2>5
  <2>7. LastKept(content) = E \cup {e}
    BY <1>6, <1>7, <2>1, <2>5, <2>6
  <2> QED
    BY <1>5, <2>4, <2>7 DEF Listed
<1>8. CASE Found(0) = {}
  <2>1. line = SubSeq(Text(content), 1, Len(content)) /\ C = {} /\ Newlines = {}
    BY <1>2, <1>8 DEF ScanInv
  <2>2. line = Text(content) /\ Len(line) = Len(content)
    BY <2>1, TextIs, SubSeqFull
  <2>3. CASE content = <<>>
    <3>1. K = {}
      BY <2>1, <2>3 DEF Kept, Ends, Newlines
    <3>2. line = <<>>
      BY <2>2, <2>3 DEF Text
    <3>3. lines' = lines /\ LastKept(content) = C
      BY <2>1, <3>1, <3>2 DEF LastKept
    <3> QED
      BY <1>3, <1>4, <1>5, <3>3 DEF Listed
  <2>4. CASE content # <<>>
    <3> DEFINE n == Len(content)
    <3>1. Ends(content) = {n} /\ n >= 1
      BY <2>1, <2>4, EmptySeq DEF Ends, Newlines
    <3>2. LineAt(content, n) = Text(content)
      <4> DEFINE S == {0} \cup {i \in Ends(content) : i < n}
      <4>1. S = {0}
        BY <1>1, <3>1
      <4>2. Max(S) = 0
        <5> HIDE DEF S
        <5>1. S \in SUBSET Int /\ 0 \in S /\ \A i \in S : i <= 0
          BY <4>1
        <5> QED
          BY <5>1, MaxIs
      <4>3. LineAt(content, n) = SubSeq(Text(content), 1 + Max(S), n)
        BY DEF LineAt
      <4> HIDE DEF S
      <4>4. 1 + Max(S) = 1
        BY <4>2
      <4> QED
        BY <4>3, <4>4, TextIs, SubSeqFull
    <3>3. K = {n}
      BY <1>1, <3>1 DEF Kept
    <3> QED
      <4>1. line # <<>>
        BY <2>2, <3>1, EmptySeq
      <4> QED
        BY <1>1, <1>7, <2>1, <2>2, <3>2, <3>3, <4>1
  <2> QED
    BY <2>3, <2>4
<1>9. CASE Found(0) # {}
  <2>1. ~first
    BY <1>9 DEF ScanInv
  <2>2. PICK e \in Newlines : (\A i \in Newlines : e <= i) /\ line = SubSeq(Text(content), 0 + 1, e)
    BY <1>2, <2>1 DEF ScanInv
  <2>3. Ends(content) = Newlines /\ line = LineAt(content, e)
    <3>1. 0 < e /\ \A i \in Newlines : i < e => i <= 0
      BY <1>2, <2>2
    <3> QED
      BY <2>2, <3>1, LineBehind
  <2>4. line # <<>>
    <3>1. e \in 1 .. Len(content)
      BY <1>2
    <3>2. Len(line) = e
      <4>1. PICK t : t = Text(content)
        OBVIOUS
      <4>2. t \in Seq(Chars) /\ Len(t) = Len(content)
        BY <4>1, TextIs
      <4> QED
        BY <1>1, <2>2, <3>1, <4>1, <4>2
    <3> QED
      BY <3>1, <3>2, EmptySeq
  <2>5. ASSUME NEW x \in Newlines
        PROVE  /\ (\E i \in Newlines : i < x) <=> x # e
               /\ (\A i \in Newlines : x <= i) <=> x = e
               /\ x # e => e < x
    BY <1>2, <2>2
  <2>6. \A x : x \in C <=> x \in Newlines /\ x # e /\ ~(arg.skipEmpty /\ Blank(LineAt(content, x)))
    BY <1>2, <2>5 DEF Complete
  <2>7. \A x : x \in K <=> x \in Newlines /\ (~(arg.skipEmpty /\ Blank(LineAt(content, x))) \/ x = e)
    BY <2>3, <2>5 DEF Kept
  <2>8. K = C \cup {e} /\ e \notin C /\ \A i \in C : e < i
    <3> HIDE DEF K, C
    <3> QED
      BY <2>5, <2>6, <2>7
  <2> QED
    BY <1>2, <1>7, <2>3, <2>4, <2>8
<1> QED
  BY <1>8, <1>9

LEMMA EndOfBlockOK == TailInv /\ ~grown /\ EndOfBlock => TailInv'
<1> SUFFICES ASSUME TailInv, ~grown, EndOfBlock PROVE TailInv'
  OBVIOUS
<1>1. /\ content \in Seq(Bytes) /\ arg \in Args /\ at = "scan" /\ left = 0 /\ PlaceInv
      /\ UNCHANGED <<content, arg, grown, statSize, offset, block, left, line, first>>
  BY DEF TailInv, EndOfBlock, fileVars
<1>2. /\ Len(content) \in Nat /\ cursor \in Int /\ offset \in Nat /\ buffer \in Nat
      /\ offset + buffer <= Len(content) /\ offset = Len(content) + cursor
      /\ offset > 0 => buffer = Shortest(BlockSize, Len(content))
      /\ statSize = Len(content) /\ block = SubSeq(content, offset + 1, offset + buffer)
  BY <1>1, LenProperties DEF PlaceInv, BlockInv
<1>3. ScanInv(offset)
  <2>1. ScanInv(offset + left)
    BY <1>1 DEF PlaceInv
  <2>2. offset + left = offset
    BY <1>1, <1>2
  <2> QED
    BY <2>1, <2>2
<1>4. CASE offset = 0
  <2>1. at' = "done" /\ cursor' = cursor
        /\ lines' = IF line = <<>> THEN lines ELSE <<removeCRLF(line)>> \o lines
    BY <1>4 DEF EndOfBlock
  <2>2. Listed(LastKept(content))'
    BY <1>1, <1>3, <1>4, <2>1, StartOfFile
  <2>3. ReturnsLastLines'
    BY <2>2 DEF ReturnsLastLines, Listed, Shown
  <2>4. PlaceInv'
    BY <1>1, <1>2, <2>1 DEF PlaceInv
  <2> QED
    BY <1>1, <2>1, <2>3, <2>4 DEF TailInv
<1>5. CASE offset # 0
  <2>1. at' = "seek" /\ lines' = lines
        /\ cursor' = Before(Len(block)).cursor /\ buffer' = Before(Len(block)).buffer
    BY <1>5 DEF EndOfBlock
  <2>2. Len(block) = buffer
    BY <1>1, <1>2, BlockLength
  <2>3. PICK b \in Nat : b = Shortest(BlockSize, Len(content)) /\ buffer = b
    BY <1>2, <1>5
  <2>4. /\ cursor' = IF offset > b THEN cursor - b ELSE cursor - offset
        /\ buffer' = IF offset > b THEN b ELSE offset
    BY <1>2, <2>1, <2>2, <2>3 DEF Before
  <2>5. /\ cursor' \in Int /\ buffer' \in Nat /\ Len(content) + cursor' \in Nat
        /\ Len(content) + cursor' + buffer' = offset
        /\ Len(content) + cursor' > 0 => buffer' = b
    <3>1. CASE offset > b
      <4>1. cursor' = cursor - b /\ buffer' = b
        BY <2>4, <3>1
      <4>2. b \in Nat /\ Len(content) \in Nat /\ cursor \in Int /\ offset \in Nat /\ offset = Len(content) + cursor
        BY <1>2, <2>3
      <4>3. Len(content) + cursor' = offset - b /\ offset - b \in Nat /\ cursor' \in Int
        BY <3>1, <4>1, <4>2
      <4> QED
        BY <4>1, <4>2, <4>3
    <3>2. CASE ~ offset > b
      <4>1. cursor' = cursor - offset /\ buffer' = offset
        BY <2>4, <3>2
      <4> QED
        BY <1>2, <2>3, <3>2, <4>1
    <3> QED
      BY <3>1, <3>2
  <2>6. PICK p : p = offset
    OBVIOUS
  <2>7. ScanInv(p)'
    BY <1>1, <1>3, <2>1, <2>6, ScanKept
  <2>8. BlockInv(Len(content) + cursor)'
    <3>1. content' = content /\ Len(content) + cursor' + buffer' <= Len(content)
      BY <1>1, <1>2, <2>5
    <3> QED
      BY <2>3, <2>5, <3>1 DEF BlockInv
  <2>9. PlaceInv'
    BY <1>1, <1>2, <2>1, <2>5, <2>6, <2>7, <2>8 DEF PlaceInv
  <2> QED
    BY <1>1, <2>1, <2>9 DEF TailInv, ReturnsLastLines
<1> QED
  BY <1>4, <1>5

\* Once the file has grown nothing is claimed.
LEMMA GrownOK == TailInv /\ grown /\ [TailNext]_tailVars => TailInv'
<1> SUFFICES ASSUME TailInv, grown, [TailNext]_tailVars PROVE TailInv'
  OBVIOUS
<1>1. content \in Seq(Bytes) /\ arg \in Args /\ at \in {"stat", "seek", "read", "scan", "done"}
  BY DEF TailInv
<1>2. arg' = arg /\ grown' /\ at' \in {"stat", "seek", "read", "scan", "done"}
  BY <1>1 DEF TailNext, Reader, Stat, Seek, Read, Character, EndOfBlock, Write, tailVars, fileVars
<1>3. content' = content \/ \E c \in Appended : content' = Append(content, c)
  BY DEF TailNext, Reader, Stat, Seek, Read, Character, EndOfBlock, Write, tailVars, fileVars
<1>4. content' \in Seq(Bytes)
  BY <1>1, <1>3, LastLinesAssumption
<1> QED
  BY <1>1, <1>2, <1>4 DEF TailInv

LEMMA WriteKeeps == ASSUME TailInv, ~grown, NEW c \in Appended, Write(c) PROVE TailInv'
<1>1. /\ content \in Seq(Bytes) /\ arg \in Args /\ at \in {"stat", "seek", "read", "scan"} /\ PlaceInv
      /\ content' = Append(content, c) /\ (grown' <=> grown \/ at # "stat")
      /\ UNCHANGED <<arg, at, statSize, cursor, lines, line, first>>
  BY DEF TailInv, Write, placeVars, scanVars
<1>2. content' \in Seq(Bytes)
  BY <1>1, LastLinesAssumption
<1>3. at = "stat" => PlaceInv'
  BY <1>1 DEF PlaceInv
<1> QED
  BY <1>1, <1>2, <1>3 DEF TailInv, ReturnsLastLines

LEMMA TailInitOK == TailInit => TailInv
  BY LastLinesAssumption DEF TailInit, TailInv, PlaceInv, ReturnsLastLines

LEMMA TailNextOK == TailInv /\ [TailNext]_tailVars => TailInv'
<1> SUFFICES ASSUME TailInv, [TailNext]_tailVars, ~grown PROVE TailInv'
  BY GrownOK
<1>1. CASE Reader
  BY <1>1, StatOK, SeekOK, ReadOK, CharacterOK, EndOfBlockOK DEF Reader
<1>2. ASSUME NEW c \in Appended, Write(c) PROVE TailInv'
  BY <1>2, WriteKeeps
<1>3. CASE UNCHANGED tailVars
  <2>1. UNCHANGED <<fileVars, at, placeVars, block, left, scanVars>>
    BY <1>3 DEF tailVars
  <2>2. ReturnsLastLines' <=> ReturnsLastLines
    BY <2>1 DEF ReturnsLastLines, LastKept, Kept, removeCRLF, fileVars, scanVars
  <2>3. ASSUME PlaceInv PROVE PlaceInv'
    <3>1. PICK p : p = IF at = "seek" THEN Len(content) + cursor + buffer
                       ELSE IF at = "read" THEN offset + buffer ELSE offset + left
      OBVIOUS
    <3>2. at \in {"seek", "read", "scan"} => ScanInv(p)
      BY <2>3, <3>1 DEF PlaceInv
    <3>3. at \in {"seek", "read", "scan"} => ScanInv(p)'
      BY <2>1, <3>2, ScanKept DEF fileVars, scanVars
    <3> QED
      BY <2>1, <2>3, <3>1, <3>3 DEF PlaceInv, BlockInv, fileVars, placeVars, scanVars
  <2> QED
    BY <2>1, <2>2, <2>3 DEF TailInv, fileVars
<1> QED
  BY <1>1, <1>2, <1>3 DEF TailNext

\* However the blocks cut them, LastLines returns the last lines of a file that
\* nobody writes to meanwhile, each byte of them as the character with its code:
\* for any block size and any file (ReturnsLastLines).
THEOREM LastLinesAreLast == TailSpec => []ReturnsLastLines
<1>1. TailInv => ReturnsLastLines
  BY DEF TailInv, ReturnsLastLines
<1> QED
  BY <1>1, TailInitOK, TailNextOK, PTL DEF TailSpec

-----------------------------------------------------------------------------
(* That LastLines ends is a liveness property, but what it rests on is not. *)

\* One step less to go: another block further to the front, or the next call for
\* this block, or fewer of its characters to scan.
Nearer ==
  \/ at' = "done"
  \/ cursor' < cursor
  \/ cursor' = cursor /\ <<at, at'>> \in {<<"seek", "read">>, <<"read", "scan">>}
  \/ cursor' = cursor /\ at = "scan" /\ at' = "scan" /\ left' < left /\ left' >= 0

\* No block begins before the file (Seek would fail, ioutil.go:140), and every
\* step moves the cursor on, while the file grows, too; one that was empty at
\* Stat is the exception.  The cursor counts from the end of the file: a writer
\* that adds as much as is read keeps the start of it as far away.
NeverStuck == [][Reader => (-Len(content') <= cursor' /\ (statSize' > 0 => Nearer))]_tailVars

\* Where a block may begin in a file that can only become longer.
CursorInv ==
  /\ content \in Seq(Bytes)
  /\ at = "stat" => cursor = 0
  /\ at # "stat" => /\ statSize \in Nat /\ cursor \in Int /\ buffer \in Nat
                    /\ buffer <= Shortest(BlockSize, statSize)
                    /\ statSize > 0 => buffer > 0
                    /\ cursor + buffer <= 0 /\ 0 <= Len(content) + cursor
  /\ at \in {"read", "scan"} => offset \in Nat /\ offset <= Len(content) + cursor
  /\ at = "scan" => Len(block) = buffer /\ left \in 0 .. buffer

LEMMA CursorInitOK == TailInit => CursorInv
  BY LastLinesAssumption DEF TailInit, CursorInv

LEMMA CursorStatOK == CursorInv /\ Stat => CursorInv' /\ cursor' <= 0 /\ (statSize' > 0 => cursor' < 0)
<1> SUFFICES ASSUME CursorInv, Stat
             PROVE  CursorInv' /\ cursor' <= 0 /\ (statSize' > 0 => cursor' < 0)
  OBVIOUS
<1>1. content \in Seq(Bytes) /\ content' = content /\ Len(content) \in Nat /\ BlockSize \in Nat \ {0}
  BY LenProperties, LastLinesAssumption DEF CursorInv, Stat, fileVars
<1>2. /\ at' = "seek" /\ statSize' = Len(content) /\ cursor' = -buffer'
      /\ buffer' = Shortest(BlockSize, statSize')
  BY DEF Stat
<1>3. buffer' \in 0 .. Len(content) /\ (statSize' > 0 => buffer' > 0)
  BY <1>1, <1>2 DEF Shortest
<1> QED
  BY <1>1, <1>2, <1>3 DEF CursorInv

LEMMA CursorSeekOK == CursorInv /\ Seek => CursorInv'
<1> SUFFICES ASSUME CursorInv, Seek PROVE CursorInv'
  OBVIOUS
<1>1. content \in Seq(Bytes) /\ Len(content) \in Nat
  BY LenProperties DEF CursorInv
<1> QED
  BY <1>1 DEF CursorInv, Seek, fileVars

LEMMA CursorReadOK == CursorInv /\ Read => CursorInv'
<1> SUFFICES ASSUME CursorInv, Read PROVE CursorInv'
  OBVIOUS
<1>1. /\ content \in Seq(Bytes) /\ Len(content) \in Nat /\ offset \in Nat /\ buffer \in Nat
      /\ offset + buffer <= Len(content)
  BY LenProperties DEF CursorInv, Read
<1>2. block' = SubSeq(content, offset + 1, offset + buffer) /\ left' = Len(block') /\ at' = "scan"
      /\ UNCHANGED <<content, statSize, cursor, offset, buffer>>
  BY <1>1 DEF Read, Shortest, fileVars, placeVars
<1>3. left' = buffer /\ Len(block') = buffer
  BY <1>1, <1>2, BlockLength
<1>4. at = "read"
  BY DEF Read
<1> QED
  BY <1>1, <1>2, <1>3, <1>4 DEF CursorInv

LEMMA CursorCharacterOK == CursorInv /\ Character => CursorInv' /\ (at' = "done" \/ (at' = "scan" /\ left' < left /\ left' >= 0))
<1> SUFFICES ASSUME CursorInv, Character
             PROVE  CursorInv' /\ (at' = "done" \/ (at' = "scan" /\ left' < left /\ left' >= 0))
  OBVIOUS
<1>1. /\ at = "scan" /\ left > 0 /\ left \in 0 .. buffer /\ buffer \in Nat
      /\ UNCHANGED <<content, statSize, cursor, offset, buffer, block>>
  BY DEF CursorInv, Character, fileVars, placeVars
<1>2. at' = "done" \/ (at' = "scan" /\ left' = left - 1)
  BY <1>1 DEF Character
<1>3. at' = "done" \/ (at' = "scan" /\ left' \in 0 .. buffer /\ left' < left)
  BY <1>1, <1>2
<1> QED
  BY <1>1, <1>3 DEF CursorInv

LEMMA CursorBlockOK == CursorInv /\ EndOfBlock => CursorInv' /\ (at' = "done" \/ (statSize' > 0 => cursor' < cursor))
<1> SUFFICES ASSUME CursorInv, EndOfBlock
             PROVE  CursorInv' /\ (at' = "done" \/ (statSize' > 0 => cursor' < cursor))
  OBVIOUS
<1>1. /\ content \in Seq(Bytes) /\ Len(content) \in Nat /\ statSize \in Nat /\ cursor \in Int
      /\ buffer \in Nat /\ (statSize > 0 => buffer > 0)
      /\ cursor + buffer <= 0 /\ offset \in Nat /\ offset <= Len(content) + cursor
      /\ Len(block) = buffer
      /\ UNCHANGED <<content, statSize, offset>>
  BY LenProperties DEF CursorInv, EndOfBlock, fileVars
<1>2. PICK b \in Nat : b = Shortest(BlockSize, statSize) /\ buffer <= b
  BY <1>1, LastLinesAssumption DEF CursorInv, EndOfBlock, Shortest
<1>3. CASE offset = 0
  BY <1>1, <1>3 DEF CursorInv, EndOfBlock
<1>4. CASE offset # 0 /\ offset > b
  <2>1. at' = "seek" /\ cursor' = cursor - buffer /\ buffer' = buffer
    BY <1>1, <1>2, <1>4 DEF EndOfBlock, Before
  <2> QED
    BY <1>1, <1>2, <1>4, <2>1 DEF CursorInv
<1>5. CASE offset # 0 /\ ~ offset > b
  <2>1. at' = "seek" /\ cursor' = cursor - offset /\ buffer' = offset
    BY <1>1, <1>2, <1>5 DEF EndOfBlock, Before
  <2> QED
    BY <1>1, <1>2, <1>5, <2>1 DEF CursorInv
<1> QED
  BY <1>3, <1>4, <1>5

LEMMA CursorWriteOK == ASSUME CursorInv, NEW c \in Appended, Write(c) PROVE CursorInv'
<1>1. /\ content \in Seq(Bytes) /\ Len(content) \in Nat /\ content' = Append(content, c)
      /\ UNCHANGED <<at, statSize, cursor, offset, buffer, block, left>>
  BY LenProperties DEF CursorInv, Write, placeVars
<1>2. content' \in Seq(Bytes) /\ Len(content') = Len(content) + 1
  BY <1>1, LastLinesAssumption
<1> QED
  BY <1>1, <1>2 DEF CursorInv

LEMMA CursorNextOK == CursorInv /\ [TailNext]_tailVars => CursorInv'
<1> SUFFICES ASSUME CursorInv, [TailNext]_tailVars PROVE CursorInv'
  OBVIOUS
<1>1. CASE Reader
  BY <1>1, CursorStatOK, CursorSeekOK, CursorReadOK, CursorCharacterOK, CursorBlockOK DEF Reader
<1>2. ASSUME NEW c \in Appended, Write(c) PROVE CursorInv'
  BY <1>2, CursorWriteOK
<1>3. CASE UNCHANGED tailVars
  BY <1>3 DEF CursorInv, tailVars, fileVars, placeVars
<1> QED
  BY <1>1, <1>2, <1>3 DEF TailNext

\* LastLines never seeks before the file and every step of it counts, although
\* the file grows (NeverStuck): what remains for TailReturns is fairness, and that
\* the file does not grow for ever.
THEOREM LastLinesMovesOn == TailSpec => NeverStuck
<1>1. CursorInv /\ CursorInv' /\ Reader => -Len(content') <= cursor' /\ (statSize' > 0 => Nearer)
  <2> SUFFICES ASSUME CursorInv, CursorInv', Reader
               PROVE  -Len(content') <= cursor' /\ (statSize' > 0 => Nearer)
    OBVIOUS
  <2>1. Reader => at # "done"
    BY DEF Reader, Stat, Seek, Read, Character, EndOfBlock
  <2>2. -Len(content') <= cursor'
    <3>1. at' # "stat" /\ Len(content') \in Nat
      BY LenProperties DEF CursorInv, Reader, Stat, Seek, Read, Character, EndOfBlock
    <3>2. cursor' \in Int /\ 0 <= Len(content') + cursor'
      BY <3>1 DEF CursorInv
    <3> QED
      BY <3>1, <3>2
  <2>3. ASSUME Stat, statSize' > 0 PROVE Nearer
    BY <2>3, CursorStatOK DEF Nearer, CursorInv, Stat
  <2>4. ASSUME Seek \/ Read PROVE Nearer
    BY <2>4 DEF Seek, Read, Nearer, placeVars
  <2>5. ASSUME Character PROVE Nearer
    <3>1. at = "scan" /\ cursor' = cursor
      BY <2>5 DEF Character, placeVars
    <3> QED
      BY <2>5, <3>1, CursorCharacterOK DEF Nearer
  <2>6. ASSUME EndOfBlock, statSize' > 0 PROVE Nearer
    BY <2>6, CursorBlockOK DEF Nearer
  <2> QED
    BY <2>2, <2>3, <2>4, <2>5, <2>6 DEF Reader
<1> QED
  BY <1>1, CursorInitOK, CursorNextOK, PTL DEF TailSpec, NeverStuck
=============================================================================
