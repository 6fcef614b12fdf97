----------------------------- MODULE FileQueue -----------------------------
(***************************************************************************)
(* A directory used as a queue: WriteToRandomFile adds a file under a name *)
(* of its own, ReadOldestFiles reads the n oldest, and the program that    *)
(* reads them removes them.  Nothing is locked: a file can be seen before  *)
(* it is written, and be gone before it is read.                           *)
(***************************************************************************)
EXTENDS Naturals, FiniteSets, Sequences, SequencesExt

CONSTANTS
  Files,        \* names, each of one call of WriteToRandomFile
  Count,        \* argument n of ReadOldestFiles
  SmallSlices,  \* up to how many elements sort.Slice sorts by insertion: {12} in Go 1.21
  MaxTime       \* bound on the clock

\* A negative n is no number of files: the slice of the sorted names panics.
ASSUME CountAssumption == Count \in Nat /\ SmallSlices \subseteq Nat

VARIABLES
  disk,    \* the files that exist, with their data and modification time
  writer,  \* where the call of WriteToRandomFile is
  now,     \* the clock, in seconds
  reader,  \* where ReadOldestFiles is
  ready,   \* the files whose writer had returned before WalkDir found them
  top,     \* the names that WalkDir has found, as they are sorted, then cut to n
  next, place, in1,  \* insertion sort: outer and inner loop, the first time of a comparison
  seen,    \* sort with pivots: the times that the comparisons have seen of each file
  got      \* what has been read of the files

writerVars == <<disk, writer, now>>
sortVars == <<next, place, in1, seen>>
dirVars == <<writerVars, reader, ready, top, sortVars, got>>

DirInit ==
  /\ disk = <<>>
  /\ writer = [f \in Files |-> "off"]
  /\ now = 0
  /\ reader = "idle" /\ ready = {} /\ top = <<>> /\ got = <<>>
  /\ next = 0 /\ place = 0 /\ in1 = 0 /\ seen = <<>>

On(f) == f \in DOMAIN disk

Store(f, data) == disk' = [g \in DOMAIN disk \cup {f} |->
                            IF g = f THEN [data |-> data, time |-> now] ELSE disk[g]]

-----------------------------------------------------------------------------
(* Writing: os.Create, the flush of the buffered data, Close. *)

Create(f) ==
  /\ writer[f] = "off"
  /\ \/ writer' = [writer EXCEPT ![f] = "created"] /\ Store(f, "part")
     \/ writer' = [writer EXCEPT ![f] = "failed"] /\ UNCHANGED disk
  /\ UNCHANGED <<now, reader, ready, top, sortVars, got>>

\* A write that fails leaves the file, with a part of the data, if any.
Flush(f) ==
  /\ writer[f] = "created"
  /\ \/ writer' = [writer EXCEPT ![f] = "flushed"]
        /\ IF On(f) THEN Store(f, "all") ELSE UNCHANGED disk
     \/ writer' = [writer EXCEPT ![f] = "failed"]
        /\ IF On(f) THEN Store(f, "part") \/ UNCHANGED disk ELSE UNCHANGED disk
  /\ UNCHANGED <<now, reader, ready, top, sortVars, got>>

Close(f) ==
  /\ writer[f] = "flushed"
  /\ \E w \in {"returned", "failed"} : writer' = [writer EXCEPT ![f] = w]
  /\ UNCHANGED <<disk, now, reader, ready, top, sortVars, got>>

-----------------------------------------------------------------------------
(* Reading. *)

Cut(s) == SubSeq(s, 1, IF Len(s) < Count THEN Len(s) ELSE Count)

\* Mutant of Walk: the names are cut to n before they are sorted.
WalkCut ==
  /\ reader = "idle"
  /\ top' \in {Cut(s) : s \in SetToSeqs(DOMAIN disk)}
  /\ ready' = {f \in DOMAIN disk : writer[f] = "returned"}
  /\ reader' = "insert" /\ next' = 2 /\ place' = 2
  /\ UNCHANGED <<writerVars, seen, in1, got>>

\* The names come in the order of WalkDir, which is that of no time.
Walk ==
  /\ reader = "idle"
  /\ top' \in SetToSeqs(DOMAIN disk)
  /\ ready' = {f \in DOMAIN disk : writer[f] = "returned"}
  /\ \E small \in SmallSlices :
       IF Len(top') <= small
       THEN reader' = "insert" /\ next' = 2 /\ place' = 2 /\ UNCHANGED seen
       ELSE reader' = "pivot" /\ seen' = [f \in DOMAIN disk |-> {}] /\ UNCHANGED <<next, place>>
  /\ UNCHANGED <<writerVars, in1, got>>

WalkFails ==
  /\ reader = "idle"
  /\ reader' = "failed"
  /\ UNCHANGED <<writerVars, ready, top, sortVars, got>>

\* The comparison asks the disk for the Info of both files whenever it is
\* called, first for the file to insert; for a file that is gone the Info is
\* nil, whose ModTime panics.
InsertInfo ==
  /\ reader = "insert" /\ next <= Len(top)
  /\ IF On(top[place])
     THEN reader' = "compare" /\ in1' = disk[top[place]].time
     ELSE reader' = "panicked" /\ UNCHANGED in1
  /\ UNCHANGED <<writerVars, ready, top, next, place, seen, got>>

\* ... then for the one in front of it, with which it changes places if it is
\* older, to be compared with the next one.  Times are compared in seconds.
InsertCompare ==
  LET f == top[place - 1] IN
  /\ reader = "compare"
  /\ \/ /\ ~On(f)
        /\ reader' = "panicked"
        /\ UNCHANGED <<top, next, place>>
     \/ /\ On(f)
        /\ reader' = "insert"
        /\ top' = IF in1 < disk[f].time
                  THEN [top EXCEPT ![place] = f, ![place - 1] = top[place]] ELSE top
        /\ IF in1 < disk[f].time /\ place > 2
           THEN place' = place - 1 /\ UNCHANGED next
           ELSE place' = next + 1 /\ next' = next + 1
  /\ in1' = 0
  /\ UNCHANGED <<writerVars, ready, seen, got>>

InsertDone ==
  /\ reader = "insert" /\ next > Len(top)
  /\ reader' = "read"
  /\ top' = Cut(top)
  /\ next' = 0 /\ place' = 0
  /\ UNCHANGED <<writerVars, ready, in1, seen, got>>

\* More files are compared as the library likes, each at least once.
PivotInfo(f) ==
  /\ reader = "pivot" /\ f \in DOMAIN seen
  /\ IF On(f)
     THEN seen' = [seen EXCEPT ![f] = @ \cup {disk[f].time}] /\ UNCHANGED reader
     ELSE reader' = "panicked" /\ UNCHANGED seen
  /\ UNCHANGED <<writerVars, ready, top, next, place, in1, got>>

\* No comparison has seen another time of a file than the one before.
Steady == \A f \in DOMAIN seen : \A t, u \in seen[f] : t = u

BySeen(s) == \A i, j \in 1 .. Len(s) : i < j => \A t \in seen[s[i]], u \in seen[s[j]] : t <= u

\* The result is sorted when the comparisons agree with each other; it is any
\* order when the time of a file has changed between them.
PivotDone ==
  /\ reader = "pivot" /\ \A f \in DOMAIN seen : seen[f] # {}
  /\ reader' = "read"
  /\ top' \in {Cut(s) : s \in {t \in SetToSeqs(DOMAIN seen) : Steady => BySeen(t)}}
  /\ UNCHANGED <<writerVars, ready, sortVars, got>>

\* ReadFile of the next name; an error of one loses what was read before it.
ReadNext ==
  LET f == top[Len(got) + 1] IN
  /\ reader = "read" /\ Len(got) < Len(top)
  /\ IF On(f)
     THEN got' = Append(got, disk[f].data) /\ UNCHANGED reader
     ELSE got' = <<>> /\ reader' = "failed"
  /\ UNCHANGED <<writerVars, ready, top, sortVars>>

Return ==
  /\ reader = "read" /\ Len(got) = Len(top)
  /\ reader' = "returned"
  /\ UNCHANGED <<writerVars, ready, top, sortVars, got>>

\* The program takes the result and calls again.
Again ==
  /\ reader \in {"returned", "failed"}
  /\ reader' = "idle"
  /\ ready' = {} /\ top' = <<>> /\ got' = <<>> /\ seen' = <<>>
  /\ UNCHANGED <<writerVars, next, place, in1>>

-----------------------------------------------------------------------------
Consume(f) ==
  /\ On(f)
  /\ disk' = [g \in DOMAIN disk \ {f} |-> disk[g]]
  /\ UNCHANGED <<writer, now, reader, ready, top, sortVars, got>>

Tick ==
  /\ now < MaxTime
  /\ now' = now + 1
  /\ UNCHANGED <<disk, writer, reader, ready, top, sortVars, got>>

topNfilesSorted ==
  InsertInfo \/ InsertCompare \/ InsertDone \/ PivotDone \/ \E f \in Files : PivotInfo(f)

DirNext ==
  \/ \E f \in Files : Create(f) \/ Flush(f) \/ Close(f) \/ Consume(f)
  \/ Walk \/ WalkFails \/ topNfilesSorted \/ ReadNext \/ Return \/ Again \/ Tick

DirSpec == DirInit /\ [][DirNext]_dirVars

-----------------------------------------------------------------------------
(* Properties. *)

\* What ReadOldestFiles returns (ioutil.go:94) while files are written, removed
\* and compared: of the files whose writer had returned before it began, it
\* returns the whole data, and never one and not an older one, or before it,
\* when they differ by a second; incomplete data is only that of a file whose
\* writer was at work or had failed.  Up to 12 files the order is right
\* although the time of another file changes during the sort (ioutil.go:237);
\* with more, it is as long as no time does.
ReturnsOldestWhole ==
  reader = "returned" =>
    /\ \A i \in 1 .. Len(top) : top[i] \in ready => got[i] = "all"
    /\ Steady =>
         \A f, g \in ready :
           On(f) /\ On(g) /\ disk[f].time < disk[g].time /\ (\E j \in 1 .. Len(top) : top[j] = g)
             => \E i, j \in 1 .. Len(top) : i < j /\ top[i] = f /\ top[j] = g
=============================================================================
