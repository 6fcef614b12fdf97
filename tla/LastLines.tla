----------------------------- MODULE LastLines -----------------------------
(***************************************************************************)
(* ioutil.LastLines: reads a file in blocks, from its end to its start,    *)
(* and collects lines until it has enough.  The position of a block is     *)
(* relative to the end of the file, which a writer may move meanwhile.     *)
(***************************************************************************)
EXTENDS Integers, Sequences, FiniteSets, FiniteSetsExt

CONSTANTS
  BlockSize,  \* 4096 in the code
  Contents,   \* files, as sequences of bytes
  Wanted,     \* the numbers of lines that are asked for
  Appended,   \* bytes that another program may append
  MaxSize     \* bound on a file that is written to

\* A byte is visible ASCII text, ASCII white space, LF or CR, or it is greater
\* than 0x7F: "w" if white space has its code (0x85 and 0xA0), or "h".
Bytes == {"a", "s", "n", "r", "h", "w"}

ASSUME LastLinesAssumption ==
  /\ BlockSize \in Nat \ {0} /\ MaxSize \in Nat
  /\ Contents \subseteq Seq(Bytes) /\ Appended \subseteq Bytes
  /\ Wanted \subseteq Int

VARIABLES
  content,  \* the file
  arg,      \* the arguments nlines, skipEmpty and noincludecrlf
  at,       \* "stat", "seek", "read", "scan" or "done"
  statSize, \* size of the file when it was opened
  cursor, offset,  \* where the next block starts, from the end and from the start
  buffer,   \* size of the buffer
  block, left,  \* what was read into it, and how much of that is not scanned yet
  lines,    \* accLines, in the order of the file
  line, first,  \* currLine, as characters, and whether no newline was seen
  grown     \* whether the file was written to

fileVars == <<content, arg, grown>>
placeVars == <<statSize, cursor, offset, buffer>>
scanVars == <<lines, line, first>>
tailVars == <<fileVars, at, placeVars, block, left, scanVars>>

Newline == {"n", "r"}

Shortest(i, j) == IF i < j THEN i ELSE j

Args == [nlines : Wanted, skipEmpty : BOOLEAN, noincludecrlf : BOOLEAN]

TailInit ==
  /\ content \in Contents
  /\ arg \in Args
  /\ at = "stat"
  /\ statSize = 0 /\ cursor = 0 /\ offset = 0 /\ buffer = 0
  /\ block = <<>> /\ left = 0
  /\ lines = <<>> /\ line = <<>> /\ first = TRUE
  /\ grown = FALSE

-----------------------------------------------------------------------------
(* Lines; a line is a sequence of characters, with its newline. *)

\* string(b): not the byte b, but the UTF-8 of the character with the code b,
\* which takes two bytes from 0x80 on.
Utf8(b) == IF b \in {"h", "w"} THEN <<"lead", b>> ELSE <<b>>

LF == Utf8("n")
White == {Utf8(b) : b \in {"s", "n", "r", "w"}}

Blank(text) == \A i \in 1 .. Len(text) : text[i] \in White

\* strings.TrimSpace.
removeCRLF(text) ==
  IF ~arg.noincludecrlf THEN text
  ELSE IF Blank(text) THEN <<>>
  ELSE LET visible == {i \in 1 .. Len(text) : text[i] \notin White}
       IN SubSeq(text, Min(visible), Max(visible))

-----------------------------------------------------------------------------
(* The loop. *)

Stat ==
  /\ at = "stat"
  /\ at' = "seek"
  /\ statSize' = Len(content)
  /\ buffer' = Shortest(BlockSize, Len(content))
  /\ cursor' = -buffer'
  /\ UNCHANGED <<fileVars, offset, block, left, scanVars>>

Seek ==
  /\ at = "seek"
  /\ at' = "read"
  /\ offset' = Len(content) + cursor
  /\ UNCHANGED <<fileVars, statSize, cursor, buffer, block, left, scanVars>>

Read ==
  /\ at = "read"
  /\ at' = "scan"
  /\ block' = SubSeq(content, offset + 1, Shortest(offset + buffer, Len(content)))
  /\ left' = Len(block')
  /\ UNCHANGED <<fileVars, placeVars, scanVars>>

\* The byte before those scanned: a newline completes the line after it,
\* but for the newline at the end of the file; LF and the CR before it are one.
Character ==
  LET c == block[left]
      ends == c \in Newline /\ (line # <<LF>> \/ c = "n")
      complete == ends /\ ~first /\ ~(arg.skipEmpty /\ Blank(line))
  IN
  /\ at = "scan" /\ left > 0
  /\ lines' = IF complete THEN <<removeCRLF(line)>> \o lines ELSE lines
  /\ IF complete /\ Len(lines') = arg.nlines
     THEN at' = "done" /\ UNCHANGED <<left, line, first>>
     ELSE /\ left' = left - 1
          /\ line' = IF ends THEN <<Utf8(c)>> ELSE <<Utf8(c)>> \o line
          /\ first' = (first /\ ~ends)
          /\ UNCHANGED at
  /\ UNCHANGED <<fileVars, placeVars, block>>

\* Mutant of Before: the last block is read with the whole buffer.
BeforeAnyhow(read) == [cursor |-> cursor - Shortest(read, offset), buffer |-> buffer]

\* Mutant of Before: the cursor stays where it is once the start is near.
BeforeHalted(read) ==
  [cursor |-> IF offset > Shortest(BlockSize, statSize) THEN cursor - read ELSE cursor,
   buffer |-> buffer]

\* The block before this one; the one at the start of the file may be shorter.
Before(read) ==
  IF offset > Shortest(BlockSize, statSize)
  THEN [cursor |-> cursor - read, buffer |-> buffer]
  ELSE [cursor |-> cursor - offset, buffer |-> offset]

\* The end of a block; the line at hand at the start of the file, if there is
\* one, is the first.
EndOfBlock ==
  /\ at = "scan" /\ left = 0
  /\ IF offset = 0
     THEN /\ at' = "done"
          /\ lines' = IF line = <<>> THEN lines ELSE <<removeCRLF(line)>> \o lines
          /\ UNCHANGED <<cursor, buffer>>
     ELSE /\ at' = "seek"
          /\ cursor' = Before(Len(block)).cursor
          /\ buffer' = Before(Len(block)).buffer
          /\ UNCHANGED lines
  /\ UNCHANGED <<fileVars, statSize, offset, block, left, line, first>>

\* A writer appends to the file.
Write(c) ==
  /\ at # "done" /\ Len(content) < MaxSize
  /\ content' = Append(content, c)
  /\ grown' = (grown \/ at # "stat")
  /\ UNCHANGED <<arg, at, placeVars, block, left, scanVars>>

Reader == Stat \/ Seek \/ Read \/ Character \/ EndOfBlock

TailNext == Reader \/ \E c \in Appended : Write(c)

TailSpec == TailInit /\ [][TailNext]_tailVars

-----------------------------------------------------------------------------
(* Properties. *)

\* Where the lines of a file end.  What follows the last newline is not a line,
\* unless it is all there is.
NewlineAt(f, i) == f[i] = "n" \/ (f[i] = "r" /\ (i = Len(f) \/ f[i + 1] # "n"))

Ends(f) ==
  LET newlines == {i \in 1 .. Len(f) : NewlineAt(f, i)}
  IN IF newlines = {} /\ f # <<>> THEN {Len(f)} ELSE newlines

Text(f) == [i \in 1 .. Len(f) |-> Utf8(f[i])]

LineAt(f, e) == SubSeq(Text(f), 1 + Max({0} \cup {i \in Ends(f) : i < e}), e)

\* skipEmpty drops the blank lines, but for the first line of the file.
Kept(f) ==
  {e \in Ends(f) : ~arg.skipEmpty \/ ~Blank(LineAt(f, e)) \/ \A i \in Ends(f) : e <= i}

LastKept(f) ==
  {e \in Kept(f) : arg.nlines <= 0 \/ Cardinality({i \in Kept(f) : i >= e}) <= arg.nlines}

\* However the blocks cut the lines, and a CRLF between two of them included,
\* the lines returned are the last ones of a file that nobody has written to
\* in the meantime (ioutil.go:149 and 183), with one character for every byte
\* (ioutil.go:174): an ASCII file comes back as it is, while every byte of
\* other text has become a character of its own, and two bytes.  Lines of
\* white space are blank, the one of a code above 0x7F included (ioutil.go:159).
ReturnsLastLines ==
  at = "done" /\ ~grown =>
    LET ends == LastKept(content) IN
    /\ Len(lines) = Cardinality(ends)
    /\ \A e \in ends :
         lines[Cardinality({i \in ends : i <= e})] = removeCRLF(LineAt(content, e))

\* LastLines returns although the file grows under it, with one exception: a
\* file that was empty when its size was taken and is not when the end of it
\* is looked for is read for ever, in blocks of no bytes (ioutil.go:183).
TailReturns == at \in {"seek", "read", "scan"} ~> (at = "done" \/ (statSize = 0 /\ content # <<>>))
=============================================================================
