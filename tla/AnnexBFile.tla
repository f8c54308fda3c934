------------------------------ MODULE AnnexBFile ------------------------------
(***************************************************************************)
(* FileSourceAnnexBFile: NAL units out of a file that is read through one  *)
(* buffer.  A start code (0 0 1, or 0 0 0 1) may lie across the end of the *)
(* buffer; the position in the buffer is then negative.  The buffer is     *)
(* never resized: behind the bytes in use are those of an earlier read.    *)
(*                                                                         *)
(* A method is an operator from the state of the reader to its next state, *)
(* with the result in a field.  Positions count from 0, as in the code.    *)
(***************************************************************************)
EXTENDS Integers, Sequences, SequencesExt

CONSTANT BufferSize         \* BUFFERSIZE

ASSUME BufferAssumption == BufferSize \in Nat /\ BufferSize > 3

StartCode == <<0, 0, 1>>

Zeros(n) == [k \in 1 .. n |-> 0]
At(bytes, p) == bytes[p + 1]

\* QByteArray::mid, with what it does for a position below zero.
Mid(bytes, p, n) ==
    LET first == IF p < 0 THEN 0 ELSE p
    IN SubSeq(bytes, first + 1, IF p + n > Len(bytes) THEN Len(bytes) ELSE p + n)

\* QByteArray::indexOf: also behind the bytes that are in use.
IndexOfStartCode(buffer, from) ==
    LET found == {p \in from .. Len(buffer) - 3 : Mid(buffer, p, 3) = StartCode}
    IN IF found = {} THEN -1 ELSE CHOOSE p \in found : \A q \in found : p <= q

\* QFile::read at a position of the file, into the buffer.
Read(f, filePos) ==
    LET n == IF Len(f.file) - filePos < BufferSize THEN Len(f.file) - filePos
                                                   ELSE BufferSize
    IN [f EXCEPT !.buffer = SubSeq(f.file, filePos + 1, filePos + n)
                              \o SubSeq(@, n + 1, BufferSize),
                 !.size = n]

atEnd(f) == f.size < BufferSize /\ f.pos >= f.size
FilePos(f) == f.start + f.pos

\* updateBuffer
updateBuffer(f) == [Read(f, f.start + f.size) EXCEPT !.start = f.start + f.size, !.pos = 0]

(***************************************************************************)
(* getNextNALUnit.  unit: the bytes returned; range: startEndPosInFile.    *)
(***************************************************************************)

\* The end of the last buffer: whether its last, second and third last byte are 0.
LastZero(f, k) == At(f.buffer, f.size - k) = 0

\* The start code across the boundary between the buffer of f and that of g: where it
\* starts in g and how many bytes are taken off what was collected.
BoundaryCases_ChopNothing(f, g) ==
    IF g.size <= 2 THEN {}
    ELSE CASE At(g.buffer, 0) = 1 /\ LastZero(f, 1) /\ LastZero(f, 2) ->
                {[pos |-> IF LastZero(f, 3) THEN -3 ELSE -2, chop |-> 0]}
           [] At(g.buffer, 0) = 0 /\ At(g.buffer, 1) = 1 /\ LastZero(f, 1) ->
                {[pos |-> IF LastZero(f, 2) THEN -2 ELSE -1, chop |-> 0]}
           [] Mid(g.buffer, 0, 3) = StartCode ->
                {[pos |-> IF LastZero(f, 1) THEN -1 ELSE 0, chop |-> 0]}
           [] OTHER -> {}

BoundaryCases(f, g) ==
    IF g.size <= 2 THEN {}
    ELSE CASE At(g.buffer, 0) = 1 /\ LastZero(f, 1) /\ LastZero(f, 2) ->
                {IF LastZero(f, 3) THEN [pos |-> -3, chop |-> 3] ELSE [pos |-> -2, chop |-> 2]}
           [] At(g.buffer, 0) = 0 /\ At(g.buffer, 1) = 1 /\ LastZero(f, 1) ->
                {[pos |-> IF LastZero(f, 2) THEN -2 ELSE -1, chop |-> 1]}
           [] Mid(g.buffer, 0, 3) = StartCode ->
                {IF LastZero(f, 1) THEN [pos |-> -1, chop |-> 1] ELSE [pos |-> 0, chop |-> 0]}
           [] OTHER -> {}

Chop(bytes, n) == SubSeq(bytes, 1, Len(bytes) - n)

Found(f, p, first, bytes) ==
    [f EXCEPT !.unit = bytes \o (IF p > f.pos THEN Mid(f.buffer, f.pos, p - f.pos) ELSE <<>>),
              !.range = <<first, f.start + p>>,
              !.pos = p]

\* No start code and no more bytes: the rest is a unit.
OutOfFile_Advances(f, bytes, first) ==
    [f EXCEPT !.unit = bytes, !.range = <<first, f.start + f.size - 1>>, !.pos = @ + Len(bytes)]
OutOfFile(f, bytes, first) ==
    [f EXCEPT !.unit = bytes, !.range = <<first, f.start + f.size - 1>>, !.pos = BufferSize]

\* The loop over buffers: what was collected so far, where to search, where the unit began.
RECURSIVE SearchUnit(_, _, _, _)
SearchUnit(f, collected, offset, first) ==
    LET p == IndexOfStartCode(f.buffer, f.pos + offset)
        here == collected \o Zeros(IF f.pos < 0 THEN -f.pos ELSE 0)
        all == here \o Mid(f.buffer, f.pos, f.size - f.pos)
        next == updateBuffer(f)
    IN IF p >= 0 /\ p <= f.size
       THEN Found(f, IF At(f.buffer, p - 1) = 0 THEN p - 1 ELSE p, first, here)
       ELSE IF f.size < BufferSize
       THEN OutOfFile(f, all, first)
       ELSE IF BoundaryCases(f, next) # {}
       THEN LET b == CHOOSE b \in BoundaryCases(f, next) : TRUE
            IN Found(next, b.pos, first, Chop(all, b.chop))
       ELSE SearchUnit(next, all, 0, first)

getNextNALUnit(f) == SearchUnit(f, <<>>, 3, FilePos(f))

(***************************************************************************)
(* openFile, seek, getFrameData.                                           *)
(***************************************************************************)

seekToFirstNAL(f) ==
    LET p == IndexOfStartCode(f.buffer, 0)
        g == IF p < 0 THEN getNextNALUnit(f)
             ELSE [f EXCEPT !.pos = IF p > 0 /\ At(f.buffer, p - 1) = 0 THEN p - 1 ELSE p]
    IN [g EXCEPT !.before = FilePos(g)]

\* What the buffer holds before the first read is not initialised.
Opened(file, uninitialised) ==
    LET f == Read([file |-> file, buffer |-> uninitialised, size |-> 0, start |-> 0, pos |-> 0,
                   before |-> 0, unit |-> <<>>, range |-> <<0, 0>>, data |-> <<>>], 0)
    IN IF f.size = 0 THEN f ELSE seekToFirstNAL(f)

seek(f, filePos) ==
    LET g == Read(f, filePos)
        there == [g EXCEPT !.start = filePos, !.pos = 0]
    IN IF g.size = 0 THEN g
       ELSE IF filePos = 0 THEN seekToFirstNAL(there) ELSE there

\* Units up to the end position, each with a start code of four bytes.
StartCodeLength(unit) == IF Mid(unit, 0, 3) = StartCode THEN 3 ELSE 4

RECURSIVE CollectUnits(_, _)
CollectUnits(f, end) ==
    IF end <= FilePos(f) THEN f
    ELSE LET g == getNextNALUnit(f)
         IN CollectUnits([g EXCEPT !.data = @ \o Zeros(4 - StartCodeLength(g.unit)) \o g.unit],
                         end)

getFrameData(f, range) == CollectUnits([seek(f, range[1]) EXCEPT !.data = <<>>], range[2])
=============================================================================
