---------------------------- MODULE MCBitstreamFile ----------------------------
(***************************************************************************)
(* Small HEVC files for BitstreamFile: streams of a few pictures, written  *)
(* with short and long start codes and payloads of several lengths, and    *)
(* shifted against the buffer by the bytes before the first unit.          *)
(***************************************************************************)
EXTENDS BitstreamFile

\* A picture is written by the place at which it is shown; its lsb is that of its count
\* in its sequence.
Slice(type, first, pps, poc, tid, shown) ==
    [nal |-> [type |-> type, first |-> first, pps |-> pps, lsb |-> poc % MaxLsb, tid |-> tid],
     shown |-> shown]
Picture(type, poc, tid, shown) == Slice(type, TRUE, 0, poc, tid, shown)
PPS(id) == [nal |-> [type |-> "PPS", pps |-> id], shown |-> -1]
SEI == [nal |-> [type |-> "SEI"], shown |-> -1]

\* The count wraps, with a picture of a higher layer at the wrap.
Wrapping == <<PPS(0), Picture("IDR", 0, 0, 0), Picture("TRAIL", 7, 0, 1),
              Picture("TRAIL", 14, 0, 2), Picture("TRAIL", 21, 0, 4),
              Picture("TRAIL", 16, 1, 3), Picture("TRAIL", 22, 0, 5)>>

\* Two sequences, pictures of two slices, a message before the second.
TwoSequences == <<PPS(0), Picture("IDR", 0, 0, 0), Slice("IDR", FALSE, 0, 0, 0, 0),
                  Picture("TRAIL", 4, 0, 2), Picture("TRAIL", 2, 1, 1),
                  SEI, Picture("IDR", 0, 0, 3), Slice("IDR", FALSE, 0, 0, 0, 3),
                  Picture("TRAIL", 3, 0, 4)>>

\* An open group at the start, whose leading picture cannot be decoded, and one later.
OpenGroups == <<PPS(0), Picture("CRA", 8, 0, 1), Picture("RASL", 6, 1, 0),
                Picture("TRAIL", 9, 0, 2), Picture("CRA", 15, 0, 4),
                Picture("RASL", 12, 1, 3), Picture("TRAIL", 17, 0, 5)>>

\* A parameter set is sent again, changed, between the random access pictures.
Sets == <<PPS(0), PPS(1), Picture("IDR", 0, 0, 0), Slice("TRAIL", TRUE, 1, 1, 0, 1), PPS(1),
          Slice("CRA", TRUE, 1, 2, 0, 2), Slice("TRAIL", TRUE, 0, 3, 0, 3)>>

\* Every picture is an IDR picture.
AllIntra == <<PPS(0), Picture("IDR", 0, 0, 0), Picture("IDR", 0, 0, 1), Picture("IDR", 0, 0, 2)>>

Fillers == <<<<9>>, <<0, 1>>, <<9, 9, 9>>, <<0, 0, 9, 9>>>>
Nines(n) == [k \in 1 .. n |-> 9]
Ones == [k \in 1 .. BufferSize |-> IF k % 3 = 0 THEN 1 ELSE 0]

\* codes: whether all units, or every second, have the long start code; turn: the filler
\* of the first unit; lead: bytes before the first unit.
Written(stream, codes, turn, lead, stale) ==
    LET zeros(k) == CASE codes = "short" -> 2 [] codes = "long" -> 3 [] OTHER -> 2 + (k % 2)
        filler(k) == Fillers[((k + turn) % 4) + 1]
    IN [lead |-> Nines(lead), stale |-> stale,
        units |-> [k \in DOMAIN stream |->
                      [nal |-> stream[k].nal, shown |-> stream[k].shown,
                       zeros |-> zeros(k), filler |-> filler(k),
                       bytes |-> Zeros(zeros(k)) \o <<1, k + 1>> \o filler(k)]]]

\* Not modelled: the last buffer is full and begins with a short start code. The search
\* then goes on in a buffer of which nothing is in use, finds this start code again and
\* reads the byte before the buffer.
UsualEnd(b) ==
    LET bytes == FileBytes(b)
    IN Len(bytes) < BufferSize
       \/ Mid(bytes, Len(bytes) - BufferSize, 3) # StartCode

Files(streams, codes, stales) ==
    {b \in {Written(s, c, t, l, u) : s \in streams, c \in codes, t \in {0, 2},
                                     l \in 0 .. BufferSize - 1, u \in stales} : UsualEnd(b)}

MCBitstreams == Files({Wrapping, TwoSequences, OpenGroups, Sets}, {"short", "long", "mixed"},
                      {Zeros(BufferSize), Ones})
IntraBitstreams == Files({AllIntra}, {"short"}, {Zeros(BufferSize)})
=============================================================================
