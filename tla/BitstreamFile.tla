----------------------------- MODULE BitstreamFile -----------------------------
(***************************************************************************)
(* A raw HEVC file from opening to decoding: parseAnnexBFile reads all     *)
(* units through the buffer of AnnexBFile and hands them to the parser;    *)
(* afterwards the compressed item seeks and reads with the positions that  *)
(* the parser has kept (seekToPosition and loadRawData).                   *)
(*                                                                         *)
(* The payload of a unit is opaque: its first byte names the unit.         *)
(***************************************************************************)
EXTENDS AnnexBFile, ParserAnnexB

CONSTANTS Bitstream,        \* the files that are opened
          MaxSeeks          \* bound: how often the item seeks

(***************************************************************************)
(* A bitstream: lead, the bytes before its first unit; units, its NAL      *)
(* units, each with its bytes, and for a slice the place at which its      *)
(* picture is shown; stale, what the buffer holds before the first read.   *)
(***************************************************************************)
ASSUME BitstreamAssumption ==
    \A b \in Bitstream :
        /\ Len(b.stale) = BufferSize
        /\ \A k \in DOMAIN b.units :
              LET u == b.units[k]
              IN u.bytes \in {Zeros(u.zeros) \o <<1, k + 1>> \o u.filler} /\ u.zeros \in 2 .. 3

VARIABLES bitstream,        \* the file
          source,           \* the FileSourceAnnexBFile
          parser,           \* the parser
          phase,            \* "parsing", then "parsed"
          access            \* the last access after parsing

vars == <<bitstream, source, parser, phase, access>>

units == bitstream.units
NoAccess == [kind |-> "none", target |-> 0, unit |-> 0, sets |-> {}, seeks |-> 0]

FileBytes(b) == b.lead \o FlattenSeq([k \in DOMAIN b.units |-> b.units[k].bytes])

Init ==
    /\ bitstream \in Bitstream
    /\ source = Opened(FileBytes(bitstream), bitstream.stale)
    /\ parser = NewParser
    /\ phase = "parsing"
    /\ access = NoAccess

\* What is behind the start code (getStartCodeOffset), and the unit it belongs to.
StartCodeOffset(bytes) ==
    IF Mid(bytes, 0, 3) = StartCode THEN 3
    ELSE IF Mid(bytes, 0, 4) = <<0>> \o StartCode THEN 4 ELSE 0
Payload(bytes) == Mid(bytes, StartCodeOffset(bytes), Len(bytes))
UnitOf(bytes) == IF Payload(bytes) = <<>> THEN 0 ELSE Payload(bytes)[1] - 1
Unknown == [type |-> "other"]
NalOf(bytes) == IF UnitOf(bytes) \in DOMAIN units THEN units[UnitOf(bytes)].nal ELSE Unknown

\* The loop of parseAnnexBFile and the call after it.
ParseUnit ==
    /\ phase = "parsing"
    /\ ~atEnd(source)
    /\ source' = getNextNALUnit(source)
    /\ parser' = parseAndAddNALUnit(parser, NalOf(source'.unit), source'.range,
                                    UnitOf(source'.unit))
    /\ UNCHANGED <<bitstream, phase, access>>

ParseFinished ==
    /\ phase = "parsing"
    /\ atEnd(source)
    /\ parser' = ParseEnd(parser)
    /\ phase' = "parsed"
    /\ UNCHANGED <<bitstream, source, access>>

FrameIndex == 0 .. Len(parser.frames) - 1

\* All data of a frame, for FFmpeg.
ReadFrame ==
    /\ phase = "parsed"
    /\ access.seeks < MaxSeeks
    /\ \E f \in FrameIndex :
          /\ source' = getFrameData(source, FrameAt(parser.frames, f).pos)
          /\ access' = [NoAccess EXCEPT !.kind = "frame", !.target = f,
                                        !.seeks = access.seeks + 1]
    /\ UNCHANGED <<bitstream, parser, phase>>

\* A seek for a frame: the position in the file is 0 if there is no seek data; the
\* parameter sets are pushed, then the first unit.
SeekTo ==
    /\ phase = "parsed"
    /\ access.seeks < MaxSeeks
    /\ \E f \in FrameIndex :
          LET seekFrame == getClosestSeekPoint(parser, f, 0).frameIndex
              found == getSeekData(parser, seekFrame)
              d == IF found = {} THEN [filePos |-> 0, parameterSets |-> {}]
                   ELSE CHOOSE d \in found : TRUE
          IN /\ source' = getNextNALUnit(seek(source, d.filePos))
             /\ access' = [kind |-> "seek", target |-> f, unit |-> UnitOf(source'.unit),
                           sets |-> d.parameterSets, seeks |-> access.seeks + 1]
    /\ UNCHANGED <<bitstream, parser, phase>>

\* The next unit, while the decoder needs more data.
ReadNext ==
    /\ phase = "parsed"
    /\ access.kind \in {"seek", "next"}
    /\ ~atEnd(source)
    /\ source' = getNextNALUnit(source)
    /\ access' = [access EXCEPT !.kind = "next", !.unit = @ + 1]
    /\ UNCHANGED <<bitstream, parser, phase>>

Next == ParseUnit \/ ParseFinished \/ ReadFrame \/ SeekTo \/ ReadNext

Spec == Init /\ [][Next]_vars
-----------------------------------------------------------------------------
(* What the file holds, said without the reader and the parser.            *)

Offset(k) == Len(bitstream.lead) + Len(FlattenSeq([j \in 1 .. k - 1 |-> units[j].bytes]))

\* The pictures by their first slices, and the slices of each.
FirstSlices == {k \in DOMAIN units : isSlice(units[k].nal) /\ units[k].nal.first}
LastSlice(k) ==
    CHOOSE l \in k .. Len(units) :
        /\ isSlice(units[l].nal)
        /\ \A j \in k + 1 .. Len(units) :
              /\ (j <= l /\ isSlice(units[j].nal)) => ~units[j].nal.first
              /\ j > l /\ isSlice(units[j].nal) =>
                    \E i \in l + 1 .. j : isSlice(units[i].nal) /\ units[i].nal.first

\* The pictures that can be decoded and shown: not those before the first random access
\* picture.
FirstRandomAccess == CHOOSE k \in FirstSlices :
    isIRAP(units[k].nal) /\ \A j \in FirstSlices : isIRAP(units[j].nal) => k <= j
Pictures == {k \in FirstSlices : units[k].shown >= units[FirstRandomAccess].shown}
PicturesInOrder == SelectSeq([k \in DOMAIN units |-> k], LAMBDA k : k \in Pictures)
PictureAt(place) == CHOOSE k \in Pictures :
    Cardinality({j \in Pictures : units[j].shown < units[k].shown}) = place

TypeOK ==
    /\ Len(source.buffer) = BufferSize
    /\ source.size \in 0 .. BufferSize
    /\ source.pos \in -3 .. BufferSize
    /\ FilePos(source) >= 0
    /\ phase \in {"parsing", "parsed"}
    /\ access.kind \in {"none", "frame", "seek", "next"}
    /\ access.unit \in 0 .. Len(units) /\ access.seeks \in 0 .. MaxSeeks
    /\ Len(parser.frames) <= Len(units)

\* Every picture of the file is in the list of frames once, in coding order, with the
\* place of its slices in the file, and the picture order count puts the pictures into
\* the order in which they are shown, over wraps of its least significant bits and over
\* the start of a new sequence, wherever the buffer of the file ends.
FramesAsCoded ==
    phase = "parsed" /\ access.kind = "none" =>
        /\ Len(parser.frames) = Cardinality(Pictures)
        /\ \A m \in DOMAIN parser.frames :
              LET f == parser.frames[m]
                  k == PicturesInOrder[m]
                  last == LastSlice(k)
              IN /\ f.pos[1] = Offset(k)
                 /\ f.pos[2] \in IF last = Len(units)
                                  THEN Len(source.file) - 1 .. Len(source.file)
                                  ELSE {Offset(last + 1)}
                 /\ f.ra = isIRAP(units[k].nal)
                 /\ \A n \in DOMAIN parser.frames :
                       f.poc < parser.frames[n].poc
                           <=> units[k].shown < units[PicturesInOrder[n]].shown

\* The units with four bytes of start code, each with at most one zero byte behind it.
RECURSIVE MatchUnits(_, _, _)
MatchUnits(bytes, k, last) ==
    IF k > last THEN bytes = <<>>
    ELSE LET unit == <<0, 0, 0, 1, k + 1>> \o units[k].filler
         IN \E extra \in 0 .. 1 :
               LET whole == unit \o Zeros(extra)
               IN Mid(bytes, 0, Len(whole)) = whole
                  /\ MatchUnits(Mid(bytes, Len(whole), Len(bytes)), k + 1, last)

\* The data of a frame is what the file holds from its first to its last slice, no
\* unit less and none of the next frame.
FrameDataIsItsPicture ==
    access.kind = "frame" =>
        LET k == PicturesInOrder[access.target + 1] IN MatchUnits(source.data, k, LastSlice(k))

\* A leading picture of a random access picture: coded after it and shown before it.
IsLeadingOf(k, r) == k > r /\ units[k].shown < units[r].shown

ActiveSets(r) == {k \in 1 .. r : /\ units[k].nal.type = "PPS"
                                 /\ \A j \in k + 1 .. r : units[j].nal.type = "PPS" =>
                                        units[j].nal.pps # units[k].nal.pps}

\* After a seek the decoder gets a random access picture from which the wanted frame can
\* be decoded, with the parameter sets that are in force there, and then the units of
\* the file one after the other.
SeekReachesFrame ==
    /\ access.kind = "seek" =>
          LET r == access.unit
              wanted == PictureAt(access.target)
          IN /\ r \in FirstSlices
             /\ isIRAP(units[r].nal)
             /\ r <= wanted
             /\ ~IsLeadingOf(wanted, r)
             /\ access.sets = ActiveSets(r)
    /\ access.kind \in {"seek", "next"} =>
          \E extra \in 0 .. 1 : Payload(source.unit) = <<access.unit + 1>>
                                   \o units[access.unit].filler \o Zeros(extra)

\* FileSourceAnnexBTest: a unit is returned with the bytes it has in the file, "everything
\* including the start code", no more and no less.
UnitsAreWhole ==
    \A k \in DOMAIN units :
        source.unit # <<>> /\ access.kind = "none" /\ source.range[1] = Offset(k) =>
            source.unit = units[k].bytes
=============================================================================
