----------------------------- MODULE ParserAnnexB -----------------------------
(***************************************************************************)
(* ParserAnnexB and ParserAnnexBHEVC: from the NAL units of a stream to    *)
(* the list of its frames, with the picture order count by which they are  *)
(* shown, their place in the file, and the points to seek to.              *)
(*                                                                         *)
(* A NAL unit is a record; of its syntax there is what the list depends    *)
(* on: type; for a slice first (the first of its picture), pps, lsb and    *)
(* tid (slice_pic_order_cnt_lsb, TemporalId); for a parameter set its pps  *)
(* (id).  VPS, SPS and PPS are kept alike and are one type here.  There is *)
(* one layer.                                                              *)
(***************************************************************************)
EXTENDS Integers, Sequences, SequencesExt, FiniteSets

CONSTANTS MaxLsb,           \* MaxPicOrderCntLsb
          NoPoc             \* no random access frame yet

ASSUME LsbAssumption == MaxLsb \in Nat /\ MaxLsb % 2 = 0 /\ NoPoc \notin Int

isIRAP(nal) == nal.type \in {"IDR", "BLA", "CRA"}
isLeading(nal) == nal.type \in {"RASL", "RADL"}
isSlice(nal) == isIRAP(nal) \/ isLeading(nal) \/ nal.type = "TRAIL"

\* The parser before the first unit.
NewParser ==
    [frames |-> <<>>, firstRA |-> NoPoc,
     curPOC |-> -1, curPos |-> <<-1, -1>>, curRA |-> FALSE,
     maxPOCCount |-> -1, pocCounterOffset |-> 0,
     firstAU |-> TRUE, pictureSeen |-> FALSE, prevLsb |-> 0, prevMsb |-> 0,
     pps |-> {}, seeking |-> <<>>]

(***************************************************************************)
(* The frame list.                                                         *)
(***************************************************************************)

\* addFrameToList: nothing is returned if it fails, with a result or an exception.
InList(p, poc) == \E k \in DOMAIN p.frames : p.frames[k].poc = poc

addFrameToList(p) ==
    LET first == IF p.firstRA = NoPoc /\ p.curRA THEN p.curPOC ELSE p.firstRA
        frame == [poc |-> p.curPOC, pos |-> p.curPos, ra |-> p.curRA]
    IN IF InList(p, p.curPOC) \/ first = NoPoc THEN {}
       ELSE {[p EXCEPT !.firstRA = first,
                       !.frames = IF p.curPOC >= first THEN Append(@, frame) ELSE @]}

\* updateFrameListDisplayOrder; frames count from 0.
DisplayOrder(p) == SortSeq(p.frames, LAMBDA f, g : f.poc < g.poc)
FrameAt(list, k) == list[k + 1]
IndexOfPoc(list, poc) == (CHOOSE k \in DOMAIN list : list[k].poc = poc) - 1

\* getClosestSeekPoint: the last random access frame that is coded before the target
\* and shown before it, or the first frame of all.
getClosestSeekPoint_LastCoded(p, target, current) ==
    LET poc == FrameAt(DisplayOrder(p), target).poc
        before == {k \in DOMAIN p.frames : /\ k <= IndexOfPoc(p.frames, poc) + 1
                                           /\ p.frames[k].ra}
        best == IF before = {} THEN 1 ELSE CHOOSE k \in before : \A j \in before : j <= k
    IN [frameIndex |-> IndexOfPoc(DisplayOrder(p), p.frames[best].poc),
        distance |-> best - 1 - IndexOfPoc(p.frames, FrameAt(DisplayOrder(p), current).poc)]

getClosestSeekPoint(p, target, current) ==
    LET poc == FrameAt(DisplayOrder(p), target).poc
        before == {k \in DOMAIN p.frames : /\ k <= IndexOfPoc(p.frames, poc) + 1
                                           /\ p.frames[k].ra
                                           /\ p.frames[k].poc < poc}
        best == IF before = {} THEN 1 ELSE CHOOSE k \in before : \A j \in before : j <= k
    IN [frameIndex |-> IndexOfPoc(DisplayOrder(p), p.frames[best].poc),
        distance |-> best - 1 - IndexOfPoc(p.frames, FrameAt(DisplayOrder(p), current).poc)]

(***************************************************************************)
(* A slice.                                                                *)
(***************************************************************************)

NoRaslOutputFlag(p, nal) == nal.type \in {"IDR", "BLA"} \/ p.firstAU
StartsSequence(p, nal) == isIRAP(nal) /\ NoRaslOutputFlag(p, nal)

Lsb(nal) == IF nal.type = "IDR" THEN 0 ELSE nal.lsb

\* PicOrderCntMsb (8-1)
PicOrderCntMsb(p, nal) ==
    IF StartsSequence(p, nal) THEN 0
    ELSE IF Lsb(nal) < p.prevLsb /\ p.prevLsb - Lsb(nal) >= MaxLsb \div 2
    THEN p.prevMsb + MaxLsb
    ELSE IF Lsb(nal) > p.prevLsb /\ Lsb(nal) - p.prevLsb > MaxLsb \div 2
    THEN p.prevMsb - MaxLsb
    ELSE p.prevMsb

\* The count goes on over the start of a sequence if pictures were counted before it.
CountSlice_OffsetIsMax(p, nal) ==
    LET restart == StartsSequence(p, nal) /\ p.maxPOCCount > 0
        offset == IF restart THEN p.maxPOCCount ELSE p.pocCounterOffset
        max == IF restart THEN -1 ELSE p.maxPOCCount
        msb == PicOrderCntMsb(p, nal)
        poc == offset + msb + Lsb(nal)
        isPrevTid0 == nal.tid = 0 /\ ~isLeading(nal)
    IN [parser |-> [p EXCEPT !.pocCounterOffset = offset,
                             !.maxPOCCount = IF poc > max /\ ~StartsSequence(p, nal)
                                             THEN poc ELSE max,
                             !.prevLsb = IF isPrevTid0 THEN Lsb(nal) ELSE @,
                             !.prevMsb = IF isPrevTid0 THEN msb ELSE @],
        globalPOC |-> poc]

CountSlice(p, nal) ==
    LET restart == StartsSequence(p, nal) /\ p.maxPOCCount > 0
        offset == IF restart THEN p.maxPOCCount + 1 ELSE p.pocCounterOffset
        max == IF restart THEN -1 ELSE p.maxPOCCount
        msb == PicOrderCntMsb(p, nal)
        poc == offset + msb + Lsb(nal)
        isPrevTid0 == nal.tid = 0 /\ ~isLeading(nal)
    IN [parser |-> [p EXCEPT !.pocCounterOffset = offset,
                             !.maxPOCCount = IF poc > max /\ ~StartsSequence(p, nal)
                                             THEN poc ELSE max,
                             !.prevLsb = IF isPrevTid0 THEN Lsb(nal) ELSE @,
                             !.prevMsb = IF isPrevTid0 THEN msb ELSE @],
        globalPOC |-> poc]

\* The first slice of a picture closes the picture before it.
FramesClosed(p) == IF p.curPOC # -1 THEN addFrameToList(p) ELSE {p}

Seekable(nal, poc, range, id) == [type |-> nal.type, poc |-> poc, pos |-> range, id |-> id]

\* An exception leaves the unit where it is thrown; what was assigned before stays.
ParseSlice(p, nal, range, id) ==
    IF nal.pps \notin p.pps THEN p
    ELSE LET counted == CountSlice(p, nal)
             closed == FramesClosed(counted.parser)
         IN IF ~nal.first
            THEN [counted.parser EXCEPT !.curPos[2] = range[2]]
            ELSE IF closed = {} THEN counted.parser
            ELSE LET q == CHOOSE q \in closed : TRUE
                 IN [q EXCEPT !.curPos = range, !.curPOC = counted.globalPOC,
                              !.curRA = isIRAP(nal),
                              !.seeking = IF isIRAP(nal)
                                          THEN Append(@, Seekable(nal, counted.globalPOC,
                                                                  range, id))
                                          ELSE @]

ParseParameterSet(p, nal, range, id) ==
    [p EXCEPT !.pps = @ \union {nal.pps},
              !.seeking = Append(@, Seekable(nal, nal.pps, range, id))]

\* auDelimiterDetector.isStartOfNewAU, for the types above and "SEI" (a prefix SEI).
IsStartOfNewAU(p, nal) ==
    p.pictureSeen /\ \/ nal.type \in {"PPS", "SEI"}
                     \/ isSlice(nal) /\ nal.first /\ nal.pps \in p.pps

\* parseAndAddNALUnit
parseAndAddNALUnit(p, nal, range, id) ==
    LET parsed == CASE isSlice(nal) -> ParseSlice(p, nal, range, id)
                    [] nal.type = "PPS" -> ParseParameterSet(p, nal, range, id)
                    [] OTHER -> p
        start == IsStartOfNewAU(p, nal)
    IN [parsed EXCEPT !.firstAU = @ /\ ~start,
                      !.pictureSeen = isSlice(nal) \/ (@ /\ ~start)]

\* The call without data at the end of the file.
ParseEnd(p) ==
    IF FramesClosed(p) = {} THEN p ELSE CHOOSE q \in FramesClosed(p) : TRUE

\* getSeekData: where the slice of a frame is, and the last parameter set of every id
\* that comes before it (the units, by their number in the file).
getSeekData(p, frame) ==
    LET poc == FrameAt(DisplayOrder(p), frame).poc
        slices == {k \in DOMAIN p.seeking : p.seeking[k].type # "PPS" /\ p.seeking[k].poc = poc}
        at == CHOOSE k \in slices : \A j \in slices : k <= j
        sets(last) == {k \in 1 .. last - 1 : p.seeking[k].type = "PPS"}
        active(last) == {k \in sets(last) : \A j \in sets(last) :
                            j > k => p.seeking[j].poc # p.seeking[k].poc}
    IN {[filePos |-> p.seeking[k].pos[1],
         parameterSets |-> {p.seeking[j].id : j \in active(k)}] :
            k \in IF slices = {} THEN {} ELSE {at}}
=============================================================================
