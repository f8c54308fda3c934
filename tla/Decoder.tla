------------------------------- MODULE Decoder -------------------------------
(***************************************************************************)
(* The decoders behind the class decoderBase: libde265, HM, VTM, VVdeC,    *)
(* dav1d and FFmpeg. A caller pushes units of the bitstream until the      *)
(* decoder wants pictures to be taken out, takes pictures until it wants   *)
(* more data, and pushes empty data at the end of the bitstream.           *)
(*                                                                         *)
(* A decoder `d' is a record of the members that decide what the next call *)
(* does, with the libraries it wraps in `lib':                             *)
(*   engine   which of the classes it is                                   *)
(*   state    decoderState                                                 *)
(*   waiting  decodedFrameWaiting: pushing the data already gave a picture *)
(*   ready    currentFrameReadyForRetrieval (VVdeC only)                   *)
(*   flushing the end of the bitstream was pushed                          *)
(*   header   sequenceHeaderPushed (dav1d only)                            *)
(*   shown    the picture the library handed out last                      *)
(*   buffer   currentOutputBuffer: the picture whose samples it holds      *)
(*   ok       what the last call returned                                  *)
(* A picture is known by its position in display order, and the content of *)
(* a buffer by the picture it was copied from. One unit is one picture.    *)
(*                                                                         *)
(* The libraries are external: they decode the pictures they can, hold     *)
(* `delay' of them back to put them in display order, and give the rest    *)
(* out once they are told that the bitstream has ended.                    *)
(***************************************************************************)
EXTENDS Integers, FiniteSetsExt

NoPicture == -1
Engine == {"Libde265", "HM", "VTM", "VVDec", "Dav1d", "FFMpeg"}
DecoderState == {"NeedsMoreData", "RetrieveFrames", "EndOfBitstream", "Error"}

ParameterSet == [kind |-> "parameters"]
EmptyData == [kind |-> "empty"]
\* A coded picture; one that is `lost' has data that no decoder can decode.
Coded(poc, rap, lost) == [kind |-> "picture", poc |-> poc, rap |-> rap, lost |-> lost]
-----------------------------------------------------------------------------
(* The libraries.                                                          *)

NewLibrary(delay) ==
    [start |-> NoPicture,   \* the random access picture decoding started at
     held |-> {},           \* pictures decoded and not handed out
     parsing |-> EmptyData, \* HM and VTM: the picture whose data is being read
     drained |-> FALSE, delay |-> delay]

\* Pictures before the first random access picture, and those after it that
\* are displayed before it, refer to pictures the library does not have.
Decode(lib, unit) ==
    IF unit.kind # "picture" THEN lib
    ELSE IF unit.lost \/ (lib.start = NoPicture /\ ~unit.rap) THEN lib
    ELSE IF lib.start = NoPicture THEN [lib EXCEPT !.start = unit.poc, !.held = @ \cup {unit.poc}]
    ELSE IF unit.poc < lib.start THEN lib
    ELSE [lib EXCEPT !.held = @ \cup {unit.poc}]

HasPicture(lib) ==
    /\ lib.held # {}
    /\ lib.drained \/ Cardinality(lib.held) > lib.delay

TakePicture(d) == [d EXCEPT !.shown = Min(d.lib.held), !.lib.held = @ \ {Min(@)}]
-----------------------------------------------------------------------------
NewDecoder(engine, delay) ==
    [engine |-> engine, state |-> "NeedsMoreData", lib |-> NewLibrary(delay),
     waiting |-> FALSE, ready |-> FALSE, flushing |-> FALSE, header |-> FALSE,
     shown |-> NoPicture, buffer |-> NoPicture, ok |-> TRUE]

Refused(d) == [d EXCEPT !.ok = FALSE]

\* setErrorB.
Failed(d) == [d EXCEPT !.state = "Error", !.ok = FALSE]

(* resetDecoder with allocateNewDecoder. The classes differ in what stays:  *)
(* HM, VTM and FFmpeg keep their buffers, dav1d the sequence header, and    *)
(* FFmpeg does not leave an error.                                          *)
New(d) == NewDecoder(d.engine, d.lib.delay)
Libde265_resetDecoder(d) == [New(d) EXCEPT !.shown = d.shown]
HM_resetDecoder(d) == [New(d) EXCEPT !.shown = d.shown, !.buffer = d.buffer]
VVDec_resetDecoder(d) == New(d)
Dav1d_resetDecoder(d) == [New(d) EXCEPT !.shown = d.shown, !.header = d.header]
FFMpeg_resetDecoder(d) ==
    IF d.state = "Error" THEN d ELSE [New(d) EXCEPT !.shown = d.shown, !.buffer = d.buffer]
-----------------------------------------------------------------------------
(* libde265 gives out a picture when it is fed; it reports the end of the  *)
(* bitstream when it was told to flush and has no picture left.            *)

Libde265_decodeFrame_NoEnd(d, fed) ==
    IF HasPicture(d.lib) /\ (fed \/ d.lib.drained)
    THEN [TakePicture(d) EXCEPT !.state = "RetrieveFrames", !.buffer = NoPicture, !.ok = TRUE]
    ELSE [d EXCEPT !.state = "NeedsMoreData", !.shown = NoPicture, !.ok = FALSE]

Libde265_decodeFrame(d, fed) ==
    IF HasPicture(d.lib) /\ (fed \/ d.lib.drained)
    THEN [TakePicture(d) EXCEPT !.state = "RetrieveFrames", !.buffer = NoPicture, !.ok = TRUE]
    ELSE [d EXCEPT !.state = IF d.lib.drained THEN "EndOfBitstream" ELSE "NeedsMoreData",
                   !.shown = NoPicture, !.ok = FALSE]

Libde265_pushData(d, data) ==
    IF d.flushing THEN Refused(d)
    ELSE LET fed == IF data = EmptyData
                    THEN [d EXCEPT !.lib.drained = TRUE, !.flushing = TRUE]
                    ELSE [d EXCEPT !.lib = Decode(@, data)]
             out == Libde265_decodeFrame(fed, TRUE)
         IN  [out EXCEPT !.waiting = @ \/ out.ok, !.ok = TRUE]

Libde265_decodeNextFrame(d) ==
    IF d.waiting THEN [d EXCEPT !.waiting = FALSE, !.ok = TRUE]
    ELSE Libde265_decodeFrame(d, FALSE)
-----------------------------------------------------------------------------
(* HM and VTM notice that a picture is complete when the next one is       *)
(* pushed, which then has to be pushed again. VTM clears the buffer for    *)
(* every picture, HM only for one that came while pushing. Neither reports *)
(* the end of the bitstream.                                               *)

HM_getNextFrameFromDecoder(d) ==
    IF HasPicture(d.lib) THEN [TakePicture(d) EXCEPT !.ok = TRUE]
    ELSE [d EXCEPT !.state = "NeedsMoreData", !.shown = NoPicture, !.ok = FALSE]

VTM_getNextFrameFromDecoder(d) ==
    LET out == HM_getNextFrameFromDecoder(d)
    IN  IF out.ok THEN [out EXCEPT !.buffer = NoPicture] ELSE out

NextFrame(d) ==
    IF d.engine = "VTM" THEN VTM_getNextFrameFromDecoder(d) ELSE HM_getNextFrameFromDecoder(d)

HM_pushData(d, data) ==
    LET newPicture == data.kind = "picture" /\ d.lib.parsing # EmptyData
        done == [Decode(d.lib, d.lib.parsing) EXCEPT !.parsing = EmptyData]
        lib == IF newPicture THEN done
               ELSE IF data = EmptyData THEN [done EXCEPT !.drained = TRUE]
               ELSE [d.lib EXCEPT !.parsing = IF data.kind = "picture" THEN data ELSE @]
        out == IF newPicture \/ data = EmptyData THEN NextFrame([d EXCEPT !.lib = lib])
               ELSE Refused([d EXCEPT !.lib = lib])
    IN  IF out.ok
        THEN [out EXCEPT !.waiting = TRUE, !.state = "RetrieveFrames",
                         !.buffer = NoPicture, !.ok = ~newPicture]
        ELSE [out EXCEPT !.ok = ~newPicture]

HM_decodeNextFrame(d) ==
    IF d.shown = NoPicture THEN Refused(d)
    ELSE IF d.waiting THEN [d EXCEPT !.waiting = FALSE, !.ok = TRUE]
    ELSE NextFrame(d)
-----------------------------------------------------------------------------
(* VVdeC gives out at most one picture per unit; decodeNextFrame says that *)
(* it is there the first time, and goes back to pushing the second time.   *)

VVDec_pushData(d, data) ==
    IF d.flushing THEN Refused(d)
    ELSE IF data = EmptyData
    THEN [d EXCEPT !.lib.drained = TRUE, !.flushing = TRUE, !.state = "RetrieveFrames",
                   !.buffer = NoPicture, !.ok = TRUE]
    ELSE LET fed == [d EXCEPT !.lib = Decode(@, data), !.ok = TRUE]
         IN  IF HasPicture(fed.lib)
             THEN [TakePicture(fed) EXCEPT !.state = "RetrieveFrames", !.buffer = NoPicture]
             ELSE [fed EXCEPT !.shown = NoPicture]

VVDec_decodeNextFrame(d) ==
    IF d.flushing
    THEN IF HasPicture(d.lib) THEN [TakePicture(d) EXCEPT !.buffer = NoPicture, !.ok = TRUE]
         ELSE [d EXCEPT !.state = "EndOfBitstream", !.ok = FALSE]
    ELSE IF d.ready THEN [d EXCEPT !.state = "NeedsMoreData", !.ready = FALSE, !.ok = FALSE]
    ELSE [d EXCEPT !.ready = TRUE, !.ok = TRUE]
-----------------------------------------------------------------------------
(* dav1d wants a sequence header first. It refuses data after the end of   *)
(* the bitstream, and does not report that end.                            *)

Dav1d_decodeFrame(d) ==
    IF HasPicture(d.lib)
    THEN [TakePicture(d) EXCEPT !.state = "RetrieveFrames", !.buffer = NoPicture, !.ok = TRUE]
    ELSE [d EXCEPT !.state = "NeedsMoreData", !.shown = NoPicture, !.ok = FALSE]

Dav1d_pushData(d, data) ==
    IF d.flushing THEN Refused(d)
    ELSE IF ~d.header /\ data = EmptyData THEN Failed(d)
    ELSE IF ~d.header /\ data # ParameterSet THEN [d EXCEPT !.ok = TRUE]
    ELSE LET fed == IF data = EmptyData THEN [d EXCEPT !.flushing = TRUE]
                    ELSE [d EXCEPT !.lib = Decode(@, data), !.header = TRUE]
             out == Dav1d_decodeFrame(fed)
         IN  [out EXCEPT !.waiting = @ \/ out.ok, !.ok = TRUE]

Dav1d_decodeNextFrame(d) ==
    IF d.waiting THEN [d EXCEPT !.waiting = FALSE, !.ok = TRUE]
    ELSE Dav1d_decodeFrame(d)
-----------------------------------------------------------------------------
(* FFmpeg takes no data while it has a picture to give out. The end of the *)
(* bitstream is not passed on to the library: what it holds is lost.       *)

FFMpeg_pushData(d, data) ==
    IF data = EmptyData
    THEN [d EXCEPT !.flushing = TRUE, !.state = "RetrieveFrames", !.ok = FALSE]
    ELSE IF d.flushing THEN Refused(d)
    ELSE IF HasPicture(d.lib) THEN [d EXCEPT !.state = "RetrieveFrames", !.ok = FALSE]
    ELSE [d EXCEPT !.lib = Decode(@, data), !.ok = TRUE]

FFMpeg_decodeNextFrame(d) ==
    IF HasPicture(d.lib) THEN [TakePicture(d) EXCEPT !.buffer = NoPicture, !.ok = TRUE]
    ELSE [d EXCEPT !.state = IF d.flushing THEN "EndOfBitstream" ELSE "NeedsMoreData", !.ok = FALSE]
-----------------------------------------------------------------------------
(* The virtual functions of decoderBase.                                   *)

pushData(d, data) ==
    IF d.state # "NeedsMoreData" THEN Refused(d)
    ELSE CASE d.engine = "Libde265" -> Libde265_pushData(d, data)
           [] d.engine \in {"HM", "VTM"} -> HM_pushData(d, data)
           [] d.engine = "VVDec" -> VVDec_pushData(d, data)
           [] d.engine = "Dav1d" -> Dav1d_pushData(d, data)
           [] d.engine = "FFMpeg" -> FFMpeg_pushData(d, data)

decodeNextFrame(d) ==
    IF d.state # "RetrieveFrames" THEN Refused(d)
    ELSE CASE d.engine = "Libde265" -> Libde265_decodeNextFrame(d)
           [] d.engine \in {"HM", "VTM"} -> HM_decodeNextFrame(d)
           [] d.engine = "VVDec" -> VVDec_decodeNextFrame(d)
           [] d.engine = "Dav1d" -> Dav1d_decodeNextFrame(d)
           [] d.engine = "FFMpeg" -> FFMpeg_decodeNextFrame(d)

resetDecoder(d) ==
    CASE d.engine = "Libde265" -> Libde265_resetDecoder(d)
      [] d.engine \in {"HM", "VTM"} -> HM_resetDecoder(d)
      [] d.engine = "VVDec" -> VVDec_resetDecoder(d)
      [] d.engine = "Dav1d" -> Dav1d_resetDecoder(d)
      [] d.engine = "FFMpeg" -> FFMpeg_resetDecoder(d)

\* getRawFrameData fills the buffer if it is empty, and returns it.
Buffered(d) ==
    IF d.state = "RetrieveFrames" /\ d.shown # NoPicture /\ d.buffer = NoPicture
    THEN [d EXCEPT !.buffer = d.shown] ELSE d

getRawFrameData(d) ==
    IF d.state = "RetrieveFrames" /\ d.shown # NoPicture THEN Buffered(d).buffer ELSE NoPicture
=============================================================================
